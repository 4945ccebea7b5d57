# FOS: TLA+ models, checks and proofs

This directory is a verification project for FOS, the operating system in
`src/`. It holds TLA+ modules translated from the C and assembly source, TLC
configurations that check them on small instances, and TLAPS proofs of the
properties that hold for every value of the constants.

    tlc -workers 2 -config Ui.cfg MCUi.tla
    tlapm SchedulerProofs.tla

`PROJECT.json` is the index: the components, the runs with what each checks,
which source lines every definition stands for, the hazards each property is
aimed at, the mutated definition that each property is known to catch, the
findings and the theorems.

## 1. The system

FOS is a uniprocessor x86_64 kernel with everything linked in. `kmain` runs the
drivers' `*_init`, mounts the disk, creates four tasks and calls `sched_start`;
after that, code runs in only three places:

* the **timer interrupt** (1 kHz), which also preempts;
* the **keyboard and mouse interrupts**;
* the tasks `rt` (priority 0, period 100 ms), `ui` (10, an endless loop that
  ends in `sched_sleep(16)`), `logger` (20, period 1000 ms) and `idle` (31).

The ui task runs the window manager, every application, the network stack (it
polls; there is no network interrupt), the file system and the heap. So the
concurrency that matters is: tick against task, keyboard and mouse interrupt
against ui, and the two tasks (ui, logger) that read the clock. The other hard
behaviours come from outside: power cuts and failing accesses for the disk,
losses, repeats, delays and reorderings for the network, a card that writes on
while its ring is read, lost bytes of the mouse, servers and pages that say
anything; and from long sequences of legal calls, for the allocators, the
windows, the files and the scripts.

| Component | Source | State | Operations | Hard part | Correct when |
|---|---|---|---|---|---|
| Scheduler | `kernel/sched.c`, `sched_asm.asm`, IRQ stub of `isr.asm`, `timer.c` | task table, `g_current`, quantum | create, start, yield, sleep, wait_period, exit, wake, set_priority, tick | ticks inside the calls, which run with interrupts on | one task RUNNING; frames never reused; strict priority; no sleep is early or lost; real-time tasks on time |
| Storage | `kernel/fs.c`, `diskfs.c`, `ata.c`, boot part of `kmain.c` | file cache; directory and superblock in memory; the disk | create/write, remove, sync, format, mount, load | power cuts and failures between one-sector writes | no sector belongs to two files; a completed call survives |
| Physical memory | `kernel/pmm.c` | bitmap, count, cursor | alloc/free of frames and runs | any memory map, any order of calls | no frame is granted twice, lost, or in use by the firmware |
| Page tables, back buffer | `kernel/vmm.c`, `heap_init`, `kernel/fb.c` | tables; the frames of the back buffer | map; resize | memory that runs out half-way | each frame has one user; the heap is mapped where there is memory for it |
| Heap | `kernel/heap.c` | linked list of blocks | kmalloc, kfree, krealloc | splitting and merging over long sequences | grants disjoint and large enough; no room is wasted by a missed merge |
| Keyboard | `kernel/keyboard.c` | modifiers, layout and its latch, ring | interrupt, has_char, getchar, set_layout | no lock between interrupt and task | ring is a queue; one switch per chord |
| Mouse | `kernel/mouse.c` | packet in assembly, position, buttons | interrupt, speeds | lost bytes | the pointer follows the device whenever the count of bytes is in step |
| Clock | `kernel/rtc.c` | CMOS index port, offset | read, set offset | two tasks share one index port; the calendar | an undisturbed reading is the instant of the clock in the zone chosen |
| TCP | `kernel/net.c`, reading loop of `http.c` | one connection | connect, send, recv, close, handle_tcp | what the network does to segments | the buffer is the peer's stream; every call returns |
| Addresses, ping, names | `kernel/net.c` | ARP cache of one entry, ping and UDP mailboxes | ping, lookup, connect's resolution | late replies; the entry changes during a wait | no call takes what came before it; a reachable host is reached |
| Network card | `kernel/rtl8139.c` | receive ring, its offset | poll | the card wraps in a frame and runs a lap ahead; the driver wraps early | all frames of the driver's lap come out in order, whole where the ring lets them |
| HTTP client | `kernel/http.c` | cookie jar | get, redirects, chunked bodies | redirect loops; a buffer full of copies, one for both forms of a body | the jar holds a cookie once; redirects end; a body that came whole is found |
| HTML extractor | `kernel/html.c` | pending text, lists, flags | parse | tags in any order, limits; entities damage the pending text | text is in lines in order, in the headings, links and lists it was read in |
| Window manager | `gui/window.c`, `compositor.c`, `desktop.c` | slots, focus, drag, menus, icons | open, close, click, drag | references to a slot that was reused; three layers that remember the button | one layer acts on a press; the focus is a window shown; everything stays reachable |
| Settings | `gui/settings.c`, `wallpaper.c` | settings, their file, the photo's picture | load, save, change | restart between change and save | a boot comes up with what was saved |
| Terminal, scripts | `apps/terminal.c`, `script.c` | lines, history, stack of scripts | commands, run | scripts that change the files they run from; nesting, goto | a command does to the files what it says; scripts end |
| Browser | `apps/browser.c` | history and position, page | open, link, back, forward, search | links followed from the middle of the history | back returns to the page before; links lead where they should |
| Notepad, files, media | `apps/notepad.c`, `files.c`, `media.c` | slots per window, copies of files, one speaker | open, type, save, remove; play | copies that went stale; windows closed while playing | a save harms no other file; the speaker follows the one player |
| System calls, ELF | `kernel/syscall.c`, `elf.c` | | | no program is loaded by this kernel | |
| Drawing, serial port, libraries | `fb.c`, `font.c`, `serial.c`, `lib/` | pixels, ports, strings | | none (no protocol) | |

Interactions: the ui task calls everything but the scheduler's interrupt side;
applications call `fs_*`, `net_*`, `http_get_follow`, `settings_*` and
`window_*`; `fs.c` calls `kmalloc`/`krealloc`/`kfree` and `dfs_*`, which call
`ata_*`; the heap, the page tables and the frame buffer take their frames from
`pmm.c`; interrupts hand over through the keyboard ring, the mouse variables
and the task states.

## 2. The modules and the runs

| Module | Models | Checked in | Proofs |
|---|---|---|---|
| `Scheduler`, `MCScheduler` | scheduler and timer | `sched_api`, `sched_kernel` | `SchedulerProofs` |
| `FileStore` | what `fs.h` promises (abstract) | `disk_faults` | |
| `DiskFS`, `MCDiskFS` | storage; implements `FileStore` | `disk_faults`, `disk_window` | `DiskFSProofs` |
| `PMM` | physical memory | `memory` | `MemoryProofs` |
| `Memory`, `MCMemory` | page tables, heap_init and back buffer over `PMM` | `memory` | `MemoryProofs` |
| `Allocator` | what `heap.h` promises (abstract) | `memory` | |
| `Heap` | the heap; implements `Allocator` | `memory` | `HeapProofs` |
| `Tcp` | one TCP connection after another, and its reader | `calls`, `tcp_fin`, `tcp_twice` | `NetProofs` |
| `Net` | ARP cache, ping, DNS, resolution for connect | `calls`, `net_lookup` | `NetProofs` |
| `Card` | receive ring of the network card | `calls` | `NetProofs` |
| `Http` | the HTTP client | `calls`, `cookies` | `NetProofs` |
| `FileTable` | the table of files as applications use it (operators) | `calls`, `ui` | `FileProofs` |
| `Shell` | a terminal and its scripts, over `FileTable` | `calls` | `FileProofs` |
| `KeyQueue` | a bounded queue of characters (abstract) | `ui` | |
| `Keyboard` | keyboard driver; implements `KeyQueue` | `ui` | `InputProofs` |
| `Mouse`, `Clock` | the two other drivers with hard parts | `ui` | `InputProofs` |
| `Windows` | clicks, windows, menus, focus, drags | `ui`, `window_raised` | `UiProofs` |
| `Screen` | places of windows and icons, changes of the resolution | `ui` | `UiProofs` |
| `Settings` | settings and wallpaper over power cuts | `ui` | `UiProofs` |
| `Media` | players and the speaker | `ui` | `UiProofs` |
| `Documents` | notepads and list of files over `FileTable` | `ui` | `FileProofs` |
| `Html`, `Browser` | a page to lines; history, pages and search | `ui` | `UiProofs` |

A definition marked `Bug:` in a comment is not part of a specification: it is
the mutated form of the definition after it, kept to show that the property
aimed at that code can fail.

The runs are grouped by the kind of question. `MCMemory`, `MCCalls` and `MCUi`
each put together several modules whose state has nothing in common by extending
them all, so that a run and a theorem are about the same definition. (Names such
as `NetInit`, `windowsVars` or `ShellSpec` are there to tell them apart.) A variable
`part`, chosen in the first state and never changed, says which of them moves,
and the others keep one first state. So a behaviour of such a run is a
behaviour of one module on its instance, its states are the sum and not the
product of the parts, and a property that joins those of several parts (such as
`CallsTyped`, `EveryCallReturns`) is their conjunction. Where modules do share
state they are composed: `Memory` extends `PMM` and its callers compete for the
same frames; `Tcp` contains the loop of `http.c` that reads from it; `Shell` and
`Documents` run over the operators of `FileTable`.

| Run | Question | States | Expectation |
|---|---|---|---|
| `sched_api` | every call of `sched.h` under ticks in every window | 414 000 | holds |
| `sched_kernel` | `kmain`'s shape: no early, late or lost wake-up | 21 000 | holds |
| `disk_faults` | files against failures and power cuts | 1 380 000 | holds |
| `memory` | frames, their users, the heap | 76 000 | holds |
| `calls` | what waits for something outside, or runs what it is given | 214 000 | holds |
| `ui` | what a user sees and touches | 488 000 | holds |
| `disk_window`, `tcp_fin`, `tcp_twice`, `net_lookup`, `cookies`, `window_raised` | one disagreement each, section 4 | | violated |

### Scheduler

Variables are the fields of `struct tcb` (`state`, `prio`, `remaining`, ...),
`g_task_count` and `g_current`, plus where each task is in the scheduler's own
code. Inside an interrupt handler and inside `sched_do_yield` interrupts are
off, so `Tick` and `DoYield` are one action each. `sched_sleep`,
`sched_wait_period` and `sched_exit` run with interrupts on; their stores are
separate actions (`Sleep`/`WaitPeriod` store the wake time: *armed*;
`MarkSleeping` or `MarkDead` store the state: *marked*; `GiveUp` is
`sched_do_yield`; `Resume` is what follows it), and a tick may fall anywhere in
between. The two ways to lose the processor save the stack pointer at different
places of the code; `frame` tells whether a task's saved stack pointer is newer
than its last run.

Time is relative to now (`wake`, `due`), and saturates where the code tells
values apart no more, so the models are finite without a clock. The code path
that skips releases does so once a task is late by a period; `due` stops there.
`Horizon` bounds how far `next_wake_ms` can run ahead when `sched_wake` cuts
waits short. The counters `rtstat` prints are left out, but for the maximum
jitter.

The type of interleaving that the model leaves to a constant is `Prompt`: a task
in this set meets at most one tick on its way through scheduler code, because
that code is a few dozen instructions and a tick is a millisecond. Only
`RealTime` needs it (a processor that executed nothing between ticks could make
any deadline late); the theorems do not assume it.

* `sched_api`: three tasks, two of equal priority, that use every call of
  `sched.h`, with priorities outside the range and `sched_wake` and
  `sched_set_priority`, which nothing in the repository calls yet.
* `sched_kernel`: `kmain`'s shape: a periodic task of priority 0, a task below
  it that sleeps 0 to 2 ticks or waits for its period, and idle. The periods (3
  and 2) are not multiples of one another and the quantum is 2, so every phase
  of release, expiry and quantum occurs. Liveness is checked here:
  `SleepReturns`, that whoever sleeps or waits gets back to its code, which
  includes that no wake-up is lost.

Fairness: `FairSpec` says that boot goes on, that the timer keeps ticking (weak
fairness: the PIT is periodic), and that a task dispatched again and again gets
through the scheduler's own code (strong fairness of `KernelStep(t)`, since
preemption disables and re-enables the steps). `LoopingSpec` adds that the body
of a task comes back to a sleep, which is what the loops of `kmain.c` do.

### Storage

`files` is the cache of `fs.c`, `dir` and `next` the directory and `next_free`
of `diskfs.c`, `dsuper`, `ddir` and `ddata` the disk. A call begins in one
action, which changes the memory, and goes on as one action per sector it
writes: data, then every directory sector, then the superblock. Sizes are in
sectors and a file is the sequence of the values of its sectors; offsets start
at `DFS_DATA_START`. Only boot and the ui task call `fs_*`, so calls do not
overlap. Between any two sector writes the power may go (`PowerOff`, in the
stages `CrashIn`), and any access may fail (`FailIn`): `dfs_write` and
`dfs_remove` give up, `dfs_sync` goes on with the superblock, a format is
abandoned, and a mount that fails leaves the system in live mode. A boot may
find some files unreadable, and more files in the directory than the cache can
hold.

`promised` is a history variable: what the last completed call left under a
name, or `Unknown` from the moment a change begins until it has reached the
disk. The abstract `FileStore` has just this map and the cache; `DiskFS`
implements it with `kept <- promised`.

* `disk_faults`: three names over three data sectors and a directory of two
  sectors with a cache of two files, so growth, a full disk, a full cache, a
  full directory, reuse of slots and files outside the cache all occur;
  contents of 0, 1 and 2 sectors whose values tell where each one lies; two
  default files, one written only when it is missing and an empty one written by
  every boot, so that a file can grow past a neighbour. Failures of data sectors, of both steps of a format, of
  the mount and of loading a file; power cuts at rest, between data sectors and
  between the two steps of a format.
* `disk_window`: the same with a power cut just before the superblock is
  written; finding 1 below.

`disk_faults` leaves out power cuts in the directory and superblock stages, and
failures of their writes: `disk_window` shows what goes wrong there, and the
rest of the properties would fail for the same reason.

`FileTable` is the cache once more, as plain operators without the disk, for the
modules of the applications: a sequence of slots with the search by name, the
first free slot, and a table that may be full.

### Memory

`PMM`: `MemoryMap` and `Fixed` are what `pmm_init` finds; `Reserved` is the
bitmap it leaves, with the rounding of `mark_used`. Holes of the map count as
free, as in the code. `grants` is what callers hold; they free what they were
given, once.

`Memory` extends it with those callers: `heap_init`, page by page, each taking a
frame and then walking down the tables with `vmm_map_page`, which takes a frame
for every table that is missing and fails when there is none; the back buffer,
which `fb_resize` frees before it asks for another; and anybody else, who takes
and frees single frames and runs (`Others`). A boot without a back buffer
halts. `FramesMapped` is that the frames of tables, heap and back buffer are
granted and each has one use, and that the heap is mapped whenever there is
memory for it and its tables; with less, the code maps frame 0 or nothing, and
does not notice. `Heaps` has a heap in one table and one spread over tables for
which there is too little memory; `MemoryMap` has a hole, an unaligned reserved
region and a kernel that ends inside a page.

`Heap`: `blk` maps addresses of headers to headers: `size`, `used`, `next`,
`prev`, in units of 8 bytes, so header and 16-byte rounding keep their
proportions. The first fit of `kmalloc` walks the list, which `Linked` shows to
be in address order. The heap has room for up to six blocks and requests that
fit exactly, that leave less than a header and that split; all orders of calls
are explored. Contents of blocks are left out: `krealloc` copies between
disjoint blocks, which `AllocatorSpec` shows them to be. Only `fs.c` calls the
heap, from one task, with sizes that are never 0.

### TCP

Segments are handled only inside `net_poll`, which the waiting loops call; so
`Poll` is one segment in one of those loops. The peer keeps the protocol, and
what is in flight is everything it may have sent by now, in any cut into
segments: that is loss, repetition, delay and reordering at once. Connections
follow each other and are told apart by their port, so a late segment of the
connection before is among the inputs. Byte `k` of a stream has value `k`.
Deadlines are nondeterministic: a wait may end at any time.

* in `calls`: two connections, three bytes in segments of up to two, a buffer of
  two (so it overflows), with peers that send a FIN only after their data was
  acknowledged (`FinWaits`). `StreamSound` is five invariants: the buffer is a
  prefix of the stream, what is acknowledged was kept or dropped for want of
  room, the end means all of it, a connection is one the peer knows of, and one
  call of `net_tcp_recv` copies from the start.
* `tcp_fin`: a peer that sends its FIN with the last data; finding 2.
* `tcp_twice`: the body that `http_get_raw` puts together over several calls;
  finding 3.

`NxtBound` bounds the acknowledgement number, which every repeated FIN advances.
Fairness: the caller's steps (`WF(Caller)`): each of its loops has a deadline
and the ui task is scheduled.

### Addresses, ping and names

`cache` is the ARP entry; `wire` the frames on their way. `calm` is chosen once:
on a calm network nobody speaks unasked and every frame arrives once and in
time; otherwise frames may be lost, repeated and delayed for ever, and the hosts
in `Chatty` send requests and datagrams of their own. The instance has a
gateway, a name server that chatters and a host behind the gateway: three next
hops compete for one entry. Names are looked up, and datagrams have the address
of a name, or are of no use; which name a lookup asks for is in `asked`, since the
code keeps nothing of it that an answer is compared with. `AnswersFresh` says that
a ping reports only a reply of its own host, that a lookup returns an address
which came while it waited, and that of another name only if one came, and that a
ping of our /24 gets through on a calm network. A late answer to an earlier lookup
that comes while the next one waits is taken for its answer (section 4), so the
property cannot say more. `net_lookup` states that a name resolves on a calm network; finding 4.
Fairness: ticks go on, so every wait ends (`WF(Waiting)`), and on a calm network
frames arrive.

### Network card

`Card` is the ring in units of four bytes, with the card on one side and
`rtl8139_poll` on the other, which reads its place from a header, adds the
length and wraps at `RX_BUF_SIZE - 16`. `FirstLap` is about the first lap of the
driver, through all of which the card may be on its second, writing around the
end of the ring over what has been taken. In that lap, the frame that ends it
included, the protocols get the frames of the card in order, each whole exactly
if it does not run over the end of the ring (the driver reads straight on), and a
poll that stops before its guard leaves none. And the end of the lap leaves the
driver behind the header of the next frame, by the 16 bytes its ring is shorter
(`Slips`; section 4): from there on nothing is promised, since what lies there
may be the inside of a frame or an old header. The instance is 16 units with
frames of 3 and 5, five of them, and polls of two frames at most, so that the card
wraps in a frame before the driver does, the lap ends with a frame that is whole
or not, and old frames are given again after it. Left out: the transmit
descriptors, the set-up, PCI.

### HTTP

`Http` is above the connection: a call of `http_get_follow`, its hops, each a
request with its cookies, the response, the header lines one by one, and the
body, whose chunks are decoded from the buffer into its own upper half, unit by
unit. `Filled` is the buffer after the loop of `net_tcp_recv`: every call copies
from the start of `g_tcp_rx` (finding 3), so whatever has come is in the buffer
again and again, up to its last byte but one. The first call may come back before
all of the response is there, within the head too (its 5 s may end between two
segments): then the head that ends is that of the second copy, and the lines
before it are read twice (`again`). The calls after the first are taken to bring
the same, and a call ends between two lines or pieces; both are bounds. A URL is
a record of scheme, host, port and path; a redirect leads to a URL, to a path of
the same host, or nowhere. The jar has fewer slots than there are cookies.
`WebSound`: the jar holds a cookie once and its counter is right, also where a
head is read twice; a response that has come whole is found among its copies: a
chunked body that ends in the lower half is decoded to exactly what was sent, the
copies behind the last chunk notwithstanding, and a body that is not chunked
comes first in what the caller gets (the head and further copies follow it,
section 4). What becomes of a chunked response that is cut off or longer than
half of the buffer is in the model and in no property. `EveryCallReturns`
includes that a call ends although two servers redirect to each other (`WF` of
the client's steps). `cookies`: finding 5; no property says to whom cookies are
sent, as none ever is. Hosts are names of which none is the end of another, so
the matching by suffix is matching of equals.

### Terminal and scripts

In `Shell` a command is three words and a text is a sequence of lines that are
commands or directives, so the files are the scripts: those of the instance
copy, run, move and remove themselves and each other, set and use variables,
jump to labels that exist and that do not, nest until `MAX_SCRIPTS`, and exit.
`script_run` copies the file when it starts, as the code does. The state is the
table of files, the lines of the terminal, its history and the stack of scripts.
`FilesAsMeant` compares every step with what the command promises, by name;
`mv a a` is exempted, which removes the file. `TerminalSound`: no name is twice
in the table; the history holds what was typed, not what scripts execute; the
screen shows the last lines printed, in order. `ScriptsEnd` (in
`EveryCallReturns`) says that every script comes to its end; it holds because no
text of the instance goes back to a label: a script that does never ends, and
with it the ui task (section 4). Bounds: three typed commands, three files, three
nested scripts.

### Keyboard

The interrupt is one action per scan code (`Press`, `Release`, `Type`); the ui
task's reading is three (`HasChar`, `ReadChar`, `TakeChar`) and
`keyboard_set_layout` two, so an interrupt falls between any two accesses. The
run uses a ring of three, which wraps and fills. Left out: `g_ctrl` and
`g_last_key`, which nothing reads, and the E0 prefix.

### Mouse

The device sends a packet of three bytes for each movement, any byte of which
may be lost (`MaxLost` of them); the interrupt handler counts. `FollowsInStep`
says that as long as the bytes lost add up to whole packets, an undamaged packet
moves the pointer as the device was moved, scaled and kept on the screen, and
sets the buttons. (The check of the first byte drops three bytes and keeps the
count, so after one lost byte the driver is out of step until two more are
lost.)

### Clock

`rtc_read` is one action per port access: `Select` writes the index, and
`ReadRegister` reads; between them the ui task may preempt the logger, read the
clock itself and leave another index behind (`UiReads`), and the clock may begin
or end an update. An instant is a real date, of a year up to `LastYear`, the end
of what the century register is taken for. `ReadingExact`: a reading that nothing disturbed is the instant
of the clock plus the offset, in every format of the registers, against a
reference that counts days one by one; the starts are the ends of a year, of a
28 February and a time early on 1 March 2100, and the offsets go over midnight
in both directions. The day of the week is checked as the code numbers it, which
is not one numbering (`WeekdayNumbered`, section 4). A disturbed reading may be
anything, section 4 again: of the preemptions the property says only that those
between two accesses, and not within one, do no harm.

### Windows and clicks

`Windows` is one poll of the ui task: position and buttons may be any, which
includes what the four getters see when the mouse interrupt falls between them.
The poll is offered to the compositor (menus and taskbar), then to the desktop
(icons), then to the windows; each remembers the left button by itself.
`WindowsSound`: the focus and the dragged window are shown; two windows of one
application never share its pad, although slots and pads are used again; a press
acts in one layer, however long it is held; nothing is dragged once the button
is up (but for a right press in the poll of the release, section 4). Where things
lie is left out: any set of windows may overlap under the pointer.
`window_raised`: finding 6. Two windows suffice for reuse, covering and the
taskbar's order; the applications are one with pads and two single ones.

`Screen` is about places, in pixels: dragging, opening and changing the
resolution, one that fails half-way included. One window and one icon stand for
all, since neither's place depends on the others'. `ScreenSound`: title bars
and icons can be reached, and a window has its size wherever there is room.

### Settings

`cur` is what the modules hold, `file` the settings file, `kept` (history) what
the next boot may come up with. Every handler is an action with the save it does
or does not make, and power may go between and within saves, with a disk and
without one. `SettingsKept`: with a disk, a boot comes up with what was saved
last (or, when the power went during a save, with one of both or the defaults),
never a mixture; and the wallpaper's picture is that of the photo chosen.
`MaxChanges` bounds the changes between two boots to two, which is enough for
one change to be saved by another's handler.

### Players, notepads and the list of files

`Media`: a round of the ui task is a click or none, `media_tick` and the
painting, which moves the tune on (`due` is free). `SpeakerFollows`: at most one
player plays, in a window that is shown, and the speaker sounds its note or
nothing. `Documents`: notepads and the list of files hold copies of a table that
a terminal changes as well. `DocumentsKept`: saving a notepad without a key
typed, over a file nobody has changed and that was not cut, changes nothing; no
save touches another file; the list selects a name it shows. The instance has
files longer than a notepad holds, two notepads and a full table.

### Pages and the browser

`Html` takes a page as tags, numbered words and entities, put together from
fragments that open and close what they should and what they should not. An
entity does to the pending text what `html.c:461` makes of it (`Entity`): the
length goes up by two, the character is only in its place if it is the first,
else it lands behind `dec` on the stack, on a word of the pending text or on a byte
nobody reads (which one depends on the compiler's layout, so both happen), and a
`Nul`, at which the drawing of a line stops, is left. `PageSound`: the words
outside scripts are in lines, in order and all of them, but for what the limits cut
off and what an entity struck (`doc.cut`); a word a `Nul` hides has an entity
before it in the same pending text, so a flush ends the damage; words are
in header and link lines as the parser's flags had them when it read them, whatever
comes before the flush (anchors within anchors apart); items of a numbered list
count from one around lists within it, unless lists nest too deep. `past` remembers
which lists are open and whether anchors nest, `words` the flags each word was read
under; `Rows` are the lines with the pending text.
`Browser`: `BrowserSound` says that back and forward follow the
addresses opened, that the pages the program holds lead where they should and
not to the network, and that a search shows the best entries first. Its index of
pages is that of the program; `Tokens` and `Hits` are what the strings of its
table give for the searches the program links to.

### Bounds and deadlock

Each constant that bounds a model is named in its module: histories and counters
of events (`MaxFrames`, `MaxTyped`, `MaxChanges`, `Steps`, `MaxVisits`, `Gets`,
`MaxLost`, `MaxUpdates`, `NxtBound`) and the sizes of buffers, which are the
smallest at which each of them fills, wraps and is used again. `calls`, `ui`,
`cookies` and `window_raised` do not check for deadlock: a connection, a page or
a script comes to its end and the system may stop there, and bounded histories
run out. `tcp_fin` and `tcp_twice` stop after `Conns` connections.

## 3. What is proved

Every proof is for all values of the constants that satisfy the assumptions
named in the modules. Each theorem of a safety property rests on one inductive
invariant: the property, and what must be said of the rest of the state for it
to be preserved. TLC checked each of these invariants on an instance before it
was proved.

**Scheduler** (`SchedulerProofs`; `TasksAssumption`, the shape of the constants,
and `IdleAssumption`, that some task calls nothing, as `idle_task`). The
invariant is `TypeOK /\ RunningIsCurrent /\ FreshFrames /\ Placed`. `Placed` ties
a task's state to where it is in the code and says that idle is always runnable;
without it a yield that finds nobody would make a sleeping caller RUNNING again.
It gives `TypeCorrect`, `OneRunning`, `ValidFrames`; with `Rested`
(`NoEarlyReturn` extended to the window before `sched_do_yield`) it gives
`SleepNotEarly`; `StrictDispatch` follows from what `pick_next` and
`pick_higher_than` return (`PickedIsReady`, `PickedIsTop`). `ReleasesNear` adds
`Near`, a bound on the distance to the next release at each place of
`sched_wait_period`. `RealTimeBound` assumes `Prompt = Tid`, that no task meets
two ticks on its way through scheduler code; then the most urgent periodic task,
as long as it is alone at priority 0 and nobody calls `sched_set_priority`, has
at most one tick of jitter. Its invariant `OnTime` follows that task through every place
it may be in, running or not (`Here`, `Away`).

**Physical memory** (`MemoryProofs`; `SizesAssumption`, `LowMemoryAssumption`: frame
0 is reserved). The invariant is `TypeOK /\ Accounted /\ CountExact`; `RoundedOut`
shows that the rounding of `mark_used` covers every frame a region touches.
Results: `FramesTyped`, `FramesAccounted`, `FreeCounted`, and
`AllocFrameComplete`: a single allocation fails only when no frame is free.

**Users of memory** (`MemoryProofs`). Each step of `Memory` is a step of `PMM` or
leaves the frames alone, so the invariant of `PMM` holds there too
(`FramesAccountedInUse`). With `Users` (no frame has two uses), `Stages` (where
`heap_init` and `vmm_map_page` are) and `Books` (each page mapped so far and each
table has cost one frame, so the frames suffice as long as they did at the start)
it gives `FramesKept`: also that the whole heap is mapped whenever the free
frames suffice for its pages and the tables above them.

**Heap** (`HeapProofs`; sizes are naturals). The invariant is stated of any list
of blocks, because `krealloc` passes through lists that are never the heap
between two calls: `Good` says that the list is typed, that each block ends
where the next begins and the last at the end (`Chained`), and that no two
neighbours are free (`Lonely`; `LonelyBut` inside a call of `kfree`). For each
helper there is a lemma of what it makes of a good list. `HeapCorrect` is the
invariant `HeapSound`; `HeapImplements` is the refinement of `Allocator`, step by
step, with the grants read off the used blocks.

**Storage** (`DiskFSProofs`). `DiskTyped`, `SectorsApart`, `CompletedIsDurable`
and `DiskImplements` assume `MetadataSafe`: the power does not go, and no write
fails, in the directory and superblock stages. `disk_window` shows that they are
false without it; data sectors, formats, mounts and loading may fail, and power
may go there. The invariant `DInv` says what memory and disk may disagree on
while a call is under way: `MemoryClean` and `DiskClean` are no shared sectors
and no repeated names, on each side; `InStep`: where an entry differs nothing is
promised of its names; `InProgress`: which sectors of the file in hand are
written (`Written`) and which directory sectors agree already. `DiskImplements`
is the refinement of `FileStore`: every sector write is a stutter, the last one
of a call fixes the promise.

**TCP** (`NetProofs`). `TcpTyped` holds whatever the peer does. `StreamIsSound`
assumes `FinWaits`, a peer that sends its FIN only once its data is
acknowledged: `tcp_fin` shows that it is false otherwise. `Held` says that the
buffer is the stream as far as `g_tcp_rcv_nxt`, its end or the end of the
buffer, `Told` that a peer has only heard numbers this client sent, and on this
connection none beyond `g_tcp_rcv_nxt`; from the two follows that a segment with
the FIN cannot come before the data.

**Addresses, ping and names** (`NetProofs`; `HostsAssumption`: the gateway and the
name server are on the own /24, and the address "no host" is nobody's).
`AnswersAreFresh` rests on `Answering` (a reply or an address in a mailbox
came during the call in progress) and, on a calm network, on `OnlyOurs`: the
frames on the wire are those of this call, and a resolution is either done or has
a frame under way. The same invariant gives `NoNameResolves`, finding 4 for any
hosts and any sequence of calls: on a calm network no lookup returns an address.
`NetTyped` is the types.

**What a user sees and hears** (`UiProofs`).
`OneTuneSounds` (`SpeakerFollows`, for any tunes with at least one note): the
operations of a round are functions of the players, and each keeps `OnePlays`:
none plays and the speaker is silent, or one does, is the active one, and the
speaker has its note. That it is the active one is what lets `media_tick`
silence the speaker when its window is gone.
`AllIsReachable` (`ScreenSound`, for any resolutions of at least 640 x 480 and
windows of at least 160 x 120 created within them): what `clamp_drag` and
`window_reclamp` make of any window, so that a change of the resolution that
succeeds repairs what one that failed left behind.
`PressesActOnce` (`WindowsSound`, for any number of windows, applications, menu
entries and icons): `WmOK` is `FocusShown` and `PadsApart` of any list of
windows, kept by each of the operations of `window.c` and the launchers, which
the compositor, the desktop and the windows put together; `SeenTogether` says
that the three layers agree on the left button after every poll, which is what
makes a press new to all of them or to none, and the drags end.

`SettingsComeBack` (`SettingsKept`, for any photos, zones, resolutions and
changes): `FileIsKept` says that what a boot would load from the file, at any
moment of a save, is something it may come up with, and `PictureOfPhoto` that a
picture is only kept as long as the wallpaper is the photo; without it a photo
that was replaced would come back with its swatch.
`BrowserLeadsRight` (`BrowserSound`, for any addresses, words, index and sizes of
history and results): `Way` is the history as a window on the path of addresses,
which slides when the history is full; `Sound` that pages of the program link only
to what the program knows and that a search shows what was picked; and the
results are those of the highest scores, best first.
`PageIsSound` (`PageSound`, for any page and every limit): `WordsKept` says that
the words so far are in the lines and the pending text, once and in order, or cut
off or struck by an entity, `AllMarked` that the flags are those the pending words were written under,
which is why every change of a heading or an anchor puts the text out first, and
`Counted` that each counter on the stack is the number of lines marked with its
list, and that no list that is open has the number of another.

**Files, terminal and notepads** (`FileProofs`; the files at the start have
different names and fit the table). The lemmas about the table say what a search
finds and that storing, appending, moving and removing change the file named and
no other, whatever slot they use. `CommandsDoAsMeant` (`FilesAsMeant`, for any
commands and scripts) and `TerminalStaysSound` (`TerminalSound`) add that the
scripts on the stack are copies, so what a script does to its own file changes
nothing it will still do; and `Shows`, what the lines of the terminal are of
everything printed, with the empty line of the first scrolling.
`SavesAreHarmless` (`DocumentsKept`, for any notepads and names): `PadsKept` ties
an untouched notepad to the text it was opened with, and `OnTheList` the selection
to the names shown, of which many may go at once.

**Network card** (`NetProofs`). `FramesComeWhole` (`FirstLap`, for any ring and
frames of any length): the frames lie one behind the other on an endless tape, of
which `Starts` is where each begins (lemmas by least counterexample) and `Wrap` the
place in the ring. `Lap` says that card and driver agree on the tape, that less
than a ring of it is not yet taken (`RoomEnds`, from the room the card computes
modulo the ring), and that all of that is in the ring (`Places`: a new frame
touches none of it, also around the end). `Over` is that the lap has ended, after
which `Order`, what was given in it, stays. `EndSlips` is the remainder at the end
of the lap.

**HTTP client** (`NetProofs`; sizes are positive, the first call brings some of
the response and the later ones no less). `WebIsSound` (`WebSound`, for any hosts,
responses and lengths of calls, redirects, buffer and jar). `FilledIs` finds the
complete copy in the buffer, behind the part of a head that the first call may
have left in front of it. `JarInv` is that a cookie is in the jar once, through
every replacement of a slot. `DecodeInv` is the decoding in place: `Starts` of
the chunks and of their data are where the two positions may stand between two
chunks, what has been decoded is in the upper half, and the copy in the lower
half is untouched; so a position inside a chunk cannot be taken for the size of
one, and the loop stops at the size 0 in front of the next copy (`AtChunk`).
`BodyInv` carries the result to the caller. A response that ends in the upper
half is outside `BodyDecoded` (section 4).

**Keyboard** (`InputProofs`; the ring has at least two places). The invariant
is `TypeOK /\ SlotStable /\ Latched`; `Latched` says that the latch holds until a
modifier goes up or a program sets the layout, and `SlotStable` that no interrupt
writes the slot the task is reading. Results: `StableSlot`, `OneSwitch`, and
`RingIsQueue`: the ring implements `KeyQueue`, by a refinement mapping that reads
the ring from `g_tail` on; its lemmas do the modular arithmetic.

**Mouse** (`InputProofs`). `PointerFollows` (`FollowsInStep`, for any screen,
movements and bytes lost): `InStep` says that the bytes received, to come and lost
add up to whole packets, `RestOfPacket` and `StartOfPacket` where the bytes of an
undamaged packet are.

**Clock** (`InputProofs`; the offsets are whole minutes). `ReadingsAreExact`
(`ReadingExact`, for any instants, zones, formats and interrupted attempts):
`Faithful` says that the registers an undisturbed attempt has read are those the
clock still holds. The rest is arithmetic: that BCD and twelve hours are undone
(`RegisterIs`, `HourIs`), that a day which the offset takes just before or behind
its month becomes the date it stands for (`NormalizedIs`), and that
`days_from_civil` numbers the days (`CivilIs`).

**Only model-checked.** Liveness (`SleepReturns`, and `EveryCallReturns` with
`ScriptsEnd`, `FollowEnds` and the calls of the network) rests on fairness and is
out of the prover's reach. `CallsTyped` and `PartsTyped` are conjunctions made for
a run; the type invariant of each of their parts is proved in the theorem of its
module (`PressesActOnce` states `WindowsTypeOK`, and so on). All
other properties of the passing runs are proved. Induction over data has no rule
here, because the library's takes an operator as a parameter; where a proof needs
it (sums of lengths, printed lines, scripts' lines) it goes by the least
counterexample (`LeastOf`, `LeastIs`), with the recursive functions of the
modules unfolded once. What is proved is proved of these models: the abstractions
named in section 2, such as characters, registers of devices and painting, are
outside the theorems as they are outside the runs.

## 4. Findings

1. `disk_window` (`diskfs.c:241`): the directory reaches the disk before the
   superblock that says its sectors are taken. After a power cut in between the
   next boot hands out the sectors of the file just saved.
2. `tcp_fin` (`net.c:336`): a FIN is counted whatever its sequence number. One
   that overtakes data acknowledges a byte that never came, and later data is
   stored over the gap.
3. `tcp_twice` (`net.c:617`): `net_tcp_recv` starts at the beginning of the
   buffer on every call, and `http.c` calls it until its own buffer is full.
4. `net_lookup` (`net.c:500`): the lookup resolves the gateway, then sends to
   the name server, whose next hop is itself; with one cache entry the query is
   always replaced by an ARP request.
5. `cookies` (`http.c:258`): `http_get_raw` has advanced `host` to its end when
   it matches and stores cookies, so all of them are stored under the empty
   host, which matches nothing: no cookie is ever sent back.
6. `window_raised` (`window.c:128`): a press goes to the last slot under the
   pointer, while the focused window is painted on top. After a window was raised
   from the taskbar, a press on it may go to the one behind, and raise that.

Seen while reading and modelling, without a run:

* **storage**: `fs.c:89` ignores that `dfs_write` failed, so a file may be in
  memory only although `README.md:138` says it is flushed in the same call;
  `kmain.c:196` writes four default `.url` files on every boot, over what a user
  saved there; `settings_save` and the notepad's save do not look at what
  `fs_write` returns, and the notepad shows "saved" when the table is full.
* **scheduler**: `sched.c:24` restarts the rotation at the preempting task: a
  periodic task whose period is the quantum can starve one of two CPU-bound peers
  (none of `kmain`'s tasks is CPU-bound beside a peer).
* **memory**: `pmm_alloc_frames` never uses the last frame; `heap_init` ignores
  what `pmm_alloc_frame` and `vmm_map_page` return.
* **times**: waits are divided or multiplied by ten although a tick is a
  millisecond: the round trip of a ping (`net.c:210`), the "saved" mark and the
  slide show (`photos.c:295`), the notes of the player, `pause` of a script.
* **network**: `net.c:567` resolves the destination of a connect rather than its
  next hop, so hosts outside the /24 are not reached; the receive offset wraps
  at `RX_BUF_SIZE - 16` (`rtl8139.c:139`) and the card at the end of the ring, so
  the frame over the end is read past it and after the first lap frames are lost,
  garbled or given again; all DNS queries have one
  identifier and the name in a reply is skipped (`net.c:482`, `519-531`), so the
  answer to a lookup that was given up is taken by the next; `rtl8139_send` waits for the
  transmit without a bound.
* **HTTP**: five redirects are followed, `README.md:153` says six; a redirect to
  a path drops the port; the chain of redirects is cleared by the `memset` of
  every hop; the buffer is filled with copies of the response, so a body that is
  not chunked is followed by its own head and body until the buffer is full, and
  one that a call cut off by the head of the next copy (the model's `Filled`); a
  chunked response of more than half the buffer is decoded over itself.
* **HTML**: `html.c:461` hands `decode_entity` the length of the pending text, so
  that an entity other than the first character of a line is lost although
  `README.md:157` says that entities are decoded, the rest of that line cannot be
  seen, and a byte on the stack, of the pending text or next to it, is written
  over; `<pre>` is taken for a `<p>`; `pending_break` is set and never read.
* **clock**: a reading between whose port accesses the other task reads the clock
  takes a value from another register; `rtc_read` passes on the day of the week
  as the register holds it, Sunday 1 (`rtc.c:147`), unless the offset changes the
  date, when it is Sunday 0 (`rtc.c:77`), so `date` names the day after.
* **mouse**: two more bytes must be lost before one that was lost is made up for.
* **windows**: a right press in the poll in which the left button goes up
  swallows the release, and the drag goes on until the next one;
  `desktop_remove_icon` has no caller, and icons of saved files do not come back after a boot; `fb_resize` that
  fails half-way leaves windows and icons where they were on the other screen.
* **settings**: the resolution is not in the file although `README.md:380` says that
  "every change persists to disk and is reloaded on the next boot"; the photo set in Photos and the layout chord are not
  saved until something else is; clicking the photo's swatch while it is up
  leaves the old picture.
* **terminal**: `mv a a` removes the file; `touch` empties a file that exists;
  the screen scrolls one line early; a label that is indented is not found; a
  script that jumps back to a label without a way out stops the ui task for good.
* **files**: the counter behind `file0.txt` starts at 0 with every boot, so `n`
  writes over a file of an earlier session; a notepad cuts what it opens at its
  buffer and saves the rest away; of two notepads on one file the last save wins.

## 5. Not modelled

* **Interrupt tables, PIC, exceptions** (`idt.c`, `gdt.c`, most of `isr.asm`)
  and the **boot assembly**: constants that the processor reads, set once.
* **System calls and programs** (`syscall.c`, `elf.c`, `user/init.c`): nothing
  in this kernel loads a program or enters user mode; `vmm_unmap_page` has no
  caller.
* **ATA and PCI registers, the transmit descriptors, serial port**: port I/O;
  accesses of the disk are modelled as succeeding or failing.
* **Drawing, fonts, generators of pictures, painting of every application**
  (`font.c`, most of `fb.c`, `wallpaper.c`, `photos.c`, `media.c`): arithmetic on
  pixels without state.
* **Strings**: `lib/`, formatting, parsing of numbers, names and addresses,
  checksums, titles and the making of absolute links: pure
  functions of their arguments.
* **Commands of the terminal** that print without changing anything: `file`,
  `stat`, `tree`, `df`, the informational ones, and those of the network, whose
  calls are in `Net`; `sleep` blocks the ui task for at most ten seconds.

## 6. Plan

The model covers what section 5 does not list, and of the properties of the
passing runs only those that section 3 names are without a theorem. What would
be worth adding when the code changes:

1. with the order of writes of finding 1 repaired, `disk_faults` with power cuts
   in every stage, and the theorems of `DiskFSProofs` without `MetadataSafe`;
2. with a FIN that is taken in order, `StreamIsSound` without `FinWaits`;
3. with one notion of where the receive ring ends, `FirstLap` for every lap
   rather than the first;
4. programs, once the kernel loads any: system calls and `vmm_unmap_page`.
