# Multi-Measurement-Monitor in TLA+

The repository is a measurement system for several Wi-Fi microcontrollers: a GTK
program, the *host* (`src/src/C_GUI_Host`), and Arduino firmwares, the *clients*
(`src/clients` and `src/basic_complete_example`, with the library
`src/src/lib/tcp_client_network.cpp`). The host broadcasts its address, clients connect over
TCP and shake hands, the user starts and stops measurements per tab, the clients stream
samples, the host stores, plots, autosaves and exports them with timestamps mapped to its
own clock.

This directory holds TLA+ modules that model the host's and the clients' control, TLC
configurations that check them, and proofs for TLAPS. All paths below are relative to
`src/src/C_GUI_Host` unless they say otherwise.

Contents: [the system](#the-system) · [modules](#modules) · [runs](#runs) ·
[fairness](#fairness) · [proofs](#proofs) ·
[where code and comments disagree](#where-code-and-comments-disagree) ·
[not modelled](#not-modelled) · [plan](#plan)

## The system

Two kinds of thread work on one `ClientInfo` per tab, without any lock: the GTK main loop
(one handler, timer or idle callback at a time) and one *measurement thread* per Start.

| component | state | operations | hard behaviour | what makes it correct |
|---|---|---|---|---|
| Registration (`gui.c` `on_client_incoming`, `client.c` `assign_client_to_waiting_tab`) | connections waiting for the main loop, `client_config`, the tabs | accept, read HANDSHAKE, build the tab | blocks the GUI thread for the read; failure paths leave the config uninitialised; clients boot, and the host restarts, at any time | a tab has one live connection and the config its client sent; a client that measures is recorded; no client waits for ever |
| Discovery (`C_GUI_Host_main.c` `detect_hotspot_ip`, `compute_broadcast`; `tcp_client_network.cpp` `discoverHostUDP`, `connectToHost`) | broadcast address, the address a client discovered | guess the hotspot's adapter, broadcast, hear, connect | several adapters; the address a client keeps may be out of date | the broadcast reaches the clients' network |
| Host program, Start All / Stop All | the process, the listener | start, close, act on all tabs | clients outlive the host | as Registration |
| Client session (`gui.c` Start, Stop, Remove handlers, `measurement_thread_func`; `network.c` `disconnect_client`, `monitor_client_connection`; `client.c` `free_client_info`) | `conn`, `measurement_active`, `destroying`, `measurement_thread`, `monitor_id`, tab colour | Start, Stop, Remove, monitor tick, thread loop, disconnect | two threads disconnect; Stop and Remove join the thread in the GUI thread; Remove frees before it joins; links die silently | no hang, no recording after Stop, commands reach the client in order, the loss of a link is noticed and shown, no thread is left behind, nothing is used after it was freed |
| Measurement buffer (`gui.c` row loop, `get_measurement`) | page table, `allocated_pages`, `write_index` | store a row, allocate a page, stop at the page limit, read | lock-free readers; rows straddling pages; the limit between two rows or inside one | readers see an append-only log of exactly the rows received |
| Live plot (`gui.c` `on_plot_draw`, `compute_autoscale_y_range`) | the entries of the range, the ticked channels, the window of a draw | draw every row or one line per pixel column, autoscale, toggle | reads `write_index` twice while rows arrive; rounds the rows per column down and the range to a decimal | reads published rows only; shows the extremes; the range keeps what it was scaled to |
| Autosave and export state (`gui.c` handoff, `autosave_idle_cb`, `on_export_csv_clicked`) | `autosave_*` fields, `last_saved_pages`, the temporary file | hand pages over, append rows, export, reset | the flag is shared; the callback runs at any later time; files may fail to open or be removed | the file is a gapless prefix of the rows; the flag never stays set |
| Timestamp buffer (`gui.c` echo branch, Start) | `client_time_sync`, `allocated_client_times`, `time_write_index` | store an echo, double the buffer, start again | failed `realloc`; a second Start | entry *n* is the *n*-th echo, inside the buffer |
| Time synchronisation (`gui.c` export, `tcp_client_network.cpp` echo) | regression sums, residuals, inliers | two-pass fit, outlier filter, mapping of local times | few points, late and missing echoes, a clock sent as a 32-bit float, division by the slope | as exact as the echoes that are kept; monotone; an echo that stands out is set aside |
| Package framing (`network.c` senders and `read_tcp_package`, `tcp_client_network.cpp` `readBytes`, `readTcpPackage` and senders) | bytes of the stream, a partly read package | send in one or two pieces, read header and payload with timeouts | two threads of the host send unlocked; partial sends that nobody looks at; a timeout in the middle of a package | the reader gets the packages that were sent, each once, in order |
| Client firmware (`clients/{Sync_Client,HEX32_MMM_Integration,FSR_MMM_Integration}`, `basic_complete_example`) | send task, acquisition task, sample queue, counters | connect, wait for SETTINGS, handle commands, send blocks, restart | a full queue; failed reads whose result is ignored; STOP among other commands | samples neither lost silently nor repeated, echoes in order, ends in time and on STOP |
| Dynamic settings (`settings.c`) | `default_value`, the widget's text, the JSON sent | parse defaults, edit, load a file, send | seven datatypes, widths, locale, two copies of one value | what is shown is what is sent; what is loaded arrives |
| Widgets, ADS122C04 driver | | | drawing and hardware I/O | see [not modelled](#not-modelled) |

They interact as follows. The host broadcasts its address (discovery), clients connect and
send HANDSHAKE, from which the registration builds a tab. Start sends SETTINGS (settings →
framing → firmware), resets the measurement and timestamp buffers and starts the measurement
thread. That thread sends a TIMESTAMP every 5 s, which the firmware echoes; it files echoes
in the timestamp buffer, rows in the measurement buffer, and hands full pages to the autosave
callback of the GUI thread, which also draws the plot from the same buffer. The monitor pings
every 5 s on the same socket. Stop joins the thread, sends STOP and disconnects. The export,
possible only without a connection, fits the clock from the timestamp buffer and writes the
rows of the measurement buffer. Remove frees everything.

## Modules

Each module's comments name the functions; `PROJECT.json` maps every definition to its
lines. `MC*` modules only give values to constants. Definitions under a comment
`Mutation:` are faulty variants of the definition below them; no specification uses them.
They stand for plausible bugs and show that each property notices one.

**`RowLog`** is the abstract specification of the measurement buffer: an append-only log
of rows. **`PagedBuffer`** is the code's buffer: a table of `MaxPages` page pointers, pages
of `FloatsPerPage` floats, rows of `FloatNumber` floats. A package is a sequence of floats;
its rows are stored one by one, and each step that a lock-free reader can tell apart is an
action: `AllocatePage`, `StoreRow` or `StoreFirstPart` / `AllocateNextPage` /
`StoreRemaining`, then `Publish` (`write_index += 1`). `LimitReached` are the two places
where the code gives up at the page limit, between two rows and inside one; `StopRequested`
is the GUI. `ImplementsRowLog` is the refinement: `INSTANCE RowLog` with the log of the rows
that `get_measurement` returns below `write_index`.

**`LivePlot`** extends `PagedBuffer` by the GUI thread that draws: `DrawBegin` reads the
entries and `write_index`, `DrawCount` reads `write_index` again, `DrawAutoscale` scales the
range and writes it back into the entries (`Tenths` is the `%.1f`), `DrawChannels` is one of
the two routines; the storing thread's steps (`Worker`) fall between any two of them. Floats
are whole hundredths, ranges whole thousandths.

**`ClientSession`** is one tab: program counters for the GUI thread and for the measurement
threads, `conn`, the reference count of the connection object, the flags, the joinable
handle, the label. `disconnect_client` is the same four or five steps in either thread, so
that both may be in the middle of it. Using a finalized socket or freed memory is undefined
behaviour: the next step may be `Crash`, or a failing call. `Enter` is the thread's test of
`conn` on entry; `ReadNothing` is the 800 ms timeout; `LinkFails` is a peer that vanishes.
Timestamps may be due at any moment (the 5 s are not modelled).

**`Tab`** is the abstract specification of a tab, what its user may rely on: the client can be
heard (`open`) until STOP or the loss of the client, and not again; rows come in while it can,
to a measurement that was started. `sent` is the sequence of the commands the client gets:
SETTINGS, at most one per Start and none once it cannot be heard, and STOP, once and as the
last (pings and timestamps are no commands). `ImplementsTab` is the refinement: a client is
heard while there is a connection or a thread that still reads from one, and STOP has not gone
out (`Heard`). What is said of rows is for a tab whose Start created one thread and that was
not removed (`Intact`); what is said of packages is for all.

**`HotspotIp`** holds the pure functions of the discovery: adapters and addresses,
`detect_on_windows` with its three passes, `detect_on_linux`, `compute_broadcast`. A pass is
the first place, in the order of the nested loops, that its conditions leave (`FirstOr`).
**`Registration`** composes host and clients around them: clients that `Discover` an address,
`Connect`, wait and measure; the GUI thread that takes a connection from the `backlog`
(`Incoming`) and is blocked in `reading` until `Register`, `RegisterOther` (the first package
is no HANDSHAKE, and `client_config` is what the stack holds) or `HandshakeTimesOut`; tabs with
`Start` and `Stop` of one or of all, `RemoveClient`, `Monitor` and the thread's `StoreRow` and
`ThreadGivesUp` (it ends by itself, at the page limit or without memory, and the connection
stays open); links that fail, clients that are power-cycled, and a host that is closed and
started again, maybe on another network. A connection is named by client and boot. A tab is one
of `ClientSession`'s reduced to what connections see of it.

**`Autosave`** has the measurement thread up to its handoff (`CheckPages`, `SetPages`,
`QueueCallback`, three steps because the GUI thread reads what they write), the callback
(`AppendRows` or `SkipRows`, then `ClearPending`), `ExportPressed` … `ExportWritten` with
the file chooser's nested main loop in between, `Disconnect`, and Remove. `redraws` are the idle
functions that every DATA_PACKAGE queues before the callback; `Redraw` takes one away, and
nothing says that it happens, because the function has no result that would say so. A file is the
sequence of row numbers it holds; opening may fail (`SkipRows`), removing may fail
(`ExportWritten`).

**`TimeBuffer`** stores the number of an echo per entry: `Start`, `Echo` with doubling,
`EchoWithoutMemory` (realloc fails, and `break` leaves the receive loop), `StoreRow`,
`Disconnect`. A write beyond the buffer sets `overrun`.

**`TimeFit`** extends `TimeBuffer` by the times of the echoes and the export. A client's clock
is `Rate * t + Offset`, rounded as a float is (`Float`, with `Mantissa` in place of 2^24). An
echo belongs to a timestamp sent any member of `Gaps` after the one before it that was echoed
(the thread sends one five seconds or more after the other, depending on its reads, and
requests may stay unanswered), and is delayed by any two members of `Delays`, which may be
longer than a gap; the connection keeps what it carries in order (`SyncEcho`). `Regression`,
`Inliers` (sorted residuals, quartiles, 1.5 IQR), `SecondPass` and `GlobalNum / GlobalDen` are
the code's formulas in exact fractions (a common denominator, midpoints in half ticks), over
the entries of the buffer rather than over an ideal list of echoes. `Sum` is a loop of the code
that passes over the points set aside; `Sorted(residual, k)` is what the sorted copy holds at
*k*.

**`PackageChannel`** is the abstract specification of a connection: packages arrive whole, in
order, each once, until the promise breaks, which nobody is told. **`FrameStream`** is the
byte stream in either `direction`: the host's senders (`SendPingHeader`, `SendPingPayload`,
`SendTimestamp`, `SendSettings`, `SendStop`) or the client's (`SendHandshakeHeader`,
`SendHandshakePayload`, `SendEcho`, `SendData`), each with partial sends; a reader that takes
bytes (`TakeBytes`, `TakeHeader`, `TakePayload`; one at a time in the client, any number in
the host), its timeouts, and a failed allocation. `split`, `cut` and `torn` are history
variables that record the three events after which the stream is out of step;
`ImplementsChannel` instantiates `PackageChannel` with their absence.

**`SensorClient`** is a firmware: the send task (`Connect`, `AwaitSettings`,
`ApplySettings`, then the loop of `ReadCommand`, the handlers, `CommandsDone`, `SendData` or
`NotEnoughData`, `Finish`) and the acquisition task (`Acquire`). `firmware` selects HEX32
and FSR, which count the samples they send, Sync, which does not, or the example, which
makes up its samples in the send task (`SendGenerated`). A read may fail and leave the
package variable stale, uninitialised or without payload, because the code ignores the
result; `failed` remembers it. A request may stay unanswered without a failed read, when there is
no memory for the frame (`HandleTimestamp`). Every end is a restart (`Booted`).

**`Setting`** is one setting of any datatype: JSON node → `default_value` → text of the
widget → edited text → `default_value` → member of the package, with C's casts
(`Unsigned`, `Signed`), the saturation of `strtoull`/`strtoll`, the six decimals of `%f` and
the locale's separator.

The modules named `*Proofs` hold the theorems about the module they are named for;
`PagedBufferProofs` also those about `LivePlot`, which extends it, and `TimeSyncProofs` those
about `TimeBuffer` and `TimeFit`.

## Runs

| run | instance | asks |
|---|---|---|
| `buffer_split` | 3 floats per page, 2 channels, 3 pages, packages of up to 5 floats, 2 values | Rows straddle pages and the table ends inside a row: `TypeOK`, the refinement `ImplementsRowLog`, `StoresPackageRow`, `LimitIsTight`. |
| `live_plot` | 6 floats per page, rows of 2 channels and the time, 2 pages, window of 3 rows, 1 or 2 pixel columns, values 0, 20.01 and −30 | Draws between the steps of the storing thread, with every routine, channel selection and typed range; here the table ends between two rows. `PlotReadsPublishedRows`, `PlotShowsExtremes`, `ScaledValuesStayInRange`. |
| `session` | two measurement threads, one row, 3 SETTINGS | All interleavings of Start, Stop, Remove, monitor, threads and a dying link: `StopLabel`, `QuietAfterStop`, `NoDeadSocketOnGoodLink`, and that Stop and Remove return (`StopReturns`, `RemoveReturns`), a lost link is noticed (`LinkLossNoticed`), a tab that measures turns blue (`MeasuringTurnsBlue`), no thread is orphaned (`NoOrphanThread`); and the whole implements the user's view of it (`ImplementsTab`). |
| `autosave` | 4 floats per page, 3 channels, 8 rows, 2 echoes, 2 redraws | `FileIsPrefix`, `PendingHasCallback`, `PendingClears`. |
| `timesync` | 2 starts, up to 5 echoes, 2 or 7 ticks apart, with delays 0 and 2, until tick 34, a row, rate 50, offset 1, floats exact below 1024 | The buffer (doublings 2 → 4 → 8, failed reallocs, a second Start) and the fit over what it holds: `EntriesAreEchoes`, `OnlyLastEchoLost`, `TimeAdvances`, `KeepsHalf`, `ErrorIsBounded`, `OutlierRejected`. |
| `frames` | both directions, up to 4 frames, payloads of 2 bytes | All groupings of bytes, partial sends, timeouts: `ImplementsChannel`, and that every frame arrives (`FramesArrive`). |
| `sensor` | blocks of 2, queue of 3, 3 samples to count, 2 timestamps, 6 samples, 3 packages waiting | The three kinds of firmware: `SamplesAccounted`, `EchoesFollowRequests`, `EndsInTime`, `StopObeyed`. |
| `setting` | widths of 2, 3 and 4 bits, numbers −8..7 in files, −9..17 typed | All datatypes: `EntryIsSent`, `LoadedValueArrives`. |
| `registration` | 2 clients, with a `gui_handle` or that send something else than a HANDSHAKE, 3 boots together, 2 starts of the host on a Windows or a Linux machine with a VirtualBox adapter and the hotspot, a package on the way to each client | `TabHasOwnConfig`, `MeasuringIsRecorded`, `BroadcastReachesHotspot`; that no connection waits for ever (`BacklogServed`), and a client that looks for the host gets a tab (`ClientGetsTab`). |
| `remove_while_measuring`, `export_without_sync`, `host_duration` | as `session` (one thread), `autosave`, `sensor` (duration 0) | Violated; see [below](#where-code-and-comments-disagree). |

What each property says, in words, stands above it in its module.

**Why the bounds are enough.**
- *Buffer:* three pages with a row that straddles each border and one that ends at the table's
  end give every case of `PageOf`/`OffsetOf` arithmetic relative to a row; two values tell a
  wrong copy from a right one; the theorems cover all sizes.
- *Plot:* four rows outlive a window of three, so that values drop out of it; three rows in two
  columns leave one over; 20.01 lies just outside the default range, one typed range is lost in
  the rounding and one is empty.
- *Session:* two threads is the first number at which Start's missing guard matters, and the
  handle overwritten is the hazard; one row is what separates "rows" from "no rows", which is
  all that the handlers look at; three SETTINGS are one that Start sends again after rows came,
  and one more.
- *Autosave:* pages of 4 floats and rows of 3 make rows straddle, and 8 rows give six pages and
  several handoffs; two redraws let one stay while another goes; proved for all sizes.
- *Time synchronisation:* five echoes take the buffer past two doublings, and five is the first
  number at which the quartiles exclude anything; the two gaps and delays make midpoints uneven
  and let an echo arrive after the next timestamp was sent; the clock passes the integers that
  floats tell apart on the way. In its states the premises of `ErrorIsBounded` and
  `OutlierRejected` are met by echoes that are off, and not only by exact ones.
- *Frames:* four frames hold a split ping, the frame in between and one after it.
- *Sensor:* a queue of three against blocks of two makes it both too full and too empty; three
  samples are not a whole number of blocks.
- *Setting:* the widths differ, as in the code, and numbers and texts reach outside every one
  of them.
- *Registration:* with two clients one can hold up the other, three boots let one client be
  power-cycled while its old connection is still a tab, and two starts give a client an address
  of a host that is gone; more of each are covered by the theorems. On Linux
  the host guesses the wrong one of its two private networks, and after a restart on the other
  system the clients hear it or no longer do. Clients without a `gui_handle` are left to the
  theorems.

The bounds (`MaxFloats`, `MaxRows`, `MaxSettings`, `MaxRedraws`, `MaxEchoes`, `MaxStarts`,
`Horizon`, `MaxFrames`, `MaxTimestamps`, `MaxInbox`, `MaxSamples`, `MaxBoots`, `MaxHosts`,
`MaxWire`, the size of `Workers`, `Clients`, `Gaps` and `Delays`) appear as guards, named in
the modules.

**What the preconditions mean.** Several properties hold only under a stated condition,
and the condition is itself a result:
- `QuietAfterStop` and `StopLabel` need at most one started thread, since a second Start
  before the first row replaces the handle under the running thread. For the same reason
  `Tab` promises rows only while it is `intact`.
- `MeasuringTurnsBlue` ends with the connection: after it nothing corrects a colour any more, and
  one that the monitor computed before may be set last.
- `NoDeadSocketOnGoodLink` needs a link that stays up: when it dies, the monitor and the
  thread may both be in `disconnect_client`, and both unreference the connection.
- `EntriesAreEchoes`, `OnlyLastEchoLost` and everything about an export hold for the first
  measurement of a tab. A second Start of a tab without rows allocates two entries and keeps
  `time_write_index`; the comment "Safe to write to buffer now" (`gui.c:1903`) is then wrong.
- `ErrorIsBounded` speaks of what the echoes that the filter kept are off the client's clock by
  (`Off`: what the two ways differ by, and the rounding of the reading, 1 ms after four hours): the
  exported times are off by no more than that can move the line (`Moved`), as long as it cannot
  turn the line by half of its slope (`Turned`). For echoes spread over the measurement `Moved` is
  about twelve times as much, and the second condition is met when the measurement is some
  twenty-four times as long as that.
- `OutlierRejected` is for an echo that stands out: off by more than the noise that the others
  leave in the residuals of the first pass, after it has bent the line towards itself. In the
  middle one that is off by some seventy times as much as the others does; at an end, where its
  leverage is high, only among more than fifteen, and by more.
- `TimeAdvances` leaves out that the client read the same float for every echo that was kept, as
  it does when they are closer together than the step of its floats; the export then divides by 0.
- `PendingClears` begins when no redraw is queued any more: the callback has a lower priority than
  they, and the code does not say that they ever go.
- `EchoesFollowRequests` and `EndsInTime` say what holds until a read of the firmware fails.
- `ImplementsChannel` and `FramesArrive` promise something until a ping is split, a frame cut
  or a read torn.
- `PlotShowsExtremes` leaves out the newest rows of the fast routine, fewer than the plot has
  columns, which the division rounds away.
- `ScaledValuesStayInRange` is for values within the fallback range of ±2500.
- `TabHasOwnConfig` leaves out clients whose first package is no HANDSHAKE, and
  `MeasuringIsRecorded` clients without a `gui_handle`, which get no thread, and those whose thread
  gave up, at the page limit or without memory: they measure on, over an open connection that
  nobody reads.
- `BroadcastReachesHotspot` needs Windows' own hotspot, or only one private network.
- `ClientGetsTab` starts with a client that looks for the host while its broadcasts reach
  it; and a handshake that times out loses the connection.
- `EntryIsSent` is about entries, not combos, and leaves out `uint8_hex` and `uint64` values from
  2^63.

**Deadlock** is not checked where the system may stop: a full buffer after Stop, a removed
tab, an exported file, a closed connection, and the bounds of the instances. It is checked
for `setting`. Hanging in a join is checked as liveness (`StopReturns`, `RemoveReturns`).

## Fairness

- `ClientSession`: weak fairness of the GUI thread inside a handler and of every
  measurement thread, which the operating system schedules. Strong fairness of
  `MonitorTick`: a 5 s GLib timer fires again and again as long as the main loop returns to
  its sources. Strong fairness of `PingFails` and `TimestampFails`: into a dead link a
  ping or timestamp is due every 5 s, and the kernel does not accept bytes for ever. No
  fairness of user input, of arriving data, of the link's failure or of a crash.
- `Autosave`: weak fairness of the callback, which is enabled only while no redraw is queued: the
  main loop runs a source of low priority once no other is ready, and the file chooser runs a main
  loop too. No fairness of `Redraw`, of the threads, or of the user.
- `SensorClient`: weak fairness of the send task and of the acquisition; FreeRTOS pins them
  to a core each.
- `FrameStream`: weak fairness of taking bytes that are there: the measurement thread and the
  loop of a measuring client call their reading function again and again. None of the
  senders, and none of a timeout.
- `Registration`: weak fairness of the listener's source, of both ends of a handshake that
  is there and of the 8 s timeout; and, per client, of hearing a broadcast that is repeated
  every 5 s and of a connection attempt that is repeated every second. None of the user, of
  the arrival of a handshake, of boots, links or the host.
- The others have safety properties only, and no fairness.

## Proofs

TLAPS checks the theorems for every value of the constants allowed by the named assumptions,
which ask for no more than the code has:
- `GeometryAssumption`: sizes are positive and a row is not longer than a page. The code checks
  neither: a page is 512 KB, and a `float_number` of 0 in a config would be divided by
  (`gui.c:1799`). `AutosaveAssumption` says the same of its sizes.
- `PlotAssumption`, `SessionAssumption`, `TimeBufferAssumption`, `ClientAssumption`,
  `RegistrationAssumption`, `SettingAssumption` and `FrameAssumption` give the other constants
  their types (positive sizes, natural bounds, finite sets of threads, clients or widths,
  adapters with lists of addresses).
- `TimeFitAssumption`: the client's clock is read while `Resolution` finds its exponent, which with
  24 bits and microseconds is the first 200 days, and the least integer that is no float follows
  an even one. Of gaps and delays it says no more than that they are natural numbers.

Each argument is an inductive invariant; TLC can evaluate its parts, and they are named for
what they say.

`PagedBufferProofs`: `Invariance` (`Spec => []IInv`), and from it `TypeCorrect`,
`TableIsDense`, `RowsReadable`, `PackageRowStored`, `LimitTight` and `Refinement`
(`Spec => Log!Spec`). `IInv` is `TypeOK` with
- `PageTableDense`: the allocated pages are exactly the first `allocated_pages` entries,
  since the code increments the counter by one whatever page number it allocates;
- `RowsAllocated`: visible rows, and the row about to be published, are in allocated pages;
- `SourceInStep`: where `src` stands at each program point;
- `CopiedFloats`: the floats copied so far are where readers will look for them.

The refinement then takes a step that is not `Publish` to a stutter: it touches no float
below `write_index * FloatNumber` (lemmas on `\div` and `%` place every float of the
current row strictly after those). `Publish` maps to `Record` of the package's row.

`AutosaveProofs`: `Invariance`, `TypeCorrect`, `PrefixSaved`, `FlagMatchesQueue`,
`OnlyFullPages`. `FileIsPrefix` alone is not inductive: that the callback's rows exist
needs `HandedPagesFull`, that two callbacks do not append the same rows needs
`PendingHasCallback`, which needs that a thread about to hand over has seen no pending
flag; and a first append, mode "w", needs the row counter to be 0.

For `LivePlot`: `PlotInvariance`, `PlotReads`, `ExtremesShown`, `ScaledStaysInRange`. The
storing thread's steps are steps of `PagedBuffer`, so its `IInv` is used as it was proved;
`WindowPublished` adds that the window a draw has computed ends at or before `write_index`,
which only grows while the tab lives. `PlotShowsExtremes` then needs that a finished picture is
not touched by rows stored after it (they lie behind its window), that the columns of the fast
routine cover all of the window but its remainder modulo their number, and that a column's line
reaches from the least to the greatest of its values. `ScaledValuesStayInRange` needs that the
entries are fixed points of the `%.1f` once autoscale has written them, so that rounding a range
again does not shrink it.

`TimeSyncProofs`, for `TimeBuffer`: `Invariance`, `TypeCorrect`, `EchoesInOrder`, `LossIsLast`,
`EchoInBuffer`. The induction needs that an echo finds a thread, hence a buffer of at least
two entries (doubling 0 would not grow), and that at most the one failed `realloc` separates
`echoes` from `time_write_index`.

For `TimeFit`: `SyncInvariance`, `ExportLeavesBuffer` (`SyncSpec => Spec`: the export only reads
the buffer), `HalfIsKept`, `TimesAdvance`, `RoundTripBounds`, `ErrorBounded` and
`OutlierIsRejected`. `SyncIInv` joins the buffer's `IInv` with `StampsAreEchoes` (stamps are
echoes of timestamps sent one after the other, each read by the client at some instant before it
came back, and neither side reads one before the one in front of it) and `FitGood` (a fit is the
second pass through the inliers of the first, over the buffer as it is now: the export waits
for a tab without connection and with rows, so nothing moves behind it). `FitFacts` says what
follows of any such fit:
- The loops are sums over a set (`LoopExists`, `SumIsLoop`), and what holds of them is shown by
  induction over the loop, with the set of the rounds up to which it holds.
- `PointsRise`: a later timestamp has a strictly later midpoint, and no earlier local time,
  whatever the delays were, since the connection keeps the order.
- `SlopeIsPositive`: M·Sxy − Sx·Sy grows with every further point by a sum of products of
  differences that are not negative (`CrossIsPositive`), so it is positive as soon as two points
  differ in height. With y = x the same lemma gives the denominator, which is positive for any two
  or more points (`RegressionRises`). So no pass divides by zero, and the export does only when
  all points that were kept have the same local time.
- `RankedValue`, `PointsBetween`, `HalfAreInliers`: an order statistic exists for each rank, at
  least 3N/4 + 1 − N/4 ≥ N/2 points lie between the two quartiles, and they are all inliers. So the
  second pass has two points or more from three echoes on; were it left with one, the code
  keeps the first line (`ExportedLine` covers both).

How far a regression goes wrong when its points are only near a line is the second half:
- `Off(i)` is twice the distance of the *i*-th point from the line of the client's clock: the
  rounding of the reading, and Rate times what the two ways differ by, which is no more than the
  round trip (`RoundTripBounds`). The host knows the round trips, and so what E may be.
- `NearSums`, `NearAlgebra`, `NearBounds`: the line found is the line of the clock, turned and
  moved by sums that are linear in the distances, and each distance carries a weight of at most
  the number of points times the square of their width. These are `Turned` and `Moved`.
- `ErrorNearClock`: while the line is not turned by more than half of its slope, dividing by the
  slope at most doubles what it moved, and what the row's own reading was rounded by
  (`NearInliersSynchronise`, `ErrorBounded`).
- `OutlierResiduals`, `ResidualsApart`: when one point lies e / 2 off and the others at most
  E / 2, all residuals but one are spread by e times the leverage of that point over the width,
  and what E adds (`Noise`); the residual of that one is e away. If the latter outweighs five
  halves of the former (`Dominant`) it is outside the fences, wherever the quartiles fall among
  the others (`OutlierIsOutside`, `OutlierIsRejected`).

The factors are what these estimates give, not the least possible: each weight is bounded by the
width of all points.

`SettingProofs`: `Invariance`, `TypeCorrect`, `ShownIsSent`, `LoadedIsSet`. `TextIsValue` says
that the text of an entry and the value behind it agree while the text spells a value of the
datatype; the rest is arithmetic of the casts by cases over the datatypes, for every width,
with the lemmas about powers of two that saturation and sign need. `LoadedIsSet` assumes a
locale that writes floats with a point, which the host sets (`setlocale(LC_NUMERIC, "C")`,
`C_GUI_Host_main.c:565`): with a comma the code cuts the decimals off, as listed below.

`ClientSessionProofs`: `Invariance`, `TypeCorrect`, `LabelAfterStop`, `SocketAlive`,
`RowsAreFinal`, `TabRefinement` (`Spec => ImplementsTab`). While at most one thread was
started, `HandleOfThread` says that the handle is that thread's, `JoinedBeforeStop` that Stop
is past its join only when the thread is done, `AfterStop` what the label may then show, and
`LostWhileStopping` that a thread which lost the link during Stop sets the colour before Stop
goes on. `SocketInUse` says that while the link is good only the GUI disconnects, and that the
one reference to the connection is still held by whoever uses it. `QuietAfterStop` then follows
step by step: the only action that adds rows needs a live thread. The refinement holds for any
number of threads, and needs two more facts: `StopIsLast`, that the connection on which STOP
went out is being given up, and `RowsOfThreads`, that rows come from started threads. Start,
Stop, Remove and a stored row are the tab's actions; of every other step of a thread or of the
monitor `TabStep` shows that the user sees nothing of it, or the loss of the client.

`SensorClientProofs`: `Invariance`, `TypeCorrect`, `SamplesAreAccounted`, `EchoesInOrder`,
`EndsWithSamples`. The samples sent and those in the queue form one sequence, over which
`Accounted` is inductive: it increases, and what it leaves out of the samples taken is what was
lost. `InOrder` says of timestamps that each one waiting is `Later` than those echoed and the
one being handled (`Handling`), so that one left out disturbs none. That a counting client ends
with its samples needs `Counted`, which bounds what was sent at every program point, and that
it ends for no other reason needs `StopsAreSent` and, against the crash on an echo without
payload, `InOrder`.

`RegistrationProofs`: `Invariance`, `TypeCorrect`, `OwnTab`, `MeasuringHasThread`. The names of
connections are never reused (`ConnectionsMade`), and one is in one place only, the backlog,
the handler, or one tab (`InOnePlace`), with the config of its client (`OwnConfig`). That a
measuring client is recorded runs over the packages on their way: nothing is sent to a client
before its tab exists (`SilentBefore`), a tab with rows has had a thread (`RowsHaveThread`),
and a SETTINGS under way or obeyed over an open connection was sent by a Start that created one
(`StartedIsRecorded`); it reads, or gave up. `AnnouncesToHotspot` rests on no such invariant
but on `detect_hotspot_ip`: a pass that finds a place returns an address its conditions allow
(`PassOver`, `SearchFinds`), and of one private network any address will do.

`FrameStreamProofs`: `Invariance`, `TypeCorrect`, `Refinement` (`Spec => ImplementsChannel`).
`InStep` says that, while the stream is intact, the header already read, the bytes already
taken and those on the wire are the bytes of the frames that were begun and not yet
delivered. It is stated with a witness, the function from a frame to the position at which
it ends, rather than with a fold over the frames, because a fold could only be unfolded by
induction. A step then begins a frame (`BeginStep`), continues the last one
(`ContinueStep`), delivers the first (`DeliverStep`) or leaves the stream as it is
(`SameStream`); for the refinement, the first and third are the channel's send and receive.

Only model-checked is liveness (`StopReturns`, `RemoveReturns`, `LinkLossNoticed`, `NoOrphanThread`,
`MeasuringTurnsBlue`, `PendingClears`, `StopObeyed`, `FramesArrive`, `BacklogServed`, `ClientGetsTab`), which is
out of this prover's reach together with ENABLED.

No module declares a RECURSIVE operator.

## Where code and comments disagree

Three disagreements are runs that TLC finds violated:
1. `remove_while_measuring` / `RemoveIsClean`: `free_client_info` frees settings, pages and
   timestamps before it joins the thread that uses them (`client.c:48-88`), while
   `client.h:63` says "cleanly frees ClientInfo".
2. `export_without_sync` / `ExportHoldsRows`: with fewer than two echoes the export writes
   no rows (`gui.c:884`) and then removes the autosave file that holds them.
3. `host_duration` / `SettingsStartMeasurement`: nothing sets `duration_seconds` any more, so
   SETTINGS carries 0 and the counting firmwares restart without a sample.

Others were met while modelling. They are what the models do, and shape the preconditions
above, but have no run of their own.

*The tab's colour*
- `update_client_visual_state` computes a colour and sets it later, on either thread
  (`network.c:322-370`). The monitor computes blue, the measurement thread's timestamp fails, it
  disconnects and sets red or orange, and the monitor sets its blue last: the tab of a client
  that is gone stays blue, against `README.md:90-92`. `ClientSession` takes these steps; the two
  properties about colours say what holds nevertheless.

*Settings and packages*
- A `uint8_hex` setting has no branch in `parse_json_for_microcontroller`
  (`settings.c:813-842`) and is never sent; a `uint64` is sent as a signed integer.
- A comma is accepted in a float entry and ends the number when it is parsed.
- Loading a value that a combo does not offer changes what is sent and not what is shown.

*Registration*
- After a handshake timeout the log says that the connection is kept (`gui.c:648-651`), and
  the handler returns, which drops it.
- `client_config` (`gui.c:654`) stays uninitialised when the first package is not a
  HANDSHAKE.
- A config without `gui_handle` gets no measurement thread, yet `measurement_active` is TRUE
  and SETTINGS was sent (`gui.c:543-548`): the client measures and nobody reads.
- `connectToHost` (`tcp_client_network.cpp:256-269`) retries the address it was given for
  ever: a client that heard a host which then moved is lost until it is power-cycled.
- The handler that closes the window leaves the monitors' timers and the measurement threads
  as they are; it works because the process ends.

*Measuring*
- A thread without memory for a timestamp or an echo (`gui.c:1724`, `1895`), or at the page limit,
  ends without closing the connection or telling the client, which measures on.
- The host's times are `CLOCK_REALTIME`: setting the host's clock during a measurement bends the
  line of the export.
- The example firmware sends header and payload of a DATA_PACKAGE in two writes.
- Start does not test whether a measurement runs, and keeps `time_write_index`.
- At the page limit `on_stop_btn_clicked` is queued as an idle function, which calls it
  without its second argument (`gui.c:1815`).
- A client that waits for SETTINGS ignores STOP, and no loop of a firmware looks whether the
  connection is still open, so a client whose link died waits until it is power-cycled.
- `readAllChannels` of the ADS122C04 driver selects its channels through the input
  multiplexer and leaves it at the last one, whatever the settings chose.

*Plot*
- `PLOT_HISTORY` is commented "last N seconds displayed" (`gui.h:15`); the window is a number
  of rows computed from the rate the client gave, and the fast routine leaves out its newest
  rows when their number is no multiple of the columns.
- "Autoscaling … scales live monitor to bigger values" (`README.md:112`), but a constant
  signal, however large, is never scaled to, and a range that rounding to a decimal makes
  empty falls back to ±2500.
- `gtk_widget_queue_draw` returns nothing and is queued as an idle function
  (`gui.c:1863`), whose result decides whether it is called again.

## Not modelled

- *Real time*: 800 ms, 2 s, 5 s and 8 s are nondeterministic; a timer is a step that may come
  at any moment, and liveness says only "eventually".
- *Rounding of the host's doubles* and the R² figures, which are only printed. The client's
  clock is rounded in `TimeFit`.
- *Which settings exist*, `float_number`, `channel_names`: parsed once, and constants of the
  models. The contents of exported files other than which rows they hold.
- *Firmware*: the ADC configuration of FSR, the tare of HEX32, the captive portal.
- *Two recording threads at the autosave*: after a second Start before the first row, two threads
  test and set `autosave_pending` (`gui.c:1934`); `Autosave` has one.
- *A host clock that is set*: `TimeFit` takes the host's clock as the global time.
- *Discovery*: failing system calls, which end the program or fall back to 255.255.255.255.
- *Two tabs in detail*: `Registration` has several tabs, reduced to their connections, and
  `ClientSession` one tab in detail; tabs share only the GUI thread, in which a handler
  of one delays those of the others.
- *Undefined behaviour without a model*: the missing second argument of
  `on_stop_btn_clicked` (`gui.c:1815`), a `uint8_hex` default stored through a pointer to a
  wider type (`settings.c:310`), and an autosave callback that runs after its `ClientInfo`
  was freed (`gui.c:1938`; `Autosave` ends with Remove). What they do depends on the build.
- *Plot, widgets, main window, crash handler, ADS122C04 driver*: the axes, colours and layout,
  operating-system and hardware I/O without protocol state.

## Plan

Done, in this order: buffer with its refinement and proofs; session with proofs; autosave with
proofs; timestamp buffer with proofs; fit; framing in both directions with `PackageChannel` and
the proof of the refinement; firmware, the example included, with proofs; settings with proofs;
live plot with proofs; discovery and registration with proofs; proofs of the fit; `Tab` with
the proof that the session implements it; proofs of the fit's error.

Left:
1. `Registration` over `Tab`: its tabs are reduced to what connections see of them by hand.
2. Smaller factors in the bounds on the error of the fit: the estimates bound each weight by the
   width of all points.
3. The time of the host as a counter, to say that Stop returns within one 800 ms read.
