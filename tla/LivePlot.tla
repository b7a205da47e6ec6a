------------------------------ MODULE LivePlot ------------------------------
(***************************************************************************)
(* The live plot of one client: on_plot_draw, on the GUI thread, reads the *)
(* measurement buffer that the measurement thread of PagedBuffer fills at  *)
(* the same time.                                                          *)
(*                                                                         *)
(* A draw reads the entries and write_index, then write_index again, may   *)
(* scale the range of the y axis to the window and write it back into the  *)
(* entries, and then draws each checked channel: all rows of the window,   *)
(* or, with the fast routine, one line from the least to the greatest      *)
(* value per pixel column.  The worker may store and publish rows between  *)
(* any two of these.                                                       *)
(*                                                                         *)
(* Floats are whole hundredths here; ranges are whole thousandths, so that *)
(* the padding of a tenth is exact.  The time channel, which only moves    *)
(* points along the x axis, has one value.                                 *)
(***************************************************************************)
EXTENDS PagedBuffer, FiniteSetsExt

CONSTANTS
  Samples,      \* the rows that a client may send
  Windows,      \* max_history_rows: PLOT_HISTORY times the sample rate
  Widths,       \* plot_width_px, the pixel columns of the plot
  TypedRanges   \* what the user types into ymin_entry and ymax_entry

ASSUME PlotAssumption ==
  /\ Value \subseteq Int
  /\ Samples \subseteq [1..FloatNumber -> Value] /\ FloatNumber <= MaxFloats
  /\ Windows \subseteq Nat \ {0}
  /\ Widths \subseteq Nat \ {0} /\ IsFiniteSet(Widths)    \* an int
  /\ TypedRanges \subseteq [min : Int, max : Int]

VARIABLES
  chan_checkbuttons,  \* the checked channels
  autoscale,          \* autoscale_check
  fast_mode,          \* fast_draw_check
  entries,            \* the range that the texts of ymin_entry and ymax_entry say
  draw,               \* where on_plot_draw is
  start,              \* first row of the window
  count,              \* rows of the window
  y_range,            \* y_min and y_max of this draw
  plotted,            \* channel -> the vertical extents drawn, left to right
  scaled              \* history: the values scaled to since autoscale was ticked

buttons  == <<chan_checkbuttons, autoscale, fast_mode>>
drawing  == <<draw, start, count, y_range, plotted>>
plotVars == <<vars, buttons, entries, drawing, scaled>>

Sensors == 0..(FloatNumber - 2)      \* all channels but the last, the time

DefaultRange  == [min |-> -20000, max |-> 20000]       \* "-20", "20"
FallbackRange == [min |-> -2500000, max |-> 2500000]

Valid(range) == range.max > range.min

\* printf "%.1f", in thousandths.
Tenths(x) == ((x + 50) \div 100) * 100

Reading(r, ch) == get_measurement(measurement_data, r, ch)

\* The end of the window: the row behind it.
window_end == start + count

\* The values that compute_autoscale_y_range looks at.
WindowValues ==
  {Reading(r, ch) : r \in start..(window_end - 1), ch \in Sensors \cap chan_checkbuttons}

Spread == Cardinality(WindowValues) > 1

\* Mutation: without the lines of the expand-only mode.
AutoscaledToWindow(range) ==
  LET pad == Max(WindowValues) - Min(WindowValues)
  IN  [min |-> 10 * Min(WindowValues) - pad, max |-> 10 * Max(WindowValues) + pad]

\* The window with a tenth of its extent on either side, together with the
\* range so far.  A tenth of a hundredth is a thousandth.
Autoscaled(range) ==
  LET pad == Max(WindowValues) - Min(WindowValues)
  IN  [min |-> Min({10 * Min(WindowValues) - pad, range.min}),
       max |-> Max({10 * Max(WindowValues) + pad, range.max})]

\* Fast routine: the rows of a pixel column, and the line drawn for it.
samples_per_pixel(width) == Max({count \div width, 1})

\* Mutation: i1 taken for the last row of the column.
RowsBeforeLast(px, width) ==
  LET i0 == start + px * samples_per_pixel(width)
  IN  i0..(Min({i0 + samples_per_pixel(width) - 1, window_end}) - 1)

RowsOfPixel(px, width) ==
  LET i0 == start + px * samples_per_pixel(width)
  IN  i0..(Min({i0 + samples_per_pixel(width), window_end}) - 1)

Extent(ch, rows) ==
  LET values == {Reading(r, ch) : r \in rows}
  IN  [lo |-> Min(values), hi |-> Max(values)]

\* What one channel contributes to the picture.  A column without rows is
\* skipped, and a plot of one pixel or less draws nothing.
FastColumns(ch, width) ==
  IF width <= 1 THEN <<>>
  ELSE LET pixels == {px \in 0..(width - 1) : RowsOfPixel(px, width) /= {}}
       IN  [i \in 1..Cardinality(pixels) |-> Extent(ch, RowsOfPixel(i - 1, width))]

Points(ch) == [i \in 1..count |-> Extent(ch, {start + i - 1})]
-----------------------------------------------------------------------------
\* A new tab: everything ticked but the fast routine.
PlotInit ==
  /\ Init
  /\ chan_checkbuttons = Sensors
  /\ autoscale = TRUE
  /\ fast_mode = FALSE
  /\ entries = DefaultRange
  /\ draw = "idle"
  /\ start = 0
  /\ count = 0
  /\ y_range = FallbackRange
  /\ plotted = <<>>
  /\ scaled = {}

\* The worker, as in PagedBuffer, with packages of one row: what the plot
\* sees does not depend on how rows are packed.
Worker ==
  /\ \/ \E floats \in Samples : Receive(floats)
     \/ EndPackage
     \/ AllocatePage
     \/ LimitReached
     \/ StoreRow
     \/ StoreFirstPart
     \/ AllocateNextPage
     \/ StoreRemaining
     \/ Publish
  /\ UNCHANGED <<buttons, entries, drawing, scaled>>

-----------------------------------------------------------------------------
(* The user, between two draws.                                            *)

ToggleChannel(ch) ==
  /\ draw = "idle"
  /\ chan_checkbuttons' = IF ch \in chan_checkbuttons THEN chan_checkbuttons \ {ch}
                          ELSE chan_checkbuttons \cup {ch}
  /\ UNCHANGED <<vars, autoscale, fast_mode, entries, drawing, scaled>>

toggle_visible_channels ==
  /\ draw = "idle"
  /\ chan_checkbuttons' = Sensors \ chan_checkbuttons
  /\ UNCHANGED <<vars, autoscale, fast_mode, entries, drawing, scaled>>

ToggleFast ==
  /\ draw = "idle"
  /\ fast_mode' = ~fast_mode
  /\ UNCHANGED <<vars, chan_checkbuttons, autoscale, entries, drawing, scaled>>

ToggleAutoscale ==
  /\ draw = "idle"
  /\ autoscale' = ~autoscale
  /\ scaled' = {}
  /\ UNCHANGED <<vars, chan_checkbuttons, fast_mode, entries, drawing>>

\* The entries are insensitive while autoscale is ticked.
TypeRange(range) ==
  /\ draw = "idle"
  /\ ~autoscale
  /\ entries' = range
  /\ UNCHANGED <<vars, buttons, drawing, scaled>>

-----------------------------------------------------------------------------
(* on_plot_draw.                                                           *)

\* write_index is read once more for count, after rows may have been added.
DrawBegin(max_history_rows) ==
  /\ draw = "idle"
  /\ write_index > 0
  /\ y_range' = IF Valid(entries) THEN entries ELSE FallbackRange
  /\ start' = Max({write_index - max_history_rows, 0})
  /\ draw' = "start"
  /\ UNCHANGED <<vars, buttons, entries, count, plotted, scaled>>

\* Mutation: the window always has its full length.
DrawCountFull ==
  /\ draw = "start"
  /\ count' = Max(Windows)
  /\ draw' = "count"
  /\ UNCHANGED <<vars, buttons, entries, start, y_range, plotted, scaled>>

DrawCount ==
  /\ draw = "start"
  /\ count' = write_index - start
  /\ draw' = "count"
  /\ UNCHANGED <<vars, buttons, entries, start, y_range, plotted, scaled>>

\* Autoscale, 800 ms after the last one.  Whether or not the window changed
\* the range, the range is written back into the entries.
DrawAutoscale ==
  /\ draw = "count"
  /\ autoscale
  /\ y_range' = IF Spread THEN Autoscaled(y_range) ELSE y_range
  /\ scaled' = IF Spread THEN scaled \cup WindowValues ELSE scaled
  /\ entries' = [min |-> Tenths(y_range'.min), max |-> Tenths(y_range'.max)]
  /\ draw' = "scaled"
  /\ UNCHANGED <<vars, buttons, start, count, plotted>>

\* Autoscale is off or not due.
DrawUnscaled ==
  /\ draw = "count"
  /\ draw' = "scaled"
  /\ UNCHANGED <<vars, buttons, entries, start, count, y_range, plotted, scaled>>

DrawChannels(width) ==
  /\ draw = "scaled"
  /\ plotted' = [ch \in chan_checkbuttons |->
                   IF fast_mode THEN FastColumns(ch, width) ELSE Points(ch)]
  /\ draw' = "drawn"
  /\ UNCHANGED <<vars, buttons, entries, start, count, y_range, scaled>>

DrawEnd ==
  /\ draw = "drawn"
  /\ draw' = "idle"
  /\ start' = 0
  /\ count' = 0
  /\ y_range' = FallbackRange
  /\ plotted' = <<>>
  /\ UNCHANGED <<vars, buttons, entries, scaled>>

PlotNext ==
  \/ Worker
  \/ \E ch \in Sensors : ToggleChannel(ch)
  \/ toggle_visible_channels
  \/ ToggleFast
  \/ ToggleAutoscale
  \/ \E range \in TypedRanges : TypeRange(range)
  \/ \E window \in Windows : DrawBegin(window)
  \/ DrawCount
  \/ DrawAutoscale
  \/ DrawUnscaled
  \/ \E width \in Widths : DrawChannels(width)
  \/ DrawEnd

PlotSpec == PlotInit /\ [][PlotNext]_plotVars
-----------------------------------------------------------------------------
\* Every row that a draw is going to read exists: it was published, and its
\* floats are in allocated pages, however the worker's steps fall between
\* the reads of write_index and the loops over the rows.
PlotReadsPublishedRows ==
  draw \in {"count", "scaled", "drawn"} =>
    /\ count > 0
    /\ \A r \in start..(window_end - 1), ch \in Channels :
         /\ r < write_index
         /\ PageOf(r * FloatNumber + ch) < allocated_pages

\* The lines of a channel reach over every value of the window.  The fast
\* routine rounds the rows per column down, so what it leaves out are the
\* newest rows, fewer than the plot has columns.
PlotShowsExtremes ==
  draw = "drawn" =>
    \A ch \in chan_checkbuttons :
      plotted[ch] /= <<>> =>
        \A r \in start..(window_end - 1) :
          \/ fast_mode /\ r > window_end - Max(Widths)
          \/ \E i \in DOMAIN plotted[ch] :
               plotted[ch][i].lo <= Reading(r, ch) /\ Reading(r, ch) <= plotted[ch][i].hi

\* While autoscale stays ticked, no value it ever scaled to leaves the range
\* of the entries again: not when the value drops out of the window, and by
\* at most the half tenth that the text of an entry rounds away.  A range that
\* the rounding leaves empty is replaced by the fallback range, so this goes
\* for the values within that.
ScaledValuesStayInRange ==
  \A v \in scaled :
    FallbackRange.min <= 10 * v /\ 10 * v <= FallbackRange.max =>
      entries.min - 50 <= 10 * v /\ 10 * v <= entries.max + 50
=============================================================================
