-------------------------- MODULE ConversationView --------------------------
(* The conversation as the terminal shows it: the entries (tui.c), the pad    *)
(* they are written to, the part of it on the screen, and the layout of the   *)
(* windows (window_manager.c). The main thread runs every handler to its end. *)
(* An entry is the sequence of the lengths of its lines; a row of the pad is  *)
(* the part of an entry's line that fits in the width.                        *)
EXTENDS Integers, Sequences, FiniteSetsExt, SequencesExt

CONSTANTS
    Texts,            \* bound: the entries that may be added
    ClearedText,      \* "Conversation history cleared"
    MaxEntries,       \* bound
    Screens,          \* bound: heights and widths the terminal may have
    InitialCapacity,  \* rows of the first pad, at least 2
    Slack,            \* rows kept free when the pad grows (100)
    MinConv, MinInput, StatusRows, Padding, MaxInputPercent  \* the layout's constants

VARIABLES
    height, width,    \* the screen's, as the window manager knows them
    input, maxInput, status, viewport,   \* heights of the windows
    entries,          \* tui->entries
    rows,             \* the pad, up to its cursor
    padWidth, capacity,   \* the pad's dimensions
    content,          \* conv_pad_content_lines
    scroll,           \* conv_scroll_offset
    mode, lastKey,    \* vim-like modes; a g waits for another
    lost,             \* history: rows were lost or misplaced in the pad
    stale             \* history: the pad could not be made anew for the screen

layout == <<height, width, input, maxInput, status, viewport>>
pad == <<rows, padWidth, capacity, content>>
vars == <<layout, entries, pad, scroll, mode, lastKey, lost, stale>>

Least(a, b) == IF a < b THEN a ELSE b
Most(a, b) == IF a > b THEN a ELSE b

-----------------------------------------------------------------------------
(* calculate_layout: what the input window leaves is the conversation's, less *)
(* a line of status where there is room for it.                               *)
InputFitted(h, wanted) ==
    IF wanted < h THEN wanted ELSE IF h > 1 THEN h - 1 ELSE h

Layout(h, wanted) ==
    LET fitted == InputFitted(h, wanted)
        available == Most(0, h - fitted - Padding)
        bar == IF available < MinConv + StatusRows THEN 0 ELSE StatusRows
    IN  /\ height' = h /\ input' = fitted /\ status' = bar
        /\ viewport' = IF available - bar >= 1 THEN available - bar
                       ELSE Least(1, available)

MaxInput(h) == Most((h * MaxInputPercent) \div 100, MinInput)

MaxScroll(lines, view) == Most(0, lines - view)

(* window_manager_refresh_conversation moves an offset that is out of range,  *)
(* if there is anything to show.                                              *)
Refreshed(offset, lines, view) ==
    IF view > 0 THEN Least(offset, MaxScroll(lines, view)) ELSE offset

-----------------------------------------------------------------------------
(* Writing to the pad. A line that fills its last row leaves an empty one.    *)
RowsOf(text, w) ==
    FlattenSeq([j \in DOMAIN text |->
        [p \in 1 .. (text[j] \div w) + 1 |-> <<text, j, p>>]])

(* The pad scrolls when the cursor would leave it.                            *)
Fit(all, cap) ==
    IF Len(all) < cap THEN all ELSE SubSeq(all, Len(all) - cap + 2, Len(all))

(* window_manager_ensure_pad_capacity: twice as often as needed.              *)
Doubled(cap, needed) ==
    LET twice[k \in 0 .. needed] == IF k = 0 THEN cap ELSE 2 * twice[k - 1]
    IN  Min({c \in {twice[k] : k \in 0 .. needed} : c >= needed})

Size(text) ==
    LET sum[j \in 0 .. Len(text)] == IF j = 0 THEN 0 ELSE sum[j - 1] + text[j]
    IN  sum[Len(text)] + Len(text) - 1

Estimate(text) == IF Size(text) = 0 THEN 1 ELSE (Size(text) \div padWidth) + 2

(* tui_add_conversation_line, from the entries and rows there are. A pad that *)
(* cannot grow is written to all the same.                                    *)
AddTo(before, there, text) ==
    LET needed == Len(there) + Estimate(text) + Slack
    IN  \E grows \in IF needed > capacity THEN BOOLEAN ELSE {FALSE} :
            LET w == IF grows THEN width ELSE padWidth
                cap == IF grows THEN Doubled(capacity, needed) ELSE capacity
                all == there \o RowsOf(text, w)
            IN  /\ entries' = Append(before, text)
                /\ rows' = Fit(all, cap) /\ content' = Len(rows')
                /\ capacity' = cap /\ padWidth' = w
                /\ lost' = (lost \/ Len(all) >= cap)
                /\ scroll' = IF mode = "insert" THEN MaxScroll(content', viewport)
                             ELSE Refreshed(scroll, content', viewport)

AddLine ==
    /\ Len(entries) < MaxEntries
    /\ \E text \in Texts : AddTo(entries, rows, text)
    /\ UNCHANGED <<layout, mode, lastKey, stale>>

(* tui_clear_conversation: everything goes, and one line says so, unless it   *)
(* cannot be allocated.                                                       *)
Clear ==
    /\ \/ AddTo(<<>>, <<>>, ClearedText)
       \/ /\ entries' = <<>> /\ rows' = <<>> /\ content' = 0
          /\ scroll' = Refreshed(scroll, 0, viewport)
          /\ UNCHANGED <<capacity, padWidth, lost>>
    /\ UNCHANGED <<layout, mode, lastKey, stale>>

-----------------------------------------------------------------------------
(* tui_handle_resize writes the entries again to a pad of the new width. When *)
(* the pad is full before the next entry it grows, and takes over as many     *)
(* rows as the old contents had, not as many as were written.                 *)
TakenOver(done, cap) ==
    [i \in 1 .. Least(content, cap) |-> IF i <= Len(done) THEN done[i] ELSE <<>>]

(* An entry behind the rows there are; then one step of the loop.             *)
Put(at, text, w, done, cap, bad) ==
    LET all == done \o RowsOf(text, w)
    IN  [at EXCEPT !.rows = Fit(all, cap), !.cap = cap, !.lost = bad \/ Len(all) >= cap]

Rewrite(at, text, w, grows) ==
    IF at.stopped THEN at
    ELSE IF Len(at.rows) < at.cap - 1 THEN Put(at, text, w, at.rows, at.cap, at.lost)
    ELSE IF ~grows THEN [at EXCEPT !.stopped = TRUE, !.lost = TRUE]
    ELSE Put(at, text, w, TakenOver(at.rows, at.cap), 2 * at.cap,
             at.lost \/ TakenOver(at.rows, at.cap) # at.rows)

(* The pad after the loop over the entries.                                   *)
Rebuilt(w, cap, grows) ==
    LET after[i \in 0 .. Len(entries)] ==
            IF i = 0 THEN [rows |-> <<>>, cap |-> cap, lost |-> FALSE, stopped |-> FALSE]
            ELSE Rewrite(after[i - 1], entries[i], w, grows)
    IN  after[Len(entries)]

Resize ==
    \E s \in Screens : \E grows \in BOOLEAN :
        LET needed == 2 * Len(entries) + Slack
            cap == IF needed > capacity THEN Doubled(capacity, needed) ELSE capacity
            new == Rebuilt(s.width, cap, grows)
        IN  /\ needed > capacity => grows
            /\ Layout(s.height, input) /\ width' = s.width /\ maxInput' = MaxInput(s.height)
            /\ rows' = new.rows /\ content' = Len(new.rows)
            /\ capacity' = new.cap /\ padWidth' = s.width
            /\ lost' = new.lost /\ stale' = FALSE
            /\ scroll' = Least(scroll, MaxScroll(content', viewport'))
            /\ UNCHANGED <<entries, mode, lastKey>>

(* No new pad: the old one stays, in a layout for the new screen.             *)
ResizeFails ==
    \E s \in Screens :
        /\ Layout(s.height, input) /\ width' = s.width /\ maxInput' = MaxInput(s.height)
        /\ scroll' = 0 /\ stale' = TRUE
        /\ UNCHANGED <<entries, pad, mode, lastKey, lost>>

(* A new pad, but not one large enough to write the entries again: it holds   *)
(* the old rows, as far as they fit in its width.                             *)
RebuildFails ==
    \E s \in Screens :
        /\ 2 * Len(entries) + Slack > capacity
        /\ Layout(s.height, input) /\ width' = s.width /\ maxInput' = MaxInput(s.height)
        /\ padWidth' = s.width /\ scroll' = 0 /\ stale' = TRUE
        /\ UNCHANGED <<entries, rows, capacity, content, mode, lastKey, lost>>

(* input_redraw asks for as many lines as the text needs, within the bounds.  *)
ResizeInput ==
    \E wanted \in MinInput .. maxInput :
        /\ mode # "normal" /\ wanted # input
        /\ Layout(height, wanted)
        /\ scroll' = Least(scroll, MaxScroll(content, viewport'))
        /\ UNCHANGED <<width, maxInput, entries, pad, mode, lastKey, lost, stale>>

-----------------------------------------------------------------------------
(* The keys of normal mode (handle_normal_mode_input).                        *)
Quiet == UNCHANGED <<layout, entries, pad, lost, stale>>

View == IF viewport > 0 THEN viewport ELSE capacity
Jumps == LET half == Most(1, View \div 2)  full == Most(1, View - 2)
         IN  {1, -1, half, -half, full, -full}

(* Insert mode has the arrows and the page keys for it.                       *)
Scroll ==
    /\ \/ mode = "normal" /\ lastKey' = "none"
       \/ mode = "insert" /\ lastKey' = lastKey
    /\ \E jump \in IF mode = "insert" THEN {1, -1, 10, -10} ELSE Jumps :
          scroll' = Least(Most(0, scroll + jump), MaxScroll(content, viewport))
    /\ Quiet /\ UNCHANGED mode

PressG ==
    /\ mode = "normal"
    /\ \/ lastKey = "g" /\ lastKey' = "none" /\ scroll' = 0
       \/ lastKey = "none" /\ lastKey' = "g" /\ scroll' = scroll
    /\ Quiet /\ UNCHANGED mode

GoToBottom ==
    /\ mode = "normal" /\ lastKey' = "none" /\ scroll' = MaxScroll(content, viewport)
    /\ Quiet /\ UNCHANGED mode

(* i, a, o: insert mode; a colon: command mode; Escape: back to normal mode,  *)
(* as Enter and Backspace leave command mode.                                 *)
Enter(from, to) ==
    /\ mode = from /\ mode' = to
    /\ lastKey' = IF from = "normal" THEN "none" ELSE lastKey
    /\ Quiet /\ UNCHANGED scroll

SwitchMode ==
    \/ Enter("normal", "insert") \/ Enter("normal", "command")
    \/ Enter("insert", "normal") \/ Enter("command", "normal")

(* A command it does not know is answered by a line.                          *)
UnknownCommand ==
    /\ mode = "command" /\ Len(entries) < MaxEntries
    /\ \E text \in Texts : AddTo(entries, rows, text)
    /\ mode' = "normal" /\ UNCHANGED <<layout, lastKey, stale>>

Init ==
    \E s \in Screens :
        /\ height = s.height /\ width = s.width /\ maxInput = MaxInput(s.height)
        /\ input = InputFitted(s.height, MinInput)
        /\ LET available == Most(0, s.height - input - Padding)
           IN  /\ status = IF available < MinConv + StatusRows THEN 0 ELSE StatusRows
               /\ viewport = IF available - status >= 1 THEN available - status
                             ELSE Least(1, available)
        /\ entries = <<>> /\ rows = <<>> /\ content = 0 /\ scroll = 0
        /\ padWidth = s.width /\ capacity = InitialCapacity
        /\ mode = "insert" /\ lastKey = "none"
        /\ lost = FALSE /\ stale = FALSE

Next ==
    \/ AddLine \/ Clear \/ Resize \/ ResizeFails \/ RebuildFails \/ ResizeInput
    \/ Scroll \/ PressG \/ GoToBottom \/ SwitchMode \/ UnknownCommand

Spec == Init /\ [][Next]_vars

-----------------------------------------------------------------------------
TypeOK ==
    /\ <<height, width, input, maxInput, status, viewport>> \in Nat \X Nat \X Nat \X Nat \X Nat \X Nat
    /\ Len(entries) <= MaxEntries /\ content = Len(rows) /\ capacity \in Nat /\ scroll \in Nat
    /\ mode \in {"insert", "normal", "command"} /\ lastKey \in {"none", "g"}
    /\ {lost, stale} \subseteq BOOLEAN

(* The windows share the screen without overlap, on every screen.             *)
FitsScreen == viewport + status + input <= height

(* The offset never points past the contents: no screen of stale or empty     *)
(* rows while there are lines to show.                                        *)
ScrollInRange == viewport > 0 => scroll <= MaxScroll(content, viewport)

(* The pad holds the rows of all entries, in order and wrapped for its width, *)
(* as long as no entry was longer than the room estimated for it and no       *)
(* rebuild had to enlarge the pad on the way.                                 *)
PadShowsEntries ==
    ~lost /\ ~stale =>
        /\ rows = FlattenSeq([i \in DOMAIN entries |-> RowsOf(entries[i], padWidth)])
        /\ padWidth = width
=============================================================================
