----------------------------- MODULE InputLine ------------------------------
(* src/tui.c: the line the user edits. A long paste is not put into the line: *)
(* a placeholder stands for it, and submitting puts the content back at the   *)
(* position the paste had. The keys that change the line, the paste mode, the *)
(* recall of earlier lines and the submission are modelled; moves of the view *)
(* and the burst heuristic are not.                                           *)
EXTENDS Integers, Sequences, SequencesExt

CONSTANTS
    Capacity,    \* INPUT_BUFFER_SIZE
    Threshold,   \* PASTE_PLACEHOLDER_THRESHOLD
    MaxKeys,     \* bound: keys, the start and the end of a paste among them
    MaxHistory,  \* bound: lines in the history
    Strays       \* bound: what a line may read as that has lost its end

VARIABLES
    line,        \* buffer, up to length
    cursor,      \* cursor
    capacity,    \* capacity: grows for a long line of the history
    pasting,     \* paste_mode
    content,     \* paste_content, up to paste_content_len
    start,       \* paste_start_pos
    placeholder, \* paste_placeholder_len
    history,     \* input_history
    position,    \* input_history_pos, -1 when not in the history
    saved,       \* input_saved_before_history
    moved,       \* the placeholder has been edited, moved or replaced since the paste
    broken,      \* length went below cursor: the line has lost its end
    keys         \* the keys so far

vars == <<line, cursor, capacity, pasting, content, start, placeholder, history, position, saved,
          moved, broken, keys>>

paste == <<pasting, content, start, placeholder>>
recall == <<history, position, saved>>

-----------------------------------------------------------------------------
(* A typed word character, the two bytes of a wide one, and a pasted one.     *)
Typed == {"w", "lead", "tail"}
Pasted == "p"

(* "[%zu characters pasted]"                                                  *)
Placeholder == <<"[", "w", "]">>

Length == Len(line)

(* A line of the history file that does not fit into the buffer.              *)
LongLine == [i \in 1..Capacity |-> "w"]

Init ==
    /\ line = <<>> /\ cursor = 0 /\ capacity = Capacity
    /\ pasting = FALSE /\ content = <<>> /\ start = 0 /\ placeholder = 0
    /\ history \in {<<>>, <<LongLine>>} /\ position = -1 /\ saved = <<>>
    /\ moved = FALSE /\ broken = FALSE /\ keys = 0

Before(i) == SubSeq(line, 1, i)
After(i) == SubSeq(line, i + 1, Length)

(* The line without its characters from..upto-1 (from 0), the cursor at from: *)
(* the placeholder is disturbed unless all of them are to the right of it.    *)
Cut(from, upto) ==
    /\ line' = Before(from) \o After(upto)
    /\ cursor' = from
    /\ moved' = (moved \/ (from < upto /\ placeholder > 0 /\ from < start + placeholder))
    /\ UNCHANGED <<capacity, paste, recall, broken>>

Move(to) ==
    /\ cursor' = to
    /\ UNCHANGED <<line, capacity, paste, recall, moved, broken>>

(* input_insert_char: into the paste, or into the line if it has room. Ctrl+J *)
(* and, in a paste, Enter insert a newline the same way.                      *)
InsertChar(c) ==
    \/ /\ pasting /\ c = Pasted
       /\ content' = Append(content, c)
       /\ UNCHANGED <<line, cursor, moved, pasting, start, placeholder>>
    \/ /\ ~pasting /\ c # Pasted /\ ~broken
       /\ Length + 1 < capacity - 1
       /\ line' = Before(cursor) \o <<c>> \o After(cursor)
       /\ cursor' = cursor + 1
       /\ moved' = (moved \/ (placeholder > 0 /\ cursor < start + placeholder))
       /\ UNCHANGED paste

Insert(c) ==
    /\ InsertChar(c)
    /\ UNCHANGED <<capacity, recall, broken>>

(* input_backspace: one byte, whatever it is part of                          *)
Backspace == cursor > 0 /\ Cut(cursor - 1, cursor)

(* utf8_char_length of the byte under the cursor                              *)
CharLength == IF line[cursor + 1] = "lead" THEN 2 ELSE 1

(* input_delete_char                                                          *)
DeleteChar ==
    /\ cursor < Length /\ cursor + CharLength <= Length
    /\ Cut(cursor, cursor + CharLength)

(* input_delete_char on the first byte of a character whose second byte has   *)
(* been deleted: two are taken off the length where one is left, and it is    *)
(* less than the cursor, down to -1 (the empty line here).                    *)
DeleteSplitChar ==
    /\ cursor < Length /\ cursor + CharLength > Length
    /\ line' = Before(cursor - 1) /\ cursor' = cursor
    /\ broken' = TRUE /\ moved' = TRUE
    /\ UNCHANGED <<capacity, paste, recall>>

KillToEnd == cursor < Length /\ Cut(cursor, Length)

(* mutant: Ctrl+U that leaves the cursor                                      *)
KillAndStay ==
    /\ cursor > 0
    /\ line' = After(cursor)
    /\ moved' = (moved \/ placeholder > 0)
    /\ UNCHANGED <<cursor, capacity, paste, recall, broken>>

KillToStart == cursor > 0 /\ Cut(0, cursor)

(* is_word_boundary, move_backward_word, move_forward_word                    *)
Boundary(c) == c \in {"[", "]", "lead", "tail"}

WordStart ==
    LET word == {i \in 0..(cursor - 1) : ~Boundary(line[i + 1])}
        last == CHOOSE i \in word : \A j \in word : j <= i
        gaps == {i \in 0..(last - 1) : Boundary(line[i + 1])}
    IN  IF word = {} \/ gaps = {} THEN 0 ELSE 1 + (CHOOSE i \in gaps : \A j \in gaps : j <= i)

WordEnd ==
    LET gaps == {i \in cursor..(Length - 1) : Boundary(line[i + 1])}
        gap == CHOOSE i \in gaps : \A j \in gaps : i <= j
        word == {i \in gap..(Length - 1) : ~Boundary(line[i + 1])}
    IN  IF gaps = {} \/ word = {} THEN Length ELSE CHOOSE i \in word : \A j \in word : i <= j

DeleteWordBackward == cursor > 0 /\ Cut(WordStart, cursor)

DeleteWordForward == cursor < Length /\ Cut(cursor, WordEnd)

(* Left, Right, Ctrl+A, Ctrl+E, Home, End, Alt+b, Alt+f                       *)
MoveCursor ==
    \/ cursor > 0 /\ Move(cursor - 1)
    \/ cursor < Length /\ Move(cursor + 1)
    \/ Move(0)
    \/ Move(Length)
    \/ cursor > 0 /\ Move(WordStart)
    \/ cursor < Length /\ Move(WordEnd)

(* Ctrl+L: the line and the paste mode are cleared, what was pasted is not.   *)
ClearLine ==
    /\ line' = <<>> /\ cursor' = 0
    /\ pasting' = FALSE /\ broken' = FALSE
    /\ moved' = (moved \/ placeholder > 0)
    /\ UNCHANGED <<capacity, content, start, placeholder, recall>>

-----------------------------------------------------------------------------
(* A placeholder, or what is left of one, is in the text.                     *)
Remnant(text) == \E i \in 1..Len(text) : text[i] \in {"[", "]"}

(* ESC[200~                                                                   *)
PasteStart ==
    /\ cursor >= 0
    /\ pasting' = TRUE
    /\ start' = cursor
    /\ content' = <<>>
    /\ moved' = (moved \/ Remnant(line))
    /\ UNCHANGED <<line, cursor, capacity, placeholder, recall, broken>>

(* input_finalize_paste: text into the line, at the place of the paste        *)
PutAt(text, at) ==
    /\ line' = Before(at) \o text \o After(at)
    /\ cursor' = at + Len(text)

(* ESC[201~: a short paste goes into the line, a long one gets a placeholder, *)
(* and one without room for it is dropped.                                    *)
PasteEnd ==
    LET at == IF start > Length THEN Length ELSE start
        text == IF Len(content) < Threshold THEN content ELSE Placeholder
    IN
    /\ pasting' = FALSE
    /\ \/ /\ content # <<>> /\ Length + Len(text) < capacity - 1
          /\ PutAt(text, at)
          /\ placeholder' = IF text = Placeholder THEN Len(Placeholder) ELSE 0
          /\ moved' = (Remnant(line) \/ (text = Placeholder /\ at # start))
       \/ /\ content = <<>> \/ Length + Len(text) >= capacity - 1
          /\ moved' = (moved \/ placeholder > 0 \/ Remnant(line))
          /\ UNCHANGED <<line, cursor, placeholder>>
    /\ UNCHANGED <<capacity, content, start, recall, broken>>

-----------------------------------------------------------------------------
(* The keys that edit or move, and the end of a paste, in a line that has     *)
(* lost its end: no NUL stands there, the bytes behind it come into the line, *)
(* and the cursor may be one beyond it or, with End, at -1. From there an     *)
(* insertion writes in front of the buffer, which is not followed; nor is a   *)
(* split character of three bytes or four, whose deletion moves a negative    *)
(* number of bytes.                                                           *)
Astray ==
    /\ broken /\ cursor >= 0
    /\ line' \in Strays /\ cursor' \in -1..(Len(line') + 1) /\ moved' = TRUE
    /\ \/ UNCHANGED paste
       \/ /\ pasting' = FALSE /\ placeholder' \in {0, Len(Placeholder)}
          /\ UNCHANGED <<content, start>>
    /\ UNCHANGED <<capacity, recall, broken>>

-----------------------------------------------------------------------------
(* A recalled text replaces the line, with its end; the buffer grows for it.  *)
Show(text) ==
    /\ line' = text /\ cursor' = Len(text)
    /\ capacity' = IF Len(text) >= capacity THEN Len(text) + Capacity ELSE capacity
    /\ moved' = (moved \/ placeholder > 0 \/ Remnant(text))
    /\ broken' = FALSE
    /\ UNCHANGED <<paste, history>>

(* What the buffer is read as, up to its NUL.                                 *)
Readings == IF broken THEN Strays ELSE {line}

(* Ctrl+P                                                                     *)
Previous ==
    LET at == IF position = -1 THEN Len(history) ELSE position IN
    /\ at > 0
    /\ IF position = -1 THEN saved' \in Readings ELSE saved' = saved
    /\ position' = at - 1
    /\ Show(history[at])

(* Ctrl+N; past the last one the line as it was before                        *)
NextLine ==
    /\ position # -1
    /\ UNCHANGED saved
    /\ IF position + 1 >= Len(history)
       THEN position' = -1 /\ Show(saved)
       ELSE position' = position + 1 /\ Show(history[position + 2])

(* tui_get_input_buffer: the line with the paste in place of its placeholder. *)
(* From a start beyond the line it is read as the line, which ends first.     *)
InputText ==
    IF content = <<>> \/ placeholder = 0 \/ start > Length THEN line
    ELSE Before(start) \o content \o After(start + placeholder)

(* mutant: the paste is still there after the submission                      *)
KeepPaste ==
    /\ line' = <<>> /\ cursor' = 0 /\ pasting' = FALSE /\ start' = 0 /\ moved' = FALSE
    /\ UNCHANGED <<content, placeholder>>

(* tui_clear_input_buffer                                                     *)
ClearInput ==
    /\ line' = <<>> /\ cursor' = 0 /\ pasting' = FALSE /\ start' = 0 /\ moved' = FALSE
    /\ content' = <<>> /\ placeholder' = 0

(* Enter, outside a paste: the history takes the text unless it is the last   *)
(* one again, the callback gets it, and the line starts anew.                 *)
Submit ==
    /\ ~pasting /\ (broken \/ line # <<>>)
    /\ \E text \in IF broken THEN Strays ELSE {InputText} :
          IF history # <<>> /\ history[Len(history)] = text
          THEN UNCHANGED history
          ELSE Len(history) < MaxHistory /\ history' = Append(history, text)
    /\ position' = -1 /\ saved' = <<>>
    /\ ClearInput /\ broken' = FALSE
    /\ UNCHANGED capacity

Edit ==
    \/ Backspace \/ DeleteChar \/ DeleteSplitChar \/ KillToEnd \/ KillToStart
    \/ DeleteWordBackward \/ DeleteWordForward \/ MoveCursor \/ PasteEnd

Next ==
    /\ keys < MaxKeys /\ keys' = keys + 1
    /\ \/ \E c \in Typed \cup {Pasted} : Insert(c)
       \/ ~broken /\ Edit
       \/ Astray
       \/ ClearLine \/ PasteStart \/ Previous \/ NextLine \/ Submit

Spec == Init /\ [][Next]_vars

-----------------------------------------------------------------------------
(* The line, with its terminator, stays in its buffer. The cursor stays in    *)
(* the line until a split character is deleted, and is in it again once the   *)
(* line is cleared, recalled or submitted.                                    *)
TypeOK ==
    /\ line \in Seq(Typed \cup {Pasted, "[", "]"}) /\ Length < capacity
    /\ cursor \in -1..(Length + 1) /\ (broken \/ cursor \in 0..Length)
    /\ capacity \in Nat /\ pasting \in BOOLEAN
    /\ content \in Seq({Pasted}) /\ start \in 0..capacity
    /\ placeholder \in {0, Len(Placeholder)}
    /\ Len(history) <= MaxHistory /\ position \in -1..(Len(history) - 1)
    /\ moved \in BOOLEAN /\ broken \in BOOLEAN /\ keys \in 0..MaxKeys

(* What Enter would submit is what the line shows, the content of the paste   *)
(* where its placeholder is, as long as no key moved or cut the placeholder   *)
(* and no split character was deleted since the line was begun.               *)
SubmittedAsShown ==
    ~moved /\ ~pasting => InputText = ReplaceFirstSubSeq(content, Placeholder, line)
=============================================================================
