---------------------------- MODULE HistoryFile -----------------------------
(* src/history_file.c: the submitted lines, one per line of a text file, with *)
(* their newlines escaped. The sessions of a user append to one file; a       *)
(* session reads the last lines of it when it starts.                         *)
EXTENDS Naturals, Sequences, SequencesExt

CONSTANTS
    Texts,       \* what is submitted: sequences of "a", "\\", "n", "newline" and
                 \* "return" (F5: the low byte of its key code is a 13)
    Limit,       \* CLAUDE_C_HISTORY_MAX
    MaxAppends   \* bound: lines submitted in all

VARIABLES
    file,        \* the characters of the file
    submitted,   \* what was submitted, in order
    damaged      \* an append was cut short

vars == <<file, submitted, damaged>>

-----------------------------------------------------------------------------
EscapeChar(c) == IF c = "newline" THEN <<"\\", "n">> ELSE <<c>>

(* escape_newlines: a newline becomes backslash n; a backslash stays.         *)
Escape(text) == FlattenSeq([i \in DOMAIN text |-> EscapeChar(text[i])])

(* A backslash with an n after it: position i is the backslash of an escape.  *)
(* Two escapes cannot share a character.                                      *)
IsEscape(line, i) == i \in 1..(Len(line) - 1) /\ line[i] = "\\" /\ line[i + 1] = "n"

(* unescape_newlines                                                          *)
Unescape(line) ==
    FlattenSeq([i \in DOMAIN line |->
        IF IsEscape(line, i) THEN <<"newline">>
        ELSE IF IsEscape(line, i - 1) THEN <<>>
        ELSE <<line[i]>>])

Init ==
    /\ file = <<>>
    /\ submitted = <<>>
    /\ damaged = FALSE

(* history_file_append: an empty text is not stored.                          *)
AppendLine(text) ==
    /\ text # <<>> /\ Len(submitted) < MaxAppends
    /\ file' = file \o Escape(text) \o <<"newline">>
    /\ submitted' = Append(submitted, text)
    /\ UNCHANGED damaged

(* The disk is full or the session dies: a part of the line is written.       *)
AppendPart(text) ==
    LET whole == Escape(text) \o <<"newline">> IN
    /\ text # <<>> /\ Len(submitted) < MaxAppends
    /\ \E n \in 0..(Len(whole) - 1) : file' = file \o SubSeq(whole, 1, n)
    /\ submitted' = Append(submitted, text)
    /\ damaged' = TRUE

Next == \E text \in Texts : AppendLine(text) \/ AppendPart(text)

Spec == Init /\ [][Next]_vars

-----------------------------------------------------------------------------
(* The lines of a text; the last one may lack its newline.                    *)
Lines(text) ==
    LET read[n \in 0..Len(text)] ==
            LET before == read[n - 1] IN
            IF n = 0 THEN [ended |-> <<>>, rest |-> <<>>]
            ELSE IF text[n] = "newline"
            THEN [ended |-> Append(before.ended, before.rest), rest |-> <<>>]
            ELSE [ended |-> before.ended, rest |-> Append(before.rest, text[n])]
        all == read[Len(text)]
    IN  IF all.rest = <<>> THEN all.ended ELSE Append(all.ended, all.rest)

LastLines(lines) ==
    IF Len(lines) > Limit THEN SubSeq(lines, Len(lines) - Limit + 1, Len(lines)) ELSE lines

(* A carriage return at the end of a line is taken off.                       *)
Trimmed(text) ==
    IF text # <<>> /\ text[Len(text)] = "return" THEN SubSeq(text, 1, Len(text) - 1) ELSE text

(* history_file_load_recent: the last lines, unescaped; empty ones are left   *)
(* out after they were counted.                                               *)
LoadRecent ==
    LET recent == LastLines(Lines(file))
    IN  FlattenSeq([k \in DOMAIN recent |->
            IF Trimmed(recent[k]) = <<>> THEN <<>> ELSE <<Unescape(Trimmed(recent[k]))>>])

(* The file, what was submitted and the flag keep their types.                *)
TypeOK ==
    /\ file \in Seq({"a", "\\", "n", "newline", "return"})
    /\ submitted \in Seq(Texts) /\ Len(submitted) <= MaxAppends
    /\ damaged \in BOOLEAN

(* A text that has no backslash before an n comes back as it was.             *)
Plain(text) == \A i \in DOMAIN text : ~IsEscape(text, i)

(* A session that starts finds the lines submitted last, in order, each whole *)
(* with its newlines: texts with a typed backslash n or a carriage return at  *)
(* the end apart, and unless an append was cut short or one of them was a     *)
(* carriage return alone.                                                     *)
HistoryComesBack ==
    LET last == IF Len(submitted) > Limit THEN Len(submitted) - Limit ELSE 0
    IN  ~damaged /\ (\A k \in last + 1 .. Len(submitted) : submitted[k] # <<"return">>) =>
        /\ Len(LoadRecent) = Len(submitted) - last
        /\ \A k \in DOMAIN LoadRecent :
            LET text == submitted[last + k]
            IN  Plain(text) /\ Trimmed(text) = text => LoadRecent[k] = text
=============================================================================
