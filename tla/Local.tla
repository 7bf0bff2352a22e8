------------------------------- MODULE Local -------------------------------
(* What a session keeps on disk and what its user edits and sees: the         *)
(* database of API calls, the log and its backups, the history file, the      *)
(* input line, the conversation on the screen. They share no state, so each   *)
(* behaviour is about one subject, and the others stay in their initial       *)
(* states. Persistence is extended; the other modules are instances.          *)
EXTENDS Persistence, Sequences

CONSTANTS
    MaxBackups, MaxFiles,                                     \* LogRotation
    Texts, Limit, MaxAppends,                                 \* HistoryFile
    Capacity, Threshold, MaxKeys, MaxHistory, Strays,         \* InputLine
    ViewTexts, ClearedText, MaxEntries, Screens,              \* ConversationView
    InitialCapacity, Slack, MinConv, MinInput, StatusRows, Padding, MaxInputPercent

VARIABLES
    subject,
    \* LogRotation
    slot, created, full, handle, logPc, next, overlapped, cutShort,
    \* HistoryFile
    file, submitted, damaged,
    \* InputLine
    line, cursor, capacity, pasting, content, start, placeholder, history, position, saved,
    moved, broken, keys,
    \* ConversationView
    height, width, input, maxInput, status, viewport, entries, rows, padWidth, padCapacity,
    shown, scroll, mode, lastKey, lost, stale

Log == INSTANCE LogRotation WITH pc <- logPc

Hist == INSTANCE HistoryFile

Input == INSTANCE InputLine

View == INSTANCE ConversationView WITH
    Texts <- ViewTexts, capacity <- padCapacity, content <- shown

dbVars == vars
logVars == <<slot, created, full, handle, logPc, next, overlapped, cutShort>>
histVars == <<file, submitted, damaged>>
inputVars == <<line, cursor, capacity, pasting, content, start, placeholder, history, position,
               saved, moved, broken, keys>>
viewVars == <<height, width, input, maxInput, status, viewport, entries, rows, padWidth,
              padCapacity, shown, scroll, mode, lastKey, lost, stale>>
localVars == <<subject, dbVars, logVars, histVars, inputVars, viewVars>>

LocalInit ==
    /\ subject \in {"db", "log", "history", "input", "view"}
    /\ Init /\ Log!Init /\ Hist!Init /\ Input!Init /\ View!Init
    /\ subject # "db" => ~exists
    /\ subject # "input" => history = <<>>
    /\ subject # "view" => [height |-> height, width |-> width] = CHOOSE s \in Screens : TRUE

LocalNext ==
    \/ /\ subject = "db" /\ Next
       /\ UNCHANGED <<subject, logVars, histVars, inputVars, viewVars>>
    \/ /\ subject = "log" /\ Log!Next
       /\ UNCHANGED <<subject, dbVars, histVars, inputVars, viewVars>>
    \/ /\ subject = "history" /\ Hist!Next
       /\ UNCHANGED <<subject, dbVars, logVars, inputVars, viewVars>>
    \/ /\ subject = "input" /\ Input!Next
       /\ UNCHANGED <<subject, dbVars, logVars, histVars, viewVars>>
    \/ /\ subject = "view" /\ View!Next
       /\ UNCHANGED <<subject, dbVars, logVars, histVars, inputVars>>

LocalSpec == LocalInit /\ [][LocalNext]_localVars

-----------------------------------------------------------------------------
(* The variables of each module keep their types.                             *)
TypesOK ==
    /\ subject = "db" => TypeOK
    /\ subject = "log" => Log!TypeOK
    /\ subject = "history" => Hist!TypeOK
    /\ subject = "input" => Input!TypeOK
    /\ subject = "view" => View!TypeOK

(* Only the oldest log files are lost in a rotation.                          *)
OldestLogsLost == subject = "log" => Log!OldestLogsLost

(* The screen shows the conversation: the windows share it, the offset points *)
(* to a row there is, and the pad holds the rows of all entries in order.     *)
ScreenShows ==
    subject = "view" => View!FitsScreen /\ View!ScrollInRange /\ View!PadShowsEntries

(* Text comes through: what the user typed to the submission with its paste,  *)
(* and to the next session with its newlines; what he is told to the screen.  *)
TextComesThrough ==
    /\ subject = "input" => Input!SubmittedAsShown
    /\ subject = "history" => Hist!HistoryComesBack
    /\ ScreenShows
=============================================================================
