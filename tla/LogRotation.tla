---------------------------- MODULE LogRotation -----------------------------
(* src/logger.c: the log file and its numbered backups. The mutex of the      *)
(* logger orders the threads of one session only; the sessions of a project   *)
(* share the files, each rotates them by a series of renames, and each may    *)
(* die between two of them.                                                   *)
EXTENDS Integers

CONSTANTS
    Sessions,    \* the processes that log to the path
    MaxBackups,  \* g_max_backups
    MaxFiles     \* bound: log files created

VARIABLES
    slot,        \* slot[i] is the file under <path>.<i>, slot[0] under the path; 0 for none
    created,     \* the files created so far, numbered in that order
    full,        \* the files that reached g_max_size_bytes
    handle,      \* g_log_file of each session, 0 for NULL
    pc,          \* where each session is
    next,        \* which of its renames of backups a rotation does next
    overlapped,  \* two rotations have run at once
    cutShort     \* a session has died in a rotation

vars == <<slot, created, full, handle, pc, next, overlapped, cutShort>>

-----------------------------------------------------------------------------
Init ==
    /\ slot = [i \in 0..MaxBackups |-> 0]
    /\ created = 0
    /\ full = {}
    /\ handle = [p \in Sessions |-> 0]
    /\ pc = [p \in Sessions |-> "down"]
    /\ next = [p \in Sessions |-> 0]
    /\ overlapped = FALSE
    /\ cutShort = FALSE

Goto(p, label) == pc' = [pc EXCEPT ![p] = label]

(* fopen(path, "a"): the file under the path, or a new one; it may fail.      *)
OpenLog(p) ==
    \/ /\ slot[0] # 0
       /\ handle' = [handle EXCEPT ![p] = slot[0]]
       /\ UNCHANGED <<slot, created>>
    \/ /\ slot[0] = 0 /\ created < MaxFiles
       /\ created' = created + 1
       /\ slot' = [slot EXCEPT ![0] = created + 1]
       /\ handle' = [handle EXCEPT ![p] = created + 1]
    \/ /\ handle' = [handle EXCEPT ![p] = 0]
       /\ UNCHANGED <<slot, created>>

(* log_init_with_path                                                         *)
Start(p) ==
    /\ pc[p] = "down"
    /\ OpenLog(p)
    /\ Goto(p, "up")
    /\ UNCHANGED <<full, next, overlapped, cutShort>>

(* rename(2): replaces what has the new name; without the old name it fails.  *)
Rename(from, to) ==
    slot' = IF slot[from] = 0 THEN slot ELSE [slot EXCEPT ![to] = slot[from], ![from] = 0]

(* log_message, the path small enough: the line goes to the open file, which  *)
(* may have been renamed since by another session.                            *)
Write(p) ==
    /\ pc[p] = "up" /\ handle[p] # 0
    /\ slot[0] \notin full
    /\ full' = full \cup {handle[p]}
    /\ UNCHANGED <<slot, created, handle, pc, next, overlapped, cutShort>>

Rotating(p) == pc[p] \in {"shift", "current", "reopen"}

(* mutant: the renames from the first backup up                               *)
LowestFirst(k) == k

(* for (i = g_max_backups - 1; i >= 1; i--): the k-th backup renamed; the     *)
(* oldest goes first.                                                         *)
Shifts(k) == MaxBackups - k

(* check_and_rotate, the file under the path is full: rotate_log closes the   *)
(* log and unlinks the oldest backup.                                         *)
StartRotation(p) ==
    /\ pc[p] = "up" /\ handle[p] # 0
    /\ slot[0] \in full
    /\ handle' = [handle EXCEPT ![p] = 0]
    /\ slot' = [slot EXCEPT ![MaxBackups] = 0]
    /\ next' = [next EXCEPT ![p] = 1]
    /\ overlapped' = (overlapped \/ \E q \in Sessions \ {p} : Rotating(q))
    /\ Goto(p, "shift")
    /\ UNCHANGED <<created, full, cutShort>>

(* rename .i to .i+1                                                          *)
ShiftBackup(p) ==
    /\ pc[p] = "shift" /\ next[p] \in 1..(MaxBackups - 1)
    /\ Rename(Shifts(next[p]), Shifts(next[p]) + 1)
    /\ next' = [next EXCEPT ![p] = next[p] + 1]
    /\ UNCHANGED <<created, full, handle, pc, overlapped, cutShort>>

Shifted(p) ==
    /\ pc[p] = "shift" /\ next[p] \notin 1..(MaxBackups - 1)
    /\ next' = [next EXCEPT ![p] = 0]
    /\ Goto(p, "current")
    /\ UNCHANGED <<slot, created, full, handle, overlapped, cutShort>>

(* rename the path to .1                                                      *)
ShiftCurrent(p) ==
    /\ pc[p] = "current"
    /\ Rename(0, 1)
    /\ Goto(p, "reopen")
    /\ UNCHANGED <<created, full, handle, next, overlapped, cutShort>>

Reopen(p) ==
    /\ pc[p] = "reopen"
    /\ OpenLog(p)
    /\ Goto(p, "up")
    /\ UNCHANGED <<full, next, overlapped, cutShort>>

(* log_shutdown, or the process dies, at any step of a rotation too.          *)
Stop(p) ==
    /\ pc[p] # "down"
    /\ handle' = [handle EXCEPT ![p] = 0]
    /\ next' = [next EXCEPT ![p] = 0]
    /\ Goto(p, "down")
    /\ cutShort' = (cutShort \/ Rotating(p))
    /\ UNCHANGED <<slot, created, full, overlapped>>

Next == \E p \in Sessions :
    \/ Start(p) \/ Write(p) \/ StartRotation(p) \/ ShiftBackup(p) \/ Shifted(p)
    \/ ShiftCurrent(p) \/ Reopen(p) \/ Stop(p)

Spec == Init /\ [][Next]_vars

-----------------------------------------------------------------------------
(* Slots, handles and locals keep their types.                                *)
TypeOK ==
    /\ slot \in [0..MaxBackups -> 0..MaxFiles]
    /\ created \in 0..MaxFiles
    /\ full \subseteq 1..MaxFiles
    /\ handle \in [Sessions -> 0..MaxFiles]
    /\ pc \in [Sessions -> {"down", "up", "shift", "current", "reopen"}]
    /\ next \in [Sessions -> 0..MaxBackups]
    /\ overlapped \in BOOLEAN /\ cutShort \in BOOLEAN

Kept == {slot[i] : i \in 0..MaxBackups} \ {0}

(* The backups stay in the order they were written, and only the oldest are   *)
(* lost, also when sessions died between two renames and left a gap in the    *)
(* numbers; when none did, no file is lost that has a slot left. This holds   *)
(* as long as no two sessions rotate at once.                                 *)
OldestLogsLost == ~overlapped =>
    /\ \A i, j \in 0..MaxBackups : i < j /\ slot[i] # 0 /\ slot[j] # 0 => slot[i] > slot[j]
    /\ \A f \in 1..created, g \in Kept : f \notin Kept => f < g
    /\ ~cutShort /\ slot[0] # 0 /\ (\A p \in Sessions : ~Rotating(p)) =>
         \A f \in 1..created : f >= created - MaxBackups => f \in Kept
=============================================================================
