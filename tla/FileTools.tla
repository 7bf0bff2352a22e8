----------------------------- MODULE FileTools -----------------------------
(* Write and Edit (claude.c: tool_write, tool_edit) and the patches either    *)
(* may carry (patch_parser.c: apply_patch). Each runs in a tool thread. It    *)
(* reads the file, makes the new text and writes it back, and nothing keeps   *)
(* other tools off the file between these steps.                              *)
(* A text is a sequence of lines. An anchor or an old string is a sequence of *)
(* sets of lines: singletons for a literal string, any set for a regular      *)
(* expression that matches one of several lines. For the buffer a regular     *)
(* expression is replaced in, a line of the file has length 1 and the new one *)
(* the change's length.                                                       *)
EXTENDS Integers, Sequences

CONSTANTS
    Threads,   \* tool threads; a thread's name is also the line its tool puts in
    Leftovers, \* what there may be in memory that was not written yet, as a line
    Calls,     \* bound: thread -> the calls the model may make in it
    Disks      \* bound: the files there may be at the start

VARIABLES
    disk,      \* the files that exist -> their texts
    call,      \* thread -> its call: a list of changes, and whether it parsed
    pc,        \* thread -> where its tool is
    step,      \* thread -> number of the change it is at
    size,      \* thread -> length of the file when it was opened
    text,      \* thread -> what it read, then what it will write
    outcome,   \* thread -> what the tool reported
    found,     \* history: thread -> the disk when its call began
    cut,       \* history: thread -> its changes of whose text a part was written
    misread,   \* history: thread -> its changes made to another text than the file's
    user,      \* history: file -> the thread that last worked on it
    disturbed  \* history: two tools worked on one file at once, or one wrote
               \* past its buffer

vars == <<disk, call, pc, step, size, text, outcome, found, cut, misread, user, disturbed>>

Nul == "nul"    \* a line that begins with a NUL
NoCall == [valid |-> FALSE, changes |-> <<>>]

-----------------------------------------------------------------------------
(* The new text.                                                              *)
Matches(s, pattern, i) ==
    /\ i >= 1 /\ i + Len(pattern) - 1 <= Len(s)
    /\ \A j \in DOMAIN pattern : s[i + j - 1] \in pattern[j]

(* strstr and regexec: the first match at or after i, 0 if there is none.     *)
Find(s, pattern, i) ==
    LET at == {k \in i .. Len(s) + 1 : Matches(s, pattern, k)}
    IN  IF at = {} THEN 0 ELSE CHOOSE k \in at : \A other \in at : k <= other

(* The matches as the loops of find_last_occurrence and regex_find_pos see    *)
(* them: each search begins after the match before it.                        *)
Occurrences(s, pattern) ==
    LET from[i \in 1 .. Len(s) + 1] ==
            LET at == Find(s, pattern, i)
            IN  IF at = 0 THEN <<>> ELSE <<at>> \o from[at + Len(pattern)]
    IN  IF pattern = <<>> THEN <<>> ELSE from[1]

(* insert_mode: the nth match, or the last for n = 0; 0 if there is none.     *)
Anchor(s, c) ==
    LET all == Occurrences(s, c.old)
    IN  IF c.which = 0 /\ all # <<>> THEN all[Len(all)]
        ELSE IF c.which \in DOMAIN all THEN all[c.which] ELSE 0

InsertPosition(s, c) ==
    IF Anchor(s, c) = 0 THEN Len(s) + 1
    ELSE Anchor(s, c) + (IF c.after THEN Len(c.old) ELSE 0)

Inserted(s, c, line) ==
    LET at == InsertPosition(s, c)
    IN  SubSeq(s, 1, at - 1) \o <<line>> \o SubSeq(s, at, Len(s))

(* One replacement: the text before the match, the new one, the text after.   *)
Replaced(s, c, line) ==
    LET at == Find(s, c.old, 1)
    IN  SubSeq(s, 1, at - 1) \o <<line>> \o SubSeq(s, at + Len(c.old), Len(s))

(* str_replace_all, and regex_replace with replace_all.                       *)
ReplacedAll(s, c, line) ==
    LET from[i \in 1 .. Len(s) + 1] ==
            LET at == Find(s, c.old, i)
            IN  IF at = 0 THEN SubSeq(s, i, Len(s))
                ELSE SubSeq(s, i, at - 1) \o <<line>> \o from[at + Len(c.old)]
    IN  from[1]

(* regex_replace: the buffer begins with twice the length of the content, is  *)
(* doubled once for a match that does not fit, and the copy follows whether   *)
(* it fits by then or not.                                                    *)
Overruns(s, c) ==
    LET all == Occurrences(s, c.old)
        written(k) == all[k] - 1 - (k - 1) * Len(c.old) + k * c.length
        capacity[k \in 0 .. Len(all)] ==
            IF k = 0 THEN 2 * Len(s)
            ELSE IF written(k) >= capacity[k - 1] THEN 2 * capacity[k - 1] ELSE capacity[k - 1]
    IN  /\ c.regex /\ c.kind \in {"replace", "all"}
        /\ \E k \in DOMAIN all : (c.kind = "all" \/ k = 1) /\ written(k) > capacity[k]

(* What the string functions see of a buffer.                                 *)
UpToNul(s) ==
    LET nuls == {i \in DOMAIN s : s[i] = Nul}
    IN  IF nuls = {} THEN s
        ELSE SubSeq(s, 1, (CHOOSE i \in nuls : \A j \in nuls : i <= j) - 1)

(* A buffer of length n, of which what was got of a file is filled.           *)
Buffer(now, n, got, rest) == UpToNul([i \in 1 .. n |-> IF i <= got THEN now[i] ELSE rest])

HasMatch(s, c) ==
    \/ c.kind = "insert" /\ (c.eof \/ Anchor(s, c) # 0)
    \/ c.kind \in {"replace", "all"} /\ Find(s, c.old, 1) # 0

NewText(s, c, line) ==
    CASE c.kind = "insert" -> Inserted(s, c, line)
      [] c.kind = "replace" -> Replaced(s, c, line)
      [] c.kind = "all" -> ReplacedAll(s, c, line)

-----------------------------------------------------------------------------
Init ==
    /\ disk \in Disks
    /\ call = [t \in Threads |-> NoCall] /\ pc = [t \in Threads |-> "idle"]
    /\ step = [t \in Threads |-> 1] /\ size = [t \in Threads |-> 0]
    /\ text = [t \in Threads |-> <<>>] /\ outcome = [t \in Threads |-> "none"]
    /\ found = [t \in Threads |-> disk] /\ cut = [t \in Threads |-> {}]
    /\ misread = [t \in Threads |-> {}] /\ user = <<>> /\ disturbed = FALSE

Running(t) == pc[t] \notin {"idle", "done"}
FilesOf(c) == {c.changes[i].file : i \in DOMAIN c.changes}
Change(t) == call[t].changes[step[t]]

End(t, result) == pc' = [pc EXCEPT ![t] = "done"] /\ outcome' = [outcome EXCEPT ![t] = result]
GoOn(t, from, to) == pc[t] = from /\ pc' = [pc EXCEPT ![t] = to] /\ outcome' = outcome
Same == UNCHANGED <<call, found, user, disturbed>>

(* A patch is parsed as a whole first: one block that does not parse, and     *)
(* nothing is applied. Write does not need what the file holds.               *)
Enter(t, c) ==
    \/ ~c.valid /\ pc[t] = "idle" /\ End(t, "error")
    \/ c.valid /\ GoOn(t, "idle", IF c.changes[1].kind = "write" THEN "open" ELSE "size")

Begin(t) ==
    \E c \in Calls[t] :
        /\ Enter(t, c) /\ call' = [call EXCEPT ![t] = c]
        /\ text' = [text EXCEPT ![t] = <<t>>] /\ found' = [found EXCEPT ![t] = disk]
        /\ user' = [f \in FilesOf(c) \cup DOMAIN user |-> IF f \in FilesOf(c) THEN t ELSE user[f]]
        /\ disturbed' = (disturbed \/ \E u \in Threads :
                          Running(u) /\ FilesOf(call[u]) \cap FilesOf(c) # {})
        /\ UNCHANGED <<disk, step, size, cut, misread>>

(* read_file: the length first, then that many bytes of what is there now.    *)
Measure(t) ==
    /\ pc[t] = "size" /\ Change(t).file \in DOMAIN disk /\ GoOn(t, "size", "read")
    /\ size' = [size EXCEPT ![t] = Len(disk[Change(t).file])]
    /\ Same /\ UNCHANGED <<disk, step, text, cut, misread>>

(* The file cannot be opened, or there is no memory for it.                   *)
CannotRead(t) ==
    /\ pc[t] = "size" /\ End(t, "error")
    /\ Same /\ UNCHANGED <<disk, step, size, text, cut, misread>>

(* fread may give less than was measured, which nobody looks at.              *)
Load(t) ==
    /\ GoOn(t, "read", "change")
    /\ LET now == disk[Change(t).file]
       IN  \E got \in 0 .. Len(now), rest \in Leftovers :
              /\ text' = [text EXCEPT ![t] = Buffer(now, size[t], got, rest)]
              /\ misread' = IF text'[t] = now THEN misread
                            ELSE [misread EXCEPT ![t] = @ \cup {step[t]}]
    /\ Same /\ UNCHANGED <<disk, step, size, cut>>

MakeText(t) ==
    /\ GoOn(t, "change", "open") /\ HasMatch(text[t], Change(t))
    /\ ~Overruns(text[t], Change(t))
    /\ text' = [text EXCEPT ![t] = NewText(text[t], Change(t), t)]
    /\ Same /\ UNCHANGED <<disk, step, size, cut, misread>>

(* What stands behind the buffer is overwritten: the new text may be spoiled. *)
Overrun(t) ==
    /\ GoOn(t, "change", "open") /\ HasMatch(text[t], Change(t)) /\ Overruns(text[t], Change(t))
    /\ \E new \in {NewText(text[t], Change(t), t)} \cup {<<other>> : other \in Leftovers} :
          text' = [text EXCEPT ![t] = new]
    /\ disturbed' = TRUE /\ UNCHANGED <<disk, call, step, size, found, cut, misread, user>>

(* Nothing matches, the regular expression is not one, or no memory.          *)
CannotMake(t) ==
    /\ pc[t] = "change" /\ End(t, "error")
    /\ Same /\ UNCHANGED <<disk, step, size, text, cut, misread>>

(* write_file: fopen("wb") empties the file before anything is written.       *)
Truncate(t) ==
    /\ GoOn(t, "open", "fill")
    /\ disk' = [f \in DOMAIN disk \cup {Change(t).file} |->
                   IF f = Change(t).file THEN <<>> ELSE disk[f]]
    /\ Same /\ UNCHANGED <<step, size, text, cut, misread>>

CannotOpen(t) ==
    /\ pc[t] = "open" /\ End(t, "error")
    /\ Same /\ UNCHANGED <<disk, step, size, text, cut, misread>>

(* apply_patch goes on with its next file; the others are done.               *)
Succeed(t) ==
    /\ pc[t] = "fill"
    /\ \/ /\ step[t] < Len(call[t].changes) /\ GoOn(t, "fill", "size")
          /\ step' = [step EXCEPT ![t] = @ + 1]
       \/ step[t] = Len(call[t].changes) /\ End(t, "success") /\ step' = step

(* Two writers at once both start at offset 0, the shorter over the longer.   *)
Over(s, below) == s \o SubSeq(below, Len(s) + 1, Len(below))

Fill(t) ==
    /\ Succeed(t) /\ disk' = [disk EXCEPT ![Change(t).file] = Over(text[t], @)]
    /\ Same /\ UNCHANGED <<size, text, cut, misread>>

(* Only the first part of the text comes to the file, down to none of it.     *)
WritePart(t) ==
    /\ \E n \in 0 .. Len(text[t]) :
          disk' = [disk EXCEPT ![Change(t).file] = Over(SubSeq(text[t], 1, n), @)]
    /\ cut' = [cut EXCEPT ![t] = @ \cup {[change |-> step[t], text |-> text[t]]}]
    /\ Same /\ UNCHANGED <<size, text, misread>>

(* What is still in the stream's buffer reaches the disk in fclose, whose     *)
(* failure nobody looks at.                                                   *)
FlushFails(t) == Succeed(t) /\ WritePart(t)

WriteFails(t) == pc[t] = "fill" /\ End(t, "error") /\ step' = step /\ WritePart(t)

(* The user's interrupt: the calls into the C library are where a cancelled   *)
(* thread ends, those that write among them.                                  *)
Cancel(t) ==
    /\ Running(t) /\ End(t, "cancelled") /\ step' = step
    /\ \/ pc[t] = "fill" /\ WritePart(t)
       \/ pc[t] # "fill" /\ Same /\ UNCHANGED <<disk, size, text, cut, misread>>

Tool(t) ==
    \/ Begin(t) \/ Measure(t) \/ CannotRead(t) \/ Load(t) \/ MakeText(t) \/ Overrun(t)
    \/ CannotMake(t) \/ Truncate(t) \/ CannotOpen(t)
    \/ Fill(t) \/ FlushFails(t) \/ WriteFails(t) \/ Cancel(t)

Next == \E t \in Threads : Tool(t)
Spec == Init /\ [][Next]_vars

-----------------------------------------------------------------------------
TypeOK ==
    /\ pc \in [Threads -> {"idle", "size", "read", "change", "open", "fill", "done"}]
    /\ outcome \in [Threads -> {"none", "success", "error", "cancelled"}]
    /\ \A t \in Threads : size[t] \in Nat /\ step[t] \in 1 .. Len(call[t].changes) + 1
    /\ \A t \in Threads : misread[t] \subseteq Nat /\ \A part \in cut[t] : part.change \in Nat
    /\ disturbed \in BOOLEAN

Places(s, line) == {i \in DOMAIN s : s[i] = line}

(* after is before with line put where a match of pattern was.                *)
TakenBack(before, after, line, pattern) ==
    LET start[i \in 0 .. Len(after)] ==
            IF i = 0 THEN 1
            ELSE start[i - 1] + (IF after[i] = line THEN Len(pattern) ELSE 1)
    IN  /\ start[Len(after)] = Len(before) + 1
        /\ \A i \in DOMAIN after :
              IF after[i] = line THEN Matches(before, pattern, start[i - 1])
              ELSE before[start[i - 1]] = after[i]

(* A match stands at position a: the last one for which = 0, the first for 1. *)
BesideAnchor(c, before, a) ==
    /\ Matches(before, c.old, a)
    /\ c.which = 0 => \A j \in a + Len(c.old) .. Len(before) : ~Matches(before, c.old, j)
    /\ c.which = 1 => \A j \in 1 .. a - 1 : ~Matches(before, c.old, j)

(* What the tools' descriptions promise of one change.                        *)
AsAsked(c, before, after, line) ==
    CASE c.kind = "write" -> after = <<line>>
      [] c.kind = "all" ->
            /\ TakenBack(before, after, line, c.old)
            /\ Places(after, line) # {}
            /\ \A i \in DOMAIN after : ~Matches(after, c.old, i)
      [] c.kind = "replace" ->
            /\ TakenBack(before, after, line, c.old)
            /\ \E i \in DOMAIN after :
                  Places(after, line) = {i} /\ \A j \in 1 .. i - 1 : ~Matches(before, c.old, j)
      [] c.kind = "insert" ->
            /\ TakenBack(before, after, line, <<>>)
            /\ \E i \in DOMAIN after :
                  /\ Places(after, line) = {i}
                  /\ BesideAnchor(c, before, IF c.after THEN i - Len(c.old) ELSE i)
                     \/ (c.eof /\ i = Len(after))

Text(files, f) == IF f \in DOMAIN files THEN files[f] ELSE <<>>

Asked(t, i, after) ==
    LET c == call[t].changes[i]
    IN  AsAsked(c, Text(found[t], c.file), after, t)

Now(t, i) == Text(disk, call[t].changes[i].file)

Made(t, i) == Asked(t, i, Now(t, i))

Untouched(t, i) ==
    LET f == call[t].changes[i].file
    IN  /\ Text(disk, f) = Text(found[t], f)
        /\ f \in DOMAIN disk <=> f \in DOMAIN found[t]

(* The first part of the text that was asked for.                             *)
Begun(t, i) ==
    \E part \in cut[t] :
        /\ part.change = i /\ Asked(t, i, part.text)
        /\ \E n \in 0 .. Len(part.text) : Now(t, i) = SubSeq(part.text, 1, n)

(* A tool that had its files to itself tells the truth about them. Success:   *)
(* each change is in its file, made to what the file held when the tool       *)
(* began. Error or cancelled: the changes before the one it was at are made,  *)
(* those after it are not, and the file it was at is as it was or holds the   *)
(* first part of the new text. A write that failed on its way to the disk     *)
(* leaves such a part too, even where success is reported. A file that the    *)
(* tool did not read to its end (a NUL in it, a failed read) is excepted, and *)
(* all of them once a tool wrote past its buffer.                             *)
Alone(t) ==
    pc[t] = "done" /\ ~disturbed /\ \A f \in FilesOf(call[t]) : user[f] = t

ReportsTheFile ==
    \A t \in Threads : Alone(t) =>
        \A i \in DOMAIN call[t].changes \ misread[t] :
            \/ call[t].valid /\ (outcome[t] = "success" \/ i < step[t]) /\ Made(t, i)
            \/ outcome[t] # "success" /\ i >= step[t] /\ Untouched(t, i)
            \/ i <= step[t] /\ Begun(t, i)
=============================================================================
