------------------------------ MODULE BashTool ------------------------------
(* tool_bash (claude.c) in parallel tool threads: popen, a loop of select and *)
(* fgets, pclose. What the threads share is the process: descriptor 2, which  *)
(* each of them saves, points at /dev/null and restores (in TUI mode, which   *)
(* is assumed). select sees the pipe; lines that fgets has already taken into *)
(* the stdio buffer it does not. Descendants of the shell may keep the pipe   *)
(* open when it has exited. ANSI sequences are taken out of what is kept.     *)
EXTENDS Integers, Sequences

CONSTANTS
    Threads,     \* tool threads that run Bash
    Printers,    \* bound: those whose command prints, or parts with the pipe before its end
                 \* or after it
    MaxPrinted,  \* bound: bytes a command prints
    Limit        \* BASH_OUTPUT_MAX_SIZE, positive

VARIABLES
    flag,       \* state->interrupt_requested
    stderr,     \* what descriptor 2 is: terminal, null, or closed (and open to reuse)
    pc,         \* thread -> place in tool_bash
    saved,      \* thread -> saved_stderr
    cmd,        \* thread -> its shell: none, running or exited
    writers,    \* thread -> the pipe is open, to be read and for some process to write
    pipe,       \* thread -> lines in the pipe, each as its bytes up to a NUL
    stdio,      \* thread -> lines in the FILE buffer
    kept,       \* thread -> bytes of output kept
    printed,    \* history: thread -> bytes printed
    visible,    \* history: thread -> of these, bytes not behind a NUL in their line
    ended,      \* thread -> how the loop ended; failed: by an interrupt, a timeout or an error
    mixed,      \* history: a redirection overlapped another or was left behind
    spoiled     \* history: stderr was redirected unsaved, or freopen failed

command == <<cmd, writers>>
streams == <<pipe, stdio, kept, printed, visible>>
history == <<mixed, spoiled>>
vars == <<flag, stderr, pc, saved, command, streams, ended, history>>

Init ==
    /\ flag = FALSE /\ stderr = "terminal"
    /\ mixed = FALSE /\ spoiled = FALSE
    /\ pc = [t \in Threads |-> "idle"] /\ saved = [t \in Threads |-> "none"]
    /\ cmd = [t \in Threads |-> "none"] /\ writers = [t \in Threads |-> FALSE]
    /\ pipe = [t \in Threads |-> <<>>] /\ stdio = [t \in Threads |-> <<>>]
    /\ kept = [t \in Threads |-> 0] /\ printed = [t \in Threads |-> 0]
    /\ visible = [t \in Threads |-> 0]
    /\ ended = [t \in Threads |-> "no"]

Go(t, from, to) == pc[t] = from /\ pc' = [pc EXCEPT ![t] = to]
End(t, how) == ended' = [ended EXCEPT ![t] = how]

-----------------------------------------------------------------------------
(* An interrupt before the start: no command, nothing redirected.             *)
Refuse(t) ==
    /\ flag /\ Go(t, "idle", "done") /\ End(t, "failed")
    /\ UNCHANGED <<flag, stderr, saved, command, streams, history>>

(* dup of descriptor 2. When it fails the redirection goes ahead all the same. *)
SaveStderr(t) ==
    /\ ~flag /\ stderr # "closed" /\ Go(t, "idle", "saved")
    /\ saved' = [saved EXCEPT ![t] = stderr]
    /\ mixed' = (mixed \/ \E u \in Threads : saved[u] # "none")
    /\ UNCHANGED <<flag, stderr, command, streams, ended, spoiled>>

SaveFails(t) ==
    /\ ~flag /\ Go(t, "idle", "saved")
    /\ UNCHANGED <<flag, stderr, saved, command, streams, ended, history>>

(* freopen. A closed descriptor 2 may by now be another file's.               *)
RedirectStderr(t) ==
    /\ Go(t, "saved", "popen")
    /\ stderr' \in {"null"} \cup ({stderr} \cap {"closed"})
    /\ spoiled' = (spoiled \/ saved[t] = "none")
    /\ UNCHANGED <<flag, saved, command, streams, ended, mixed>>

(* A freopen that fails has closed descriptor 2; then the saved one is closed. *)
RedirectFails(t) ==
    /\ Go(t, "saved", "popen")
    /\ stderr' = "closed" /\ spoiled' = TRUE
    /\ saved' = [saved EXCEPT ![t] = "none"]
    /\ UNCHANGED <<flag, command, streams, ended, mixed>>

Popen(t) ==
    /\ Go(t, "popen", "loop")
    /\ cmd' = [cmd EXCEPT ![t] = "running"] /\ writers' = [writers EXCEPT ![t] = TRUE]
    /\ UNCHANGED <<flag, stderr, saved, streams, ended, history>>

PopenFails(t) ==
    /\ Go(t, "popen", "restore") /\ End(t, "failed")
    /\ UNCHANGED <<flag, stderr, saved, command, streams, history>>

-----------------------------------------------------------------------------
(* The loop: interrupt, cancellation point, select, fgets. Behind it nothing  *)
(* reads: what the pipe and the buffer still hold is lost.                    *)
Leave(t, to, how) ==
    /\ Go(t, "loop", to) /\ End(t, how)
    /\ pipe' = [pipe EXCEPT ![t] = <<>>] /\ stdio' = [stdio EXCEPT ![t] = <<>>]

LeaveUnread(t, to, how) ==
    Leave(t, to, how) /\ UNCHANGED <<flag, stderr, saved, command, kept, printed, visible, history>>

Interrupted(t) == flag /\ LeaveUnread(t, "pclose", "failed")

(* The end of the file, whether or not the shell itself has ended.            *)
AtEnd(t) == ~writers[t] /\ pipe[t] = <<>>

(* timeout_seconds without a byte from anyone who has the pipe. The process   *)
(* group that is then looked up is that of a descriptor number: the command   *)
(* is not among its members.                                                  *)
TimesOut(t) == pipe[t] = <<>> /\ ~AtEnd(t) /\ LeaveUnread(t, "killing", "failed")

KillsGroup(t) ==
    /\ Go(t, "killing", "pclose")
    /\ UNCHANGED <<flag, stderr, saved, command, streams, ended, history>>

(* select is interrupted by a signal, or realloc fails.                       *)
LoopFails(t) == LeaveUnread(t, "pclose", "failed")

(* fgets takes what the pipe holds into its buffer only when that is empty.   *)
Buffered(t) == IF stdio[t] = <<>> THEN pipe[t] ELSE stdio[t]
PipeAfter(t) == IF stdio[t] = <<>> THEN <<>> ELSE pipe[t]

(* Mutant: the loop ends as soon as the command has, whatever is buffered.    *)
ReadsEofEarly(t) == ~flag /\ AtEnd(t) /\ LeaveUnread(t, "pclose", "eof")

ReadsEof(t) == ~flag /\ AtEnd(t) /\ stdio[t] = <<>> /\ LeaveUnread(t, "pclose", "eof")

(* fgets fails with an error: the loop ends, and the result does not tell it  *)
(* from the end of the file.                                                  *)
ReadFails(t) ==
    ~flag /\ (pipe[t] # <<>> \/ AtEnd(t)) /\ LeaveUnread(t, "pclose", "failed")

(* A line counts as far as strlen goes. Output that reaches the limit ends    *)
(* the loop as truncated, be it exactly.                                      *)
ReadsLine(t) ==
    LET size == kept[t] + Head(Buffered(t)) IN
    /\ ~flag /\ pc[t] = "loop" /\ (pipe[t] # <<>> \/ AtEnd(t)) /\ Buffered(t) # <<>>
    /\ IF size >= Limit
       THEN kept' = [kept EXCEPT ![t] = Limit] /\ Leave(t, "pclose", "truncated")
       ELSE /\ kept' = [kept EXCEPT ![t] = size]
            /\ stdio' = [stdio EXCEPT ![t] = Tail(Buffered(t))]
            /\ pipe' = [pipe EXCEPT ![t] = PipeAfter(t)]
            /\ UNCHANGED <<pc, ended>>
    /\ UNCHANGED <<flag, stderr, saved, command, printed, visible, history>>

(* After an interrupt: freopen, popen, testcancel, select and fgets, and the  *)
(* sleep after a timeout can be cancelled. tool_bash has no cleanup handler,  *)
(* so the command, its pipe and the redirection stay as they are.             *)
Cancelled(t) ==
    /\ flag /\ pc[t] \in {"saved", "popen", "loop", "killing"}
    /\ pc' = [pc EXCEPT ![t] = "gone"]
    /\ mixed' = (mixed \/ saved[t] # "none")
    /\ UNCHANGED <<flag, stderr, saved, command, streams, ended, spoiled>>

-----------------------------------------------------------------------------
(* pclose waits for the shell, after a timeout and an interrupt too, but for   *)
(* nobody else who has the pipe.                                              *)
Pclose(t) ==
    /\ cmd[t] = "exited" /\ Go(t, "pclose", "restore") /\ writers' = [writers EXCEPT ![t] = FALSE]
    /\ UNCHANGED <<flag, stderr, saved, cmd, streams, ended, history>>

RestoreStderr(t) ==
    /\ Go(t, "restore", "done")
    /\ stderr' = IF saved[t] = "none" THEN stderr ELSE saved[t]
    /\ saved' = [saved EXCEPT ![t] = "none"]
    /\ UNCHANGED <<flag, command, streams, ended, history>>

-----------------------------------------------------------------------------
(* The command and its descendants, as long as the tool waits for them. They  *)
(* print whole lines (in the middle of one fgets waits, without a timeout). A *)
(* line may hold a NUL: shown is what comes before it.                        *)
CommandPrints(t) ==
    /\ t \in Printers /\ writers[t] /\ pc[t] = "loop"
    /\ \E size \in 1 .. MaxPrinted - printed[t] : \E shown \in 0 .. size :
          /\ pipe' = [pipe EXCEPT ![t] = Append(@, shown)]
          /\ printed' = [printed EXCEPT ![t] = @ + size]
          /\ visible' = [visible EXCEPT ![t] = @ + shown]
    /\ UNCHANGED <<flag, stderr, pc, saved, command, stdio, kept, ended, history>>

(* The shell exits; if it was the last to have the pipe, that is its end too. *)
CommandExits(t) ==
    /\ cmd[t] = "running" /\ pc[t] \in {"loop", "killing", "pclose"}
    /\ cmd' = [cmd EXCEPT ![t] = "exited"]
    /\ \E held \in {FALSE, writers[t] /\ t \in Printers} : writers' = [writers EXCEPT ![t] = held]
    /\ UNCHANGED <<flag, stderr, pc, saved, streams, ended, history>>

(* The last writer closes the pipe: a descendant ends, or the shell closes    *)
(* its output before it ends.                                                 *)
WritersClose(t) ==
    /\ t \in Printers /\ writers[t] /\ pc[t] = "loop" /\ writers' = [writers EXCEPT ![t] = FALSE]
    /\ UNCHANGED <<flag, stderr, pc, saved, cmd, streams, ended, history>>

(* Ctrl+C. process_response then cancels the threads of its round.            *)
Interrupt ==
    /\ ~flag /\ flag' = TRUE
    /\ UNCHANGED <<stderr, pc, saved, command, streams, ended, history>>

-----------------------------------------------------------------------------
Tool(t) ==
    \/ Refuse(t) \/ SaveStderr(t) \/ SaveFails(t) \/ RedirectStderr(t) \/ RedirectFails(t)
    \/ Popen(t) \/ PopenFails(t)
    \/ Interrupted(t) \/ ReadsEof(t) \/ ReadsLine(t) \/ Cancelled(t)
    \/ KillsGroup(t) \/ Pclose(t) \/ RestoreStderr(t)

Next ==
    \/ Interrupt
    \/ \E t \in Threads :
          \/ Tool(t) \/ TimesOut(t) \/ LoopFails(t) \/ ReadFails(t)
          \/ CommandPrints(t) \/ CommandExits(t) \/ WritersClose(t)

(* A tool thread runs; commands promise nothing.                              *)
Spec == Init /\ [][Next]_vars /\ \A t \in Threads : WF_vars(pc[t] # "idle" /\ Tool(t))

-----------------------------------------------------------------------------
Lines == Seq(0 .. MaxPrinted)

TypeOK ==
    /\ flag \in BOOLEAN /\ mixed \in BOOLEAN /\ spoiled \in BOOLEAN
    /\ stderr \in {"terminal", "null", "closed"}
    /\ saved \in [Threads -> {"none", "terminal", "null"}]
    /\ pc \in [Threads -> {"idle", "saved", "popen", "loop", "killing", "pclose", "restore", "done",
                      "gone"}]
    /\ cmd \in [Threads -> {"none", "running", "exited"}] /\ writers \in [Threads -> BOOLEAN]
    /\ printed \in [Threads -> 0 .. MaxPrinted] /\ visible \in [Threads -> Nat]
    /\ \A t \in Threads : visible[t] <= printed[t]
    /\ pipe \in [Threads -> Lines] /\ stdio \in [Threads -> Lines]
    /\ kept \in [Threads -> 0 .. Limit]
    /\ ended \in [Threads -> {"no", "failed", "eof", "truncated"}]

(* "Restore stderr if we redirected it": on every way out of tool_bash, as    *)
(* long as no two redirections overlapped, no thread was cancelled in one,    *)
(* and neither the dup that saves stderr nor the freopen failed.              *)
StderrRestored ==
    ~mixed /\ ~spoiled /\ (\A t \in Threads : pc[t] \in {"idle", "done", "gone"}) =>
        stderr = "terminal"

(* What goes missing without a word to the model about it is what stands      *)
(* behind a NUL in its line, and what a read error cuts off: a command whose  *)
(* output came to its end has all the rest in the result, a truncated one     *)
(* Limit bytes of it.                                                         *)
OutputAccounted ==
    \A t \in Threads : pc[t] = "done" =>
        /\ ended[t] = "eof" => kept[t] = visible[t]
        /\ ended[t] = "truncated" => kept[t] = Limit /\ visible[t] >= Limit

(* An interrupt and a failure wait for the shell like its end does. Once it   *)
(* has ended, and nobody has the pipe any more in whose place the loop waits, *)
(* the tool returns.                                                          *)
Pending ==
    \E t \in Threads :
        \/ pc[t] = "loop" /\ cmd[t] = "exited" /\ ~writers[t]
        \/ pc[t] \in {"killing", "pclose"} /\ cmd[t] = "exited"
        \/ pc[t] = "restore"

ReturnsAfterCommand == Pending ~> ~Pending
=============================================================================
