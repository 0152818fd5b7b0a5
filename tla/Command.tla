------------------------------ MODULE Command ------------------------------
(***************************************************************************)
(* sys/unix/cmd.cc: cmd_execute runs a program with its output in a pipe,  *)
(* reads the output and waits for the program, together with adb_execute   *)
(* and process_check_success of device_discovery.cc, which are always      *)
(* called around it.  Any thread of Callers may be running one command.    *)
(* Output is counted in chunks of one read; a program that could not be    *)
(* started is one that exits with an error, as it is for the parent.       *)
(***************************************************************************)
EXTENDS Integers

CONSTANTS Callers,        \* threads that run commands
          SizeMod,        \* size_t holds the numbers below this (2^64)
          OutSize,        \* size of the caller's output buffer, in chunks
          MaxChunks,      \* bound: chunks a program prints
          MaxReadErrors   \* bound: reads that fail

\* cmd_execute reads into the caller's buffer only if that has more than two
\* bytes: room for a chunk and the terminating zero.
ASSUME SizeAssumption == SizeMod \in Nat /\ OutSize \in 2..(SizeMod - 1)
ASSUME CommandBounds == MaxChunks \in Nat /\ MaxReadErrors \in Nat

VARIABLES cmd,            \* cmd[t]: the command thread t runs
          read_errors,    \* reads that failed so far
          zombies         \* programs started that nobody waits for

cmdVars == <<cmd, read_errors, zombies>>

\* out: a buffer was given; pipe: the ends open in this process; child: the
\* program; left: chunks still to be read; ok: what the caller gets.
NoCommand == [pc |-> "idle", out |-> FALSE, pipe |-> {}, child |-> "none",
              left |-> 0, ok |-> FALSE]

CommandInit == /\ cmd = [t \in Callers |-> NoCommand]
               /\ read_errors = 0
               /\ zombies = 0

At(t, pc) == cmd[t].pc = pc

\* adb_execute was called: with adb_exe set there is always a command to run.
adb_execute(t, out) == /\ cmd' = [cmd EXCEPT ![t] = [NoCommand EXCEPT !.pc = "pipe", !.out = out]]
                       /\ UNCHANGED <<read_errors, zombies>>

\* The caller takes the result.
Returned(t) == At(t, "done") /\ cmd' = [cmd EXCEPT ![t] = NoCommand]
                             /\ UNCHANGED <<read_errors, zombies>>

Pipe(t) == /\ At(t, "pipe")
           /\ \/ cmd' = [cmd EXCEPT ![t].pc = "fork", ![t].pipe = {"read", "write"}]
              \/ cmd' = [cmd EXCEPT ![t].pc = "done"]
           /\ UNCHANGED <<read_errors, zombies>>

ForkFail(t) == /\ At(t, "fork")
               /\ cmd' = [cmd EXCEPT ![t].pc = "end"]
               /\ UNCHANGED <<read_errors, zombies>>

\* Mutant: the parent keeps the write side of the pipe.
ForkKeepsWrite(t) ==
  /\ At(t, "fork")
  /\ \E n \in 0..MaxChunks :
       cmd' = [cmd EXCEPT ![t].pc = IF cmd[t].out THEN "read" ELSE "drain",
                          ![t].child = "runs", ![t].left = n]
  /\ UNCHANGED <<read_errors, zombies>>

Fork(t) == /\ At(t, "fork")
           /\ \E n \in 0..MaxChunks :
                cmd' = [cmd EXCEPT ![t].pc = IF cmd[t].out THEN "read" ELSE "drain",
                                   ![t].pipe = {"read"}, ![t].child = "runs", ![t].left = n]
           /\ UNCHANGED <<read_errors, zombies>>

\* What read returns: a chunk, 0 when no writer is left, or -1.
Read(t, r) ==
  /\ \/ r = 1 /\ cmd[t].left > 0 /\ UNCHANGED read_errors
     \/ /\ r = 0 /\ cmd[t].left = 0 /\ cmd[t].child # "runs"
        /\ cmd[t].pipe = {"read"} /\ UNCHANGED read_errors
     \/ r = -1 /\ read_errors < MaxReadErrors /\ read_errors' = read_errors + 1

\* ... and what is left of it in a size_t.
AsSize(r) == (r + SizeMod) % SizeMod

Left(t, r) == IF r = 1 THEN cmd[t].left - 1 ELSE cmd[t].left

\* The first read fills the caller's buffer; -1 is larger than any buffer.
ReadOutput(t) == /\ At(t, "read")
                 /\ \E r \in {-1, 0, 1} :
                      /\ Read(t, r)
                      /\ cmd' = [cmd EXCEPT ![t].left = Left(t, r),
                                   ![t].pc = IF AsSize(r) >= OutSize THEN "end" ELSE "drain",
                                   ![t].ok = AsSize(r) < OutSize]
                 /\ UNCHANGED zombies

\* The rest is thrown away until read returns 0; after -1 it reads again.
Drain(t) == /\ At(t, "drain")
            /\ \E r \in {-1, 0, 1} :
                 /\ Read(t, r)
                 /\ cmd' = [cmd EXCEPT ![t].left = Left(t, r), ![t].ok = TRUE,
                              ![t].pc = IF AsSize(r) > 0 THEN "drain" ELSE "end"]
            /\ UNCHANGED zombies

\* Mutant: a command that failed leaves its pipe open.
EndLeaks(t) == /\ At(t, "end")
               /\ cmd' = [cmd EXCEPT ![t].pipe = IF cmd[t].ok THEN {} ELSE @,
                            ![t].child = IF cmd[t].ok THEN @ ELSE "none",
                            ![t].pc = IF cmd[t].ok THEN "wait" ELSE "done"]
               /\ zombies' = zombies + (IF ~cmd[t].ok /\ cmd[t].child # "none" THEN 1 ELSE 0)
               /\ UNCHANGED read_errors

\* Both ends are closed.  Without PROCESS_SUCCESS the caller has no process
\* to wait for, even if one was started.
End(t) == /\ At(t, "end")
          /\ cmd' = [cmd EXCEPT ![t].pipe = {},
                       ![t].child = IF cmd[t].ok THEN @ ELSE "none",
                       ![t].pc = IF cmd[t].ok THEN "wait" ELSE "done"]
          /\ zombies' = zombies + (IF ~cmd[t].ok /\ cmd[t].child # "none" THEN 1 ELSE 0)
          /\ UNCHANGED read_errors

\* cmd_simple_wait: success is a normal exit with code 0.  A waitpid that
\* fails is answered like a program that failed.
Wait(t) == /\ At(t, "wait")
           /\ cmd[t].child # "runs"
           /\ cmd' = [cmd EXCEPT ![t].pc = "done", ![t].child = "none",
                                 ![t].ok = cmd[t].child = "succeeded"]
           /\ UNCHANGED <<read_errors, zombies>>

ProgramEnds(t) == /\ cmd[t].child = "runs"
                  /\ \E how \in {"succeeded", "failed"} : cmd' = [cmd EXCEPT ![t].child = how]
                  /\ UNCHANGED <<read_errors, zombies>>

CommandStep(t) == \/ Pipe(t) \/ ForkFail(t) \/ Fork(t) \/ ReadOutput(t)
                  \/ Drain(t) \/ End(t) \/ Wait(t)

(* Every command a thread is done with has closed both ends of its pipe    *)
(* and was waited for; the one way to leave a process behind is a failed   *)
(* first read, after which cmd_execute reports an error for a program that *)
(* does run.                                                               *)
CommandsCleanedUp ==
  /\ \A t \in Callers : cmd[t].pc \in {"idle", "done"} => cmd[t].pipe = {} /\ cmd[t].child = "none"
  /\ zombies <= read_errors
=============================================================================
