------------------------------- MODULE RunCmd -------------------------------
(***************************************************************************)
(* provider/runcmd.go, RunCmd: one provider command under a deadline.      *)
(*                                                                         *)
(* exec.CommandContext kills the process that was started when the         *)
(* deadline passes or the client cancels the call; cmd.Run returns when    *)
(* that process has ended and both of its output streams are at their end. *)
(* A process that the command leaves behind (the VirtualBox service, a     *)
(* virtual machine) may hold those streams open, and is not killed.        *)
(***************************************************************************)
CONSTANT Invocation \* identities of concurrent invocations

ASSUME InvocationAssumption == "none" \notin Invocation

VARIABLES
  daemon,   \* the process left behind: the invocation whose streams it holds
  \* the invocations
  pc,
  child,    \* the process started
  worked,   \* whether it did what it was to do
  deadline, \* "ahead" or "passed"
  canceled, \* by the client
  copied,   \* both streams are read to their end
  outcome

runs == <<daemon, pc, child, worked, deadline, canceled, copied, outcome>>

RunInit == /\ daemon = "none"
           /\ pc = [c \in Invocation |-> "idle"]
           /\ child = [c \in Invocation |-> "none"]
           /\ worked = [c \in Invocation |-> FALSE]
           /\ deadline = [c \in Invocation |-> "ahead"]
           /\ canceled = [c \in Invocation |-> FALSE]
           /\ copied = [c \in Invocation |-> FALSE]
           /\ outcome = [c \in Invocation |-> "none"]

Start(c) == /\ pc[c] = "idle"
            /\ pc' = [pc EXCEPT ![c] = "run"]
            /\ child' = [child EXCEPT ![c] = "running"]
            /\ UNCHANGED <<daemon, worked, deadline, canceled, copied, outcome>>

\* There is no such program.
StartFails(c) == /\ pc[c] = "idle"
                 /\ pc' = [pc EXCEPT ![c] = "waited"]
                 /\ copied' = [copied EXCEPT ![c] = TRUE]
                 /\ UNCHANGED <<daemon, child, worked, deadline, canceled, outcome>>

(* The processes.                                                          *)

Work(c) == /\ child[c] = "running" /\ ~worked[c]
           /\ worked' = [worked EXCEPT ![c] = TRUE]
           /\ UNCHANGED <<daemon, pc, child, deadline, canceled, copied, outcome>>

LeaveBehind(c) == /\ child[c] = "running" /\ daemon = "none"
                  /\ daemon' = c
                  /\ UNCHANGED <<pc, child, worked, deadline, canceled, copied, outcome>>

DaemonEnds == /\ daemon # "none" /\ daemon' = "none"
              /\ UNCHANGED <<pc, child, worked, deadline, canceled, copied, outcome>>

Exit(c, code) == /\ child[c] = "running"
                 /\ code = "exit 0" => worked[c]
                 /\ child' = [child EXCEPT ![c] = code]
                 /\ UNCHANGED <<daemon, pc, worked, deadline, canceled, copied, outcome>>

(* The context.                                                            *)

Deadline(c) == /\ pc[c] \in {"run", "waited"} /\ deadline[c] = "ahead"
               /\ deadline' = [deadline EXCEPT ![c] = "passed"]
               /\ UNCHANGED <<daemon, pc, child, worked, canceled, copied, outcome>>

Cancel(c) == /\ pc[c] = "run" /\ ~canceled[c]
             /\ canceled' = [canceled EXCEPT ![c] = TRUE]
             /\ UNCHANGED <<daemon, pc, child, worked, deadline, copied, outcome>>

\* Mutant: the deadline is only looked at afterwards (exec.Command).
KillOnCancel(c) == /\ pc[c] = "run" /\ child[c] = "running" /\ canceled[c]
                   /\ child' = [child EXCEPT ![c] = "killed"]
                   /\ UNCHANGED <<daemon, pc, worked, deadline, canceled, copied, outcome>>

KillChild(c) == /\ pc[c] = "run" /\ child[c] = "running"
                /\ deadline[c] = "passed" \/ canceled[c]
                /\ child' = [child EXCEPT ![c] = "killed"]
                /\ UNCHANGED <<daemon, pc, worked, deadline, canceled, copied, outcome>>

(* cmd.Run.                                                                *)

\* Nobody holds the other end of the pipes.
ReadToEnd(c) == /\ pc[c] = "run" /\ child[c] # "running" /\ daemon # c /\ ~copied[c]
                /\ copied' = [copied EXCEPT ![c] = TRUE]
                /\ UNCHANGED <<daemon, pc, child, worked, deadline, canceled, outcome>>

Wait(c) == /\ pc[c] = "run" /\ child[c] # "running" /\ copied[c]
           /\ pc' = [pc EXCEPT ![c] = "waited"]
           /\ UNCHANGED <<daemon, child, worked, deadline, canceled, copied, outcome>>

\* Mutant: no output is taken for a failure, any output for success.
ReportByOutput(c) == /\ pc[c] = "waited"
                     /\ pc' = [pc EXCEPT ![c] = "done"]
                     /\ outcome' = [outcome EXCEPT ![c] = IF deadline[c] = "passed" THEN "timed out"
                                                          ELSE IF worked[c] THEN "ok" ELSE "failed"]
                     /\ UNCHANGED <<daemon, child, worked, deadline, canceled, copied>>

\* Mutant: an invocation that the client canceled is not answered.
ReportUncanceled(c) == /\ pc[c] = "waited"
                       /\ pc' = [pc EXCEPT ![c] = IF canceled[c] THEN "canceled" ELSE "done"]
                       /\ UNCHANGED <<daemon, child, worked, deadline, canceled, copied, outcome>>

\* The deadline is asked about first, whatever cmd.Run returned.
Report(c) == /\ pc[c] = "waited"
             /\ pc' = [pc EXCEPT ![c] = "done"]
             /\ outcome' = [outcome EXCEPT ![c] = IF deadline[c] = "passed" THEN "timed out"
                                                  ELSE IF child[c] = "exit 0" THEN "ok"
                                                  ELSE "failed"]
             /\ UNCHANGED <<daemon, child, worked, deadline, canceled, copied>>

RunNext == \/ DaemonEnds
           \/ \E c \in Invocation : \/ Start(c) \/ StartFails(c)
                                    \/ Work(c) \/ LeaveBehind(c)
                                    \/ \E code \in {"exit 0", "exit 1"} : Exit(c, code)
                                    \/ Deadline(c) \/ Cancel(c) \/ KillChild(c)
                                    \/ ReadToEnd(c) \/ Wait(c) \/ Report(c)

RunSpec == RunInit /\ [][RunNext]_runs

\* The timer runs, the kernel delivers the kill, and goroutines are scheduled.
\* Nothing is assumed of the command or of what it leaves behind.
FairRunSpec == /\ RunSpec
               /\ \A c \in Invocation : /\ WF_runs(Deadline(c)) /\ WF_runs(KillChild(c))
                                        /\ WF_runs(ReadToEnd(c)) /\ WF_runs(Wait(c))
                                        /\ WF_runs(Report(c))
-----------------------------------------------------------------------------
RunTypeOK == /\ daemon \in Invocation \cup {"none"}
             /\ pc \in [Invocation -> {"idle", "run", "waited", "done"}]
             /\ child \in [Invocation -> {"none", "running", "exit 0", "exit 1", "killed"}]
             /\ worked \in [Invocation -> BOOLEAN]
             /\ canceled \in [Invocation -> BOOLEAN]
             /\ copied \in [Invocation -> BOOLEAN]
             /\ deadline \in [Invocation -> {"ahead", "passed"}]
             /\ outcome \in [Invocation -> {"ok", "failed", "timed out", "none"}]

\* An adapter goes on to its next command only on "ok" (runcmd.go:28-49): the
\* command has then ended by itself and successfully, its work is done, and its
\* output is complete.  The converse fails: a command may have done its work and
\* be reported as failed or as timed out.
OkIsTrue ==
  \A c \in Invocation : outcome[c] = "ok" => child[c] = "exit 0" /\ worked[c] /\ copied[c]

\* "CommandTimeout bounds any single provider CLI invocation" (runcmd.go:12-13):
\* every invocation is answered, unless a process that its command left behind
\* holds the output for ever.  That condition is the code's: cmd.Run waits for the
\* streams, and no deadline ends the wait (WaitDelay is not set).
EveryCommandReplies ==
  \A c \in Invocation : []<>(daemon # c) => (pc[c] = "run" ~> pc[c] = "done")
=============================================================================
