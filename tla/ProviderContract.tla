-------------------------- MODULE ProviderContract --------------------------
(***************************************************************************)
(* What the Ops interface (provider/ops.go) promises of the life cycle of  *)
(* virtual machines, whatever the provider.  A call expresses an intent;   *)
(* it changes one machine once, in one step, and as intended, or it leaves *)
(* all as they are.  "ok" is answered only when it has changed it; after a *)
(* failure, or when the server dies, it may have or not.  Nothing here     *)
(* knows about commands, files or names that must be looked up.            *)
(***************************************************************************)
CONSTANTS Call,    \* identities of concurrent calls
          Machine, \* virtual machines, those that may come to be included
          Intent,  \* what callers ask for: an operation, and who is meant
          None     \* no intent, no answer

VARIABLES state,  \* of each machine: "absent", or VMRef.State
          phase,  \* "idle", "asked", "acted" or "done", for each call
          intent,
          answer

vars == <<state, phase, intent, answer>>

\* A machine may be there from before.
Init == /\ state \in [Machine -> {"absent", "stopped"}]
        /\ phase = [c \in Call |-> "idle"]
        /\ intent = [c \in Call |-> None]
        /\ answer = [c \in Call |-> None]

\* How an operation changes the machine; Start also resumes.
\* Operations that are not listed change no machine's state.
Becomes(op, old, new) ==
  \/ op \in {"create", "clone", "import"} /\ old = "absent" /\ new = "stopped"
  \/ op = "start" /\ old \in {"stopped", "suspended"} /\ new = "running"
  \/ op = "stop" /\ old = "running" /\ new = "stopped"
  \/ op = "suspend" /\ old = "running" /\ new = "suspended"
  \/ op = "delete" /\ old \in {"stopped", "suspended"} /\ new = "absent"

Changing == {"create", "clone", "import", "start", "stop", "suspend", "delete"}

Changes(c) == \E m \in intent[c].of, new \in {"absent", "stopped", "running", "suspended"} :
                /\ Becomes(intent[c].op, state[m], new)
                /\ state' = [state EXCEPT ![m] = new]

Ask(c, i) == /\ phase[c] = "idle"
             /\ phase' = [phase EXCEPT ![c] = "asked"]
             /\ intent' = [intent EXCEPT ![c] = i]
             /\ UNCHANGED <<state, answer>>

Act(c) == /\ phase[c] = "asked"
          /\ Changes(c)
          /\ phase' = [phase EXCEPT ![c] = "acted"]
          /\ UNCHANGED <<intent, answer>>

Return(c, a) == /\ phase' = [phase EXCEPT ![c] = "done"]
                /\ answer' = [answer EXCEPT ![c] = a]
                /\ UNCHANGED intent

\* A change may be the last thing that a call does.
Succeed(c) == /\ \/ phase[c] = "asked" /\ Changes(c)
                 \/ phase[c] = "acted" /\ UNCHANGED state
                 \/ /\ phase[c] = "asked" /\ intent[c].op \notin Changing
                    /\ UNCHANGED state
              /\ Return(c, "ok")

Fail(c) == /\ phase[c] \in {"asked", "acted"}
           /\ UNCHANGED state \/ (phase[c] = "asked" /\ Changes(c))
           /\ Return(c, "failed")

\* The caller takes the answer, or the server dies, and what it had started may come to
\* its end.
End(c) == /\ phase[c] # "idle"
          /\ phase' = [phase EXCEPT ![c] = "idle"]
          /\ intent' = [intent EXCEPT ![c] = None]
          /\ answer' = [answer EXCEPT ![c] = None]
          /\ UNCHANGED state \/ (phase[c] = "asked" /\ Changes(c))

\* A guest shuts down by itself.
GuestOff(m) == /\ state[m] = "running"
               /\ state' = [state EXCEPT ![m] = "stopped"]
               /\ UNCHANGED <<phase, intent, answer>>

Next == \/ \E c \in Call : \/ \E i \in Intent : Ask(c, i)
                           \/ Act(c) \/ Succeed(c) \/ Fail(c) \/ End(c)
        \/ \E m \in Machine : GuestOff(m)

Spec == Init /\ [][Next]_vars
=============================================================================
