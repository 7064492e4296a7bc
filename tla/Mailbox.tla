-------------------------------- MODULE Mailbox --------------------------------
(***************************************************************************)
(* What an Agent promises of the messages that are handed to it by prompt, *)
(* steer and followUp (src/frontend/packages/agent/src/agent.ts).  Each is *)
(* delivered to the transcript at most once.  While it waits, a clear or a *)
(* reset may throw it away, and nothing else may.  A run takes messages    *)
(* only when it has delivered those it took before, and does not end while *)
(* it holds one; it loses what it holds only in the step in which it fails.*)
(***************************************************************************)
CONSTANT Ids

VARIABLES
  stage,   \* where each message is; lost is not cleared
  mode     \* of the agent

Stages == {"new", "queued", "taken", "delivered", "cleared", "lost"}
Modes == {"rest", "running", "failing"}

MTypeOK == stage \in [Ids -> Stages] /\ mode \in Modes

MInit == stage = [m \in Ids |-> "new"] /\ mode = "rest"

At(place) == {m \in Ids : stage[m] = place}
Move(S, to) == stage' = [m \in Ids |-> IF m \in S THEN to ELSE stage[m]]

Queue(m) == stage[m] = "new" /\ Move({m}, "queued") /\ UNCHANGED mode

\* a prompt takes its own message, a continuation takes queued ones or none
Open(S) ==
  /\ mode = "rest"
  /\ mode' = "running"
  /\ Move(S, "taken")

Take(S) ==
  /\ mode = "running"
  /\ At("taken") = {}
  /\ Move(S, "taken")
  /\ UNCHANGED mode

Deliver(m) ==
  /\ mode = "running"
  /\ stage[m] = "taken"
  /\ Move({m}, "delivered")
  /\ UNCHANGED mode

Clear(S) == Move(S, "cleared") /\ UNCHANGED mode

\* the only way to lose a message: the run that holds it fails, once
Fail ==
  /\ mode = "running"
  /\ mode' = "failing"
  /\ Move(At("taken"), "lost")

Close ==
  /\ mode # "rest"
  /\ At("taken") = {}
  /\ mode' = "rest"
  /\ UNCHANGED stage

MNext ==
  \/ \E m \in Ids : Queue(m) \/ Deliver(m)
  \/ \E m \in At("new") : Open({m})
  \/ \E S \in SUBSET At("queued") : Open(S) \/ Take(S) \/ Clear(S)
  \/ Fail
  \/ Close

MSpec == MInit /\ [][MNext]_<<stage, mode>>
===============================================================================
