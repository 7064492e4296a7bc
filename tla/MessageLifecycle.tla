--------------------------- MODULE MessageLifecycle ---------------------------
(***************************************************************************)
(* What the bulk sender promises about one message, without processes,     *)
(* clock or database: it is staged once, claimed, handed to WhatsApp at    *)
(* most once per claim and at most MaxAttempts times in all, and ends      *)
(* sent, failed (the budget is used up) or skipped (never handed over by   *)
(* that claim).                                                            *)
(***************************************************************************)
EXTENDS Naturals

CONSTANTS Messages, MaxAttempts

VARIABLES
  stage,   \* message -> where it is in its life
  calls    \* message -> how often it was handed to WhatsApp

lvars == <<stage, calls>>

Stages == {"absent", "queued", "claimed", "called", "sent", "failed", "skipped"}

LTypeOK ==
  /\ stage \in [Messages -> Stages]
  /\ calls \in [Messages -> 0 .. MaxAttempts]

LInit ==
  /\ stage = [m \in Messages |-> "absent"]
  /\ calls = [m \in Messages |-> 0]

Move(m, from, to) == stage[m] = from /\ stage' = [stage EXCEPT ![m] = to]

Stage(m) == Move(m, "absent", "queued") /\ UNCHANGED calls
Claim(m) == Move(m, "queued", "claimed") /\ UNCHANGED calls
Skip(m) == Move(m, "claimed", "skipped") /\ UNCHANGED calls

Call(m) ==
  /\ Move(m, "claimed", "called")
  /\ calls[m] < MaxAttempts
  /\ calls' = [calls EXCEPT ![m] = @ + 1]

Succeed(m) == Move(m, "called", "sent") /\ UNCHANGED calls
Retry(m) == Move(m, "called", "queued") /\ calls[m] < MaxAttempts /\ UNCHANGED calls
GiveUp(m) == Move(m, "called", "failed") /\ calls[m] = MaxAttempts /\ UNCHANGED calls

LNext == \E m \in Messages :
  \/ Stage(m) \/ Claim(m) \/ Skip(m) \/ Call(m)
  \/ Succeed(m) \/ Retry(m) \/ GiveUp(m)

LSpec == LInit /\ [][LNext]_lvars
===============================================================================
