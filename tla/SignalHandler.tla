--------------------------- MODULE SignalHandler ----------------------------
(***************************************************************************)
(* SignalHandler (9.caffe-ssd/src/caffe/util/signal_handler.cpp): a signal *)
(* sets a flag, at any moment; the solver asks now and then whether one    *)
(* came, and reading a flag and clearing it are two steps.                 *)
(***************************************************************************)
EXTENDS Naturals

CONSTANTS
  SIGHUP_action_, SIGINT_action_,   \* what the signals are to do
  MaxSignals                        \* bound: signals sent to one process

VARIABLES
  got,       \* got[s]: got_sighup, got_sigint
  since,     \* since[s]: history: s came after the last read of its flag
  signals,   \* how many were sent
  check,     \* the flag CheckForSignals is at, or "idle"
  result,    \* what it read there
  request    \* what it returned, until the solver has dealt with it

vars == << got, since, signals, check, result, request >>

Signal == {"SIGHUP", "SIGINT"}
Action(s) == IF s = "SIGHUP" THEN SIGHUP_action_ ELSE SIGINT_action_
SolverAction == {"NONE", "STOP", "SNAPSHOT"}

Quiet == [s \in Signal |-> FALSE]

Init ==
  /\ got = Quiet /\ since = Quiet /\ signals = 0
  /\ check = "idle" /\ result = "unread" /\ request = "unasked"

\* handle_signal
Deliver(s) ==
  /\ signals < MaxSignals
  /\ signals' = signals + 1
  /\ got' = [got EXCEPT ![s] = TRUE]
  /\ since' = [since EXCEPT ![s] = TRUE]
  /\ UNCHANGED << check, result, request >>

\* CheckForSignals is called
Ask ==
  /\ check = "idle" /\ request = "unasked"
  /\ check' = "SIGHUP"
  /\ UNCHANGED << got, since, signals, result, request >>

\* GotSIGHUP, GotSIGINT: the flag is read ...
Read(s) ==
  /\ check = s /\ result = "unread"
  /\ result' = IF got[s] THEN "set" ELSE "unset"
  /\ since' = [since EXCEPT ![s] = FALSE]
  /\ UNCHANGED << got, signals, check, request >>

\* ... and cleared; SIGINT is looked at when there was no SIGHUP
Clear(s) ==
  /\ check = s /\ result # "unread"
  /\ got' = [got EXCEPT ![s] = FALSE]
  /\ result' = "unread"
  /\ \/ /\ result = "set"
        /\ check' = "idle" /\ request' = Action(s)
     \/ /\ result = "unset" /\ s = "SIGHUP"
        /\ check' = "SIGINT" /\ UNCHANGED request
     \/ /\ result = "unset" /\ s = "SIGINT"
        /\ check' = "idle" /\ request' = "NONE"
  /\ UNCHANGED << since, signals >>

Check == \E s \in Signal : Read(s) \/ Clear(s)

TypeOK ==
  /\ got \in [Signal -> BOOLEAN] /\ since \in [Signal -> BOOLEAN]
  /\ signals \in 0..MaxSignals
  /\ check \in Signal \union {"idle"} /\ result \in {"unread", "set", "unset"}
  /\ request \in SolverAction \union {"unasked"}

\* "Return true iff a SIGINT has been received since the last time this
\* function was called" (signal_handler.cpp:69): a flag about to be read tells
\* whether its signal came since it was last read.
SignalsNoticed ==
  check \in Signal /\ result = "unread" => (got[check] <=> since[check])
=============================================================================
