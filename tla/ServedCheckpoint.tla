-------------------------- MODULE ServedCheckpoint --------------------------
(***************************************************************************)
(* What the web server promises about the checkpoint it serves: there is   *)
(* one at a time, it only ever moves on to one read later, and every       *)
(* answer is about a single checkpoint that was being served at some       *)
(* moment between the question and the answer.  An open answers about the  *)
(* checkpoint it made current.  (src/web/current.rs, the module comment.)  *)
(***************************************************************************)
EXTENDS Naturals

CONSTANTS
    Requests,   \* the HTTP requests of one run
    MaxStates   \* how many checkpoints are read in one run, the first included

VARIABLES
    served,     \* the reading being served: readings are numbered as they are made
    phase,      \* of each request: "unsent", "waiting" or "answered"
    seen,       \* the reading a waiting request works from, 0 before it has one
    opened,     \* the reading a waiting request made current, 0 if none
    answer      \* the reading an answer is about, 0 for a refusal or a list

vars == <<served, phase, seen, opened, answer>>

Readings == 1..MaxStates

Init ==
    /\ served = 1
    /\ phase  = [r \in Requests |-> "unsent"]
    /\ seen   = [r \in Requests |-> 0]
    /\ opened = [r \in Requests |-> 0]
    /\ answer = [r \in Requests |-> 0]

Ask(r) ==
    /\ phase[r] = "unsent"
    /\ phase' = [phase EXCEPT ![r] = "waiting"]
    /\ UNCHANGED <<served, seen, opened, answer>>

Observe(r) ==
    /\ phase[r] = "waiting"
    /\ seen[r] = 0
    /\ seen' = [seen EXCEPT ![r] = served]
    /\ UNCHANGED <<served, phase, opened, answer>>

Switch(r) ==
    /\ phase[r] = "waiting"
    /\ opened[r] = 0
    /\ \E g \in Readings :
          /\ g > served
          /\ served' = g
          /\ opened' = [opened EXCEPT ![r] = g]
    /\ UNCHANGED <<phase, seen, answer>>

\* An answer is about what the request saw, about what it opened, or about
\* no checkpoint at all.
Answer(r) ==
    /\ phase[r] = "waiting"
    /\ seen[r] # 0
    /\ phase' = [phase EXCEPT ![r] = "answered"]
    /\ \E g \in {0, seen[r], opened[r]} : answer' = [answer EXCEPT ![r] = g]
    /\ seen' = [seen EXCEPT ![r] = 0]
    /\ opened' = [opened EXCEPT ![r] = 0]
    /\ UNCHANGED served

Next == \E r \in Requests : Ask(r) \/ Observe(r) \/ Switch(r) \/ Answer(r)

Spec == Init /\ [][Next]_vars
=============================================================================
