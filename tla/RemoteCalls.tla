------------------------------ MODULE RemoteCalls ------------------------------
(***************************************************************************)
(* What a caller may count on: each message is made once and its promise   *)
(* settles once; the server takes each message up at most once, and only   *)
(* while it serves; a call completes only after the server took it up, and *)
(* the server serves no more once it has stopped.                          *)
(***************************************************************************)
EXTENDS Naturals

CONSTANTS
    Messages,    \* numbered in the order they are made
    Requests,    \* those with an answer; the others complete when they are sent
    Unsettled, Completed, Failures   \* outcomes

VARIABLES
    made,       \* how many have been
    outcome,    \* of the promise of each
    stage,      \* of each at the server: "ahead", "taken" or "over"
    serving     \* the server is

callVars == <<made, outcome, stage, serving>>

CallsInit ==
    /\ made = 0 /\ serving = TRUE
    /\ outcome = [m \in Messages |-> Unsettled]
    /\ stage = [m \in Messages |-> "ahead"]

(* The signal of a message may have aborted, or the client be closed, when *)
(* it is made.                                                             *)
Make ==
    /\ made + 1 \in Messages /\ made' = made + 1
    /\ \E how \in Failures \cup {Unsettled} : outcome' = [outcome EXCEPT ![made + 1] = how]
    /\ UNCHANGED <<stage, serving>>

Settle(S, how) ==
    /\ \A m \in S : m <= made /\ outcome[m] = Unsettled
    /\ how = Completed => \A m \in S \cap Requests : stage[m] # "ahead"
    /\ outcome' = [m \in Messages |-> IF m \in S THEN how ELSE outcome[m]]
    /\ UNCHANGED <<made, stage, serving>>

(* At the server: messages are taken up, turned away or done with.         *)
Serve(taken, over) ==
    /\ serving \/ taken = {}
    /\ \A m \in taken \cup over : m <= made
    /\ \A m \in taken : stage[m] = "ahead" /\ m \notin over
    /\ \A m \in over : stage[m] # "over"
    /\ stage' = [m \in Messages |-> IF m \in taken THEN "taken" ELSE IF m \in over THEN "over" ELSE stage[m]]
    /\ serving' \in {serving, FALSE}
    /\ UNCHANGED <<made, outcome>>

CallsNext ==
    \/ Make
    \/ \E S \in SUBSET Messages, how \in Failures \cup {Completed} : Settle(S, how)
    \/ \E taken, over \in SUBSET Messages : Serve(taken, over)

CallsSpec == CallsInit /\ [][CallsNext]_callVars
================================================================================
