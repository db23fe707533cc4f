---------------------------- MODULE OneShotRpc ----------------------------
(***************************************************************************)
(* What app_server.py promises to whoever calls request(): a call that is  *)
(* opened ends once; with an answer it ends with the first one the peer    *)
(* gave to it; it ends with a ConnectionError only when the channel is     *)
(* gone; and a channel that is gone stays gone and opens no call.          *)
(*                                                                         *)
(* Nothing is said of pipes, futures, locks, tasks, timers or threads:     *)
(* AppServer implements this module (AppServer!ImplementsRpc).             *)
(***************************************************************************)
CONSTANT Ids   \* the calls

VARIABLES
    call,      \* of each call: "new", "open", or how it ended
    answered,  \* the first answer the peer gave to each call
    gone       \* whether the channel is gone

Answers == {"ok", "rpcError"}

vars == <<call, answered, gone>>

Init ==
    /\ call = [i \in Ids |-> "new"]
    /\ answered = [i \in Ids |-> "none"]
    /\ gone = FALSE

Become(i, from, to) == call[i] = from /\ call' = [call EXCEPT ![i] = to]

\* request() on a channel that works, or on one whose pipe just broke.
Open(i) ==
    /\ ~gone
    /\ Become(i, "new", "open")
    /\ UNCHANGED <<answered, gone>>

OpenFails(i) ==
    /\ gone
    /\ Become(i, "new", "connError")
    /\ UNCHANGED <<answered, gone>>

\* The peer answers a call for the first time, in time or not.
Answer(i, kind) ==
    /\ call[i] # "new"
    /\ answered[i] = "none"
    /\ answered' = [answered EXCEPT ![i] = kind]
    /\ UNCHANGED <<call, gone>>

\* The caller gets the answer, gives up, or learns that the channel is gone.
Return(i) ==
    /\ answered[i] # "none"
    /\ Become(i, "open", answered[i])
    /\ UNCHANGED <<answered, gone>>

GiveUp(i, how) ==
    /\ Become(i, "open", how)
    /\ UNCHANGED <<answered, gone>>

Lose(i) ==
    /\ gone
    /\ Become(i, "open", "connError")
    /\ UNCHANGED <<answered, gone>>

Vanish ==
    /\ ~gone
    /\ gone' = TRUE
    /\ UNCHANGED <<call, answered>>

Next ==
    \/ \E i \in Ids :
          \/ Open(i) \/ OpenFails(i) \/ Return(i) \/ Lose(i)
          \/ \E kind \in Answers : Answer(i, kind)
          \/ \E how \in {"timeout", "cancelled"} : GiveUp(i, how)
    \/ Vanish

Spec == Init /\ [][Next]_vars
=============================================================================
