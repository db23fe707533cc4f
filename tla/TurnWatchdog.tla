---------------------------- MODULE TurnWatchdog ----------------------------
(***************************************************************************)
(* _await_turn_completion() (executor.py): the loop that waits for the end *)
(* of one turn in ticks and gives the turn up when no notification came    *)
(* for Inactivity, or when it lasted Total, whatever comes.                *)
(*                                                                         *)
(* Time is discrete and starts with the loop.  A timer of the event loop   *)
(* fires at its deadline or up to Lag later.  The activity counter of the  *)
(* turn state only grows, so what the loop tells apart is whether it moved *)
(* since the last tick.                                                    *)
(*                                                                         *)
(* X_Suffix is what a plausible bug would make of X; nothing uses it.      *)
(***************************************************************************)
EXTENDS Naturals

CONSTANTS
    Tick,       \* tick
    Inactivity, \* _TURN_INACTIVITY_TIMEOUT
    Total,      \* _TURN_TIMEOUT
    Lag,        \* how late the event loop may serve a timer
    Horizon     \* bound: no time passes after it

ASSUME WatchdogAssumption ==
    /\ Tick \in Nat /\ Tick > 0
    /\ Inactivity \in Nat /\ Inactivity > 0
    /\ Total \in Nat /\ Total > 0
    /\ Lag \in Nat
    /\ Horizon \in Nat

VARIABLES
    now,            \* loop.time(), counted from started_at
    deadline,       \* when the wait_for() under way times out
    moved,          \* activity # last_seen_activity
    lastActivityAt, \* last_activity_at
    completed,      \* the completion event
    pc,             \* waiting, returned, inactive, overBudget
    tickAt,         \* history: when the wait_for() under way was entered
    lastEvent,      \* history: when the last notification came
    completedAt     \* history: when the completion event was set

vars == <<now, deadline, moved, lastActivityAt, completed, pc, tickAt, lastEvent,
          completedAt>>

Init ==
    /\ now = 0
    /\ deadline = Tick
    /\ moved = FALSE
    /\ lastActivityAt = 0
    /\ completed = FALSE
    /\ pc = "waiting"
    /\ tickAt = 0 /\ lastEvent = 0 /\ completedAt = 0

-----------------------------------------------------------------------------
\* Time passes, but not beyond the point at which the loop serves its timer.
Advance ==
    /\ pc = "waiting"
    /\ now < deadline + Lag
    /\ now < Horizon
    /\ now' = now + 1
    /\ UNCHANGED <<deadline, moved, lastActivityAt, completed, pc, tickAt, lastEvent,
                   completedAt>>

\* on_notification(): any notification counts as activity; some end the turn.
Notification(ends) ==
    /\ pc = "waiting"
    /\ moved' = TRUE
    /\ lastEvent' = now
    /\ completed' = (completed \/ ends)
    /\ completedAt' = IF ends /\ ~completed THEN now ELSE completedAt
    /\ UNCHANGED <<now, deadline, lastActivityAt, pc, tickAt>>

\* wait_for() returns: the event was set before its timer fired.
Return ==
    /\ pc = "waiting" /\ completed
    /\ pc' = "returned"
    /\ UNCHANGED <<now, deadline, moved, lastActivityAt, completed, tickAt, lastEvent,
                   completedAt>>

NoticedAt_Never == lastActivityAt
NoticedAt_Always == now

\* last_activity_at once this tick has looked at the activity counter.
NoticedAt == IF moved THEN now ELSE lastActivityAt

Inactive == now - NoticedAt >= Inactivity

OverBudget_SinceActivity == now - NoticedAt >= Total

OverBudget == now >= Total

\* wait_for() timed out.  Its timer cancels a wait() that has not run since
\* the event was set, so a completion of the same instant may go unseen.
Expire ==
    /\ pc = "waiting"
    /\ now >= deadline
    /\ completed => completedAt = now
    /\ moved' = FALSE
    /\ lastActivityAt' = NoticedAt
    /\ pc' = IF Inactive THEN "inactive" ELSE IF OverBudget THEN "overBudget" ELSE "waiting"
    /\ deadline' = now + Tick
    /\ tickAt' = now
    /\ UNCHANGED <<now, completed, lastEvent, completedAt>>

Next == Advance \/ (\E ends \in BOOLEAN : Notification(ends)) \/ Return \/ Expire

Spec == Init /\ [][Next]_vars

-----------------------------------------------------------------------------
ClockType ==
    /\ now \in Nat /\ deadline \in Nat /\ lastActivityAt \in Nat
    /\ tickAt \in Nat /\ lastEvent \in Nat /\ completedAt \in Nat
    /\ pc \in {"waiting", "returned", "inactive", "overBudget"}
FlagType == moved \in BOOLEAN /\ completed \in BOOLEAN

\* Types of the loop's variables and of the history.
TypeOK == ClockType /\ FlagType

\* A turn is given up as wedged only after a real silence of at least
\* Inactivity, whatever came between two ticks, and never when it has completed:
\* the completion is itself an event of the tick that would find silence.
SilenceIsReal == pc = "inactive" => now - lastEvent >= Inactivity /\ ~completed

\* A silent channel is given up in time: the loop never waits on for two ticks
\* beyond Inactivity (one to notice the last event, one to notice the silence).
SilenceIsNoticed ==
    pc = "waiting" => now - lastEvent < Inactivity + 2 * (Tick + Lag)

\* A turn that keeps emitting events is still given up one tick after Total.
TotalIsBounded == pc = "waiting" => now < Total + Tick + Lag

\* Where the loop's clocks stand while it waits: the last tick found the
\* silence and the budget still short, and was itself in time; an event the
\* loop has not noticed yet came after that tick.
ClocksInv ==
    /\ lastActivityAt <= tickAt /\ tickAt <= now /\ lastEvent <= now
    /\ completed => completedAt <= lastEvent
    /\ completed /\ ~moved => completedAt <= lastActivityAt
    /\ IF moved THEN tickAt <= lastEvent ELSE lastEvent <= lastActivityAt
    /\ pc = "waiting" =>
        /\ deadline = tickAt + Tick
        /\ now <= deadline + Lag
        /\ tickAt - lastActivityAt < Inactivity
        /\ tickAt = 0 \/ tickAt < Total
        /\ lastActivityAt <= lastEvent + Tick + Lag
    /\ pc = "inactive" => now - lastEvent >= Inactivity /\ ~completed

\* A claim that the loop does not keep: if the completion event is set, it
\* returns (docstring, step 1).
CompletionWins == pc \in {"inactive", "overBudget"} => ~completed
=============================================================================
