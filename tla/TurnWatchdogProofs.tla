------------------------- MODULE TurnWatchdogProofs -------------------------
(***************************************************************************)
(* The bounds of TurnWatchdog for every tick, timeout and lag.             *)
(***************************************************************************)
EXTENDS TurnWatchdog, TLAPS

WatchdogInv == TypeOK /\ ClocksInv

\* The two flags of the loop are Booleans.
LEMMA Flags ==
    /\ Init => FlagType
    /\ FlagType /\ [Next]_vars => FlagType'
<1>1. Init => FlagType
  BY Zenon DEF Init, FlagType
<1>2. ASSUME FlagType, [Next]_vars
      PROVE  FlagType'
  <2>1. CASE Advance
    BY <1>2, <2>1, Zenon DEF Advance, FlagType
  <2>2. ASSUME NEW ends \in BOOLEAN, Notification(ends)
        PROVE  FlagType'
    BY <1>2, <2>2, Zenon DEF Notification, FlagType
  <2>3. CASE Return
    BY <1>2, <2>3, Zenon DEF Return, FlagType
  <2>4. CASE Expire
    BY <1>2, <2>4, Zenon DEF Expire, FlagType
  <2>5. CASE UNCHANGED vars
    BY <1>2, <2>5, Zenon DEF vars, FlagType
  <2> QED
    BY <1>2, <2>1, <2>2, <2>3, <2>4, <2>5, Zenon DEF Next
<1> QED
  BY <1>1, <1>2

\* The loop's clocks start out in order.
LEMMA InitClocks == Init => ClockType /\ ClocksInv
BY WatchdogAssumption DEF WatchdogAssumption, Init, ClockType, ClocksInv

\* Every step of the loop and of its environment keeps them in order.
LEMMA NextClocks ==
    ClockType /\ ClocksInv /\ [Next]_vars => ClockType' /\ ClocksInv'
<1> SUFFICES ASSUME ClockType, ClocksInv, [Next]_vars
             PROVE  ClockType' /\ ClocksInv'
  OBVIOUS
<1> USE WatchdogAssumption DEF WatchdogAssumption, ClockType, ClocksInv
<1>1. CASE Advance
  BY <1>1 DEF Advance
<1>2. ASSUME NEW ends \in BOOLEAN, Notification(ends)
      PROVE  ClockType' /\ ClocksInv'
  BY <1>2 DEF Notification
<1>3. CASE Return
  BY <1>3 DEF Return
<1>4. CASE Expire
  <2>1. NoticedAt \in Nat /\ NoticedAt <= now /\ lastActivityAt <= NoticedAt
    BY DEF NoticedAt
  <2>2. Inactive => now - lastEvent >= Inactivity /\ ~completed
    BY <1>4 DEF Expire, Inactive, NoticedAt
  <2>3. NoticedAt <= lastEvent + Tick + Lag
    BY <1>4 DEF Expire, NoticedAt
  <2>4. lastEvent <= NoticedAt
    BY DEF NoticedAt
  <2>5. ClockType'
    BY <1>4, <2>1 DEF Expire
  <2>6. ClocksInv'
    BY <1>4, <2>1, <2>2, <2>3, <2>4 DEF Expire, Inactive, OverBudget
  <2> QED
    BY <2>5, <2>6
<1>5. CASE UNCHANGED vars
  BY <1>5 DEF vars
<1> QED
  BY <1>1, <1>2, <1>3, <1>4, <1>5 DEF Next

\* The clocks of the watchdog are in order in every reachable state.
THEOREM ClocksOrdered == Spec => []WatchdogInv
<1>1. Init => WatchdogInv
  BY Flags, InitClocks DEF WatchdogInv, TypeOK
<1>2. WatchdogInv /\ [Next]_vars => WatchdogInv'
  BY Flags, NextClocks DEF WatchdogInv, TypeOK
<1> QED
  BY <1>1, <1>2, PTL DEF Spec

\* No turn is given up as wedged that emitted an event within Inactivity, or
\* that has completed.
THEOREM NoFalseWedge == Spec => []SilenceIsReal
<1>1. WatchdogInv => SilenceIsReal
  BY DEF WatchdogInv, ClocksInv, SilenceIsReal
<1> QED
  BY <1>1, ClocksOrdered, PTL

\* A silent channel is given up less than two ticks, each as late as the loop
\* may be, after Inactivity.
THEOREM SilenceBound == Spec => []SilenceIsNoticed
<1>1. WatchdogInv => SilenceIsNoticed
  BY WatchdogAssumption DEF WatchdogAssumption, WatchdogInv, TypeOK, ClockType, ClocksInv, SilenceIsNoticed
<1> QED
  BY <1>1, ClocksOrdered, PTL

\* A turn is given up less than a late tick after Total, and before that if
\* Total is shorter than a tick, after the first one.
THEOREM TotalBound == Spec => []TotalIsBounded
<1>1. WatchdogInv => TotalIsBounded
  BY WatchdogAssumption DEF WatchdogAssumption, WatchdogInv, TypeOK, ClockType, ClocksInv, TotalIsBounded
<1> QED
  BY <1>1, ClocksOrdered, PTL
=============================================================================
