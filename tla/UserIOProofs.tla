---------------------------- MODULE UserIOProofs ----------------------------
EXTENDS UserIO, TLAPS

(***************************************************************************)
(* Proofs about user_io.c for every set of LEDs and threads.  IInv below   *)
(* strengthens the invariants of the userio run: it records where a        *)
(* thread inside led_set_mode is (Critical, and the mutex it owns), what   *)
(* it has already done to its LED (ModeOK, PrepOK, ArmOK, NearOK), and the *)
(* bounds led_process relies on (RemOK, TimerOK).  Every action keeps it:  *)
(* one lemma per action, then NextIInv, and the theorems follow by PTL.    *)
(***************************************************************************)

(* The steps of led_set_mode between k_mutex_lock and k_mutex_unlock.    *)
Critical == {"check", "state", "prep", "arm", "unlock"}

(* led->state for a mode: lit unless OFF.                                 *)
Val(m) == IF m # "OFF" THEN 1 ELSE 0

(* An LED set OFF or STEADY shows its state and is not pending.           *)
Settled(l) ==
    leds[l].mode \in {"OFF", "STEADY"} =>
        /\ leds[l].pin = Val(leds[l].mode) /\ leds[l].state = Val(leds[l].mode)
        /\ leds[l].pending = 0

LedRec == [mode : Modes, state : {0, 1}, pending : {0, 1},
           remaining : -5 .. 5, pin : {0, 1}]

ArgRec == [led : Leds, mode : Modes, near : {Forever, 1, 5}]

(* The k_mutex: free exactly when its count is 0, and a thread inside     *)
(* led_set_mode owns it.                                                   *)
LockOK == (owner = NoOwner) <=> (lockCount = 0)
Excl == \A t \in Threads : pc[t] \in Critical => owner = t

ArgOK == /\ DOMAIN arg = Threads
         /\ \A t \in Threads : pc[t] \notin {"init", "idle"} => arg[t] \in ArgRec

(* What led_set_mode has done so far to the LED it sets.                  *)
ModeOK == \A t \in Threads : pc[t] \in {"state", "prep", "arm", "unlock"} =>
              leds[arg[t].led].mode = arg[t].mode
PrepOK == \A t \in Threads : pc[t] = "prep" /\ arg[t].mode \in {"OFF", "STEADY"} =>
              /\ leds[arg[t].led].pin = Val(arg[t].mode)
              /\ leds[arg[t].led].state = Val(arg[t].mode)
ArmOK == \A t \in Threads : pc[t] \in {"arm", "unlock"} => Settled(arg[t].led)
SettleOK == \A l \in Leds :
              (\A t \in Threads : pc[t] \notin {"state", "prep", "arm", "unlock"}
                                   \/ arg[t].led # l) => Settled(l)
(* near_process is K_FOREVER only for an LED led_prepare_next idled.       *)
NearOK == \A t \in Threads : pc[t] = "arm" /\ arg[t].near = Forever =>
              leds[arg[t].led].pending = 0
RemOK == \A l \in Leds : leds[l].pending = 1 => leds[l].remaining \in 1 .. 5
TimerOK == timer.running => timer.period \in {1, 5}

IInv ==
    /\ TypeOK /\ LockOK /\ Excl /\ ArgOK /\ ModeOK /\ PrepOK /\ ArmOK
    /\ SettleOK /\ NearOK /\ RemOK /\ TimerOK /\ PendingLedHasTimer

-----------------------------------------------------------------------------
LEMMA InitIInv == Init => IInv
<1> SUFFICES ASSUME Init PROVE IInv
    OBVIOUS
<1>1. TypeOK
  <2>1. leds \in [Leds -> LedRec]
        BY DEF Init, LedRec, Modes
  <2>2. timer \in [running : BOOLEAN, period : {0, 1, 5}, left : 0 .. 5]
        BY DEF Init
  <2>3. pc \in [Threads -> {"init", "idle", "lock", "check", "state", "prep",
                             "arm", "unlock"}]
        BY DEF Init
  <2>4. calls \in [Threads -> 0 .. MaxCalls] /\ owner \in Threads \cup {NoOwner}
        /\ lockCount \in Nat
        BY UserIOAssumption DEF Init
  <2> QED BY <2>1, <2>2, <2>3, <2>4 DEF TypeOK, LedRec
<1>2. LockOK /\ Excl /\ ArgOK /\ ModeOK /\ PrepOK /\ ArmOK /\ NearOK
      BY DEF Init, LockOK, Excl, Critical, ArgOK, ModeOK, PrepOK, ArmOK, NearOK
<1>3. SettleOK
      BY DEF Init, SettleOK, Settled, Val
<1>4. RemOK /\ TimerOK /\ PendingLedHasTimer
      BY DEF Init, RemOK, TimerOK, PendingLedHasTimer
<1> QED BY <1>1, <1>2, <1>3, <1>4 DEF IInv

(* A thread whose step leaves the LEDs, the timer and the mutex alone,     *)
(* and moves from one place outside {state, prep, arm, unlock} to another, *)
(* keeps the invariant.                                                     *)
LEMMA OutsideStep ==
    ASSUME IInv, NEW t \in Threads,
           pc[t] \in {"init", "idle", "lock"},
           NEW p \in {"init", "idle", "lock", "check"},
           pc' = [pc EXCEPT ![t] = p],
           p = "check" => owner' = t,
           p # "idle" => arg'[t] \in ArgRec,
           \A u \in Threads \ {t} : arg'[u] = arg[u], DOMAIN arg' = Threads,
           UNCHANGED <<leds, timer, age, due>>,
           calls' \in [Threads -> 0 .. MaxCalls],
           owner' \in Threads \cup {NoOwner}, lockCount' \in Nat,
           LockOK',
           owner' # owner => \A u \in Threads : pc[u] \notin Critical
    PROVE  IInv'
<1> USE DEF IInv
<1>1. \A u \in Threads \ {t} : pc'[u] = pc[u]
      BY DEF TypeOK
<1>2. pc'[t] = p
      BY DEF TypeOK
<1>3. TypeOK'
      BY <1>1, <1>2 DEF TypeOK
<1>4. Excl'
      BY <1>1, <1>2 DEF Excl, Critical
<1>5. ArgOK'
      BY <1>1, <1>2 DEF ArgOK
<1>6. ModeOK' /\ PrepOK' /\ ArmOK' /\ NearOK'
      BY <1>1, <1>2 DEF ModeOK, PrepOK, ArmOK, NearOK, Settled
<1>7. SettleOK'
      BY <1>1, <1>2 DEF SettleOK, Settled
<1>8. RemOK' /\ TimerOK' /\ PendingLedHasTimer'
      BY <1>1, <1>2 DEF RemOK, TimerOK, PendingLedHasTimer
<1> QED BY <1>3, <1>4, <1>5, <1>6, <1>7, <1>8

(* A lock that changes the owner finds the mutex free, so no thread is    *)
(* inside led_set_mode.                                                    *)
LEMMA FreeMutex ==
    ASSUME IInv, NEW t \in Threads, CanLock(t), owner # t
    PROVE  \A u \in Threads : pc[u] \notin Critical
BY UserIOAssumption DEF IInv, CanLock, Excl

(* user_io_init, on its success path and on the error path that keeps the *)
(* mutex locked.                                                           *)
LEMMA UserIoInitIInv ==
    ASSUME IInv, NEW t \in Threads, UserIoInit(t)
    PROVE  IInv'
<1>1. pc[t] = "init" /\ CanLock(t) /\ pc' = [pc EXCEPT ![t] = "idle"]
      /\ UNCHANGED <<leds, timer, arg, calls, age, due>>
      BY DEF UserIoInit
<1>2. /\ DOMAIN arg' = Threads
      /\ calls' \in [Threads -> 0 .. MaxCalls] /\ "idle" # "check"
      /\ \A u \in Threads \ {t} : arg'[u] = arg[u]
      BY <1>1 DEF IInv, ArgOK, TypeOK
<1>3. /\ owner' \in Threads \cup {NoOwner} /\ lockCount' \in Nat /\ LockOK'
      /\ owner' # owner => \A u \in Threads : pc[u] \notin Critical
  <2>1. CASE UNCHANGED <<owner, lockCount>>
        BY <2>1 DEF IInv, TypeOK, LockOK
  <2>2. CASE owner' = t /\ lockCount' = lockCount + 1
    <3>1. owner' \in Threads \cup {NoOwner} /\ lockCount' \in Nat
          BY <2>2 DEF IInv, TypeOK
    <3>2. LockOK'
          BY <2>2, UserIOAssumption DEF IInv, TypeOK, LockOK
    <3>3. owner' # owner => \A u \in Threads : pc[u] \notin Critical
          BY <1>1, <2>2, FreeMutex
    <3> QED BY <3>1, <3>2, <3>3
  <2> QED BY <2>1, <2>2 DEF UserIoInit
<1>4. pc[t] \in {"init", "idle", "lock"} /\ UNCHANGED <<leds, timer, age, due>>
      BY <1>1
<1> QED BY <1>1, <1>2, <1>3, <1>4, OutsideStep

(* led_set_mode is called: its arguments are taken.                        *)
LEMMA CallIInv ==
    ASSUME IInv, NEW t \in Threads, NEW l \in Leds, NEW m \in Modes, Call(t, l, m)
    PROVE  IInv'
<1>1. pc[t] = "idle" /\ pc' = [pc EXCEPT ![t] = "lock"]
      /\ arg' = [arg EXCEPT ![t] = [led |-> l, mode |-> m, near |-> Forever]]
      /\ calls' = [calls EXCEPT ![t] = @ + 1] /\ calls[t] < MaxCalls
      /\ UNCHANGED <<leds, timer, owner, lockCount, age, due>>
      BY DEF Call
<1>2. /\ arg'[t] \in ArgRec /\ DOMAIN arg' = Threads
      /\ \A u \in Threads \ {t} : arg'[u] = arg[u]
      BY <1>1 DEF ArgRec, IInv, ArgOK
<1>3. calls' \in [Threads -> 0 .. MaxCalls]
      BY <1>1, UserIOAssumption DEF IInv, TypeOK
<1>4. /\ owner' \in Threads \cup {NoOwner} /\ lockCount' \in Nat /\ LockOK'
      /\ pc[t] \in {"init", "idle", "lock"} /\ "lock" # "idle"
      /\ owner' = owner /\ UNCHANGED <<leds, timer, age, due>>
      BY <1>1 DEF IInv, TypeOK, LockOK
<1> QED BY <1>1, <1>2, <1>3, <1>4, OutsideStep

(* k_mutex_lock returns: the thread owns the mutex, once more.             *)
LEMMA LockIInv ==
    ASSUME IInv, NEW t \in Threads, Lock(t)
    PROVE  IInv'
<1>1. pc[t] = "lock" /\ CanLock(t) /\ pc' = [pc EXCEPT ![t] = "check"]
      /\ owner' = t /\ lockCount' = lockCount + 1
      /\ UNCHANGED <<leds, timer, arg, calls, age, due>>
      BY DEF Lock
<1>2. owner' \in Threads \cup {NoOwner} /\ lockCount' \in Nat /\ LockOK'
      BY <1>1, UserIOAssumption DEF IInv, TypeOK, LockOK
<1>3. owner' # owner => \A u \in Threads : pc[u] \notin Critical
      BY <1>1, FreeMutex
<1>4. /\ arg'[t] \in ArgRec /\ DOMAIN arg' = Threads
      /\ \A u \in Threads \ {t} : arg'[u] = arg[u]
      /\ calls' \in [Threads -> 0 .. MaxCalls]
      /\ pc[t] \in {"init", "idle", "lock"} /\ "check" # "idle"
      /\ UNCHANGED <<leds, timer, age, due>>
      BY <1>1 DEF IInv, ArgOK, TypeOK
<1> QED BY <1>1, <1>2, <1>3, <1>4, OutsideStep

(* Only the owner is inside led_set_mode.                                  *)
LEMMA OthersOut ==
    ASSUME IInv, NEW t \in Threads, pc[t] \in Critical
    PROVE  \A u \in Threads \ {t} : pc[u] \notin Critical
BY DEF IInv, Excl

(* led_prepare_next leaves a well-typed LED well typed, idles exactly the *)
(* LEDs it returns K_FOREVER for, and sets a pending LED's `remaining`.    *)
LEMMA PrepareNextFacts ==
    ASSUME NEW lv \in LedRec
    PROVE  /\ PrepareNext(lv) \in LedRec
           /\ PrepareNext(lv).mode = lv.mode
           /\ Near(lv) \in {Forever, 1, 5}
           /\ Near(lv) = Forever <=> PrepareNext(lv).pending = 0
           /\ PrepareNext(lv).pending = 1 => PrepareNext(lv).remaining \in 1 .. 5
           /\ lv.mode \in {"OFF", "STEADY"} =>
                  /\ PrepareNext(lv).pending = 0
                  /\ PrepareNext(lv).pin = lv.pin
                  /\ PrepareNext(lv).state = lv.state
<1>1. CASE Idles(lv)
  <2>1. PrepareNext(lv) = [lv EXCEPT !.pending = 0] /\ Near(lv) = Forever
        BY <1>1 DEF PrepareNext, Near
  <2>2. lv.mode \in {"OFF", "STEADY"} => Idles(lv)
        BY DEF Idles
  <2> QED BY <2>1, <2>2 DEF LedRec
<1>2. CASE ~Idles(lv)
  <2>1. lv.mode \notin {"OFF", "STEADY"}
        BY <1>2 DEF Idles
  <2>2. PrepareNext(lv) = [lv EXCEPT !.remaining = IF lv.mode = "BLINKING_5Hz" THEN 1 ELSE 5,
                                     !.pending = 1, !.state = 1 - lv.state]
        /\ Near(lv) = IF lv.mode = "BLINKING_5Hz" THEN 1 ELSE 5
        BY <1>2 DEF PrepareNext, Near
  <2>3. /\ PrepareNext(lv).mode = lv.mode /\ PrepareNext(lv).pending = 1
        /\ PrepareNext(lv).remaining \in {1, 5}
        /\ PrepareNext(lv).state \in {0, 1} /\ PrepareNext(lv).pin = lv.pin
        BY <2>2 DEF LedRec
  <2>4. PrepareNext(lv) \in LedRec
    <3> DEFINE R == IF lv.mode = "BLINKING_5Hz" THEN 1 ELSE 5
    <3>1. lv = [mode |-> lv.mode, state |-> lv.state, pending |-> lv.pending,
                remaining |-> lv.remaining, pin |-> lv.pin]
          BY DEF LedRec
    <3>2. PrepareNext(lv) = [mode |-> lv.mode, state |-> 1 - lv.state, pending |-> 1,
                             remaining |-> R, pin |-> lv.pin]
          BY <2>2, <3>1
    <3>3. R \in -5 .. 5 /\ 1 - lv.state \in {0, 1}
          BY DEF LedRec
    <3> QED BY <3>2, <3>3 DEF LedRec
  <2>5. Near(lv) \in {1, 5} /\ Forever = -1
        BY <2>2 DEF Forever
  <2> QED BY <2>1, <2>3, <2>4, <2>5
<1> QED BY <1>1, <1>2

(* `if (mode == led->mode)`: the early return leaves the LED as settled as *)
(* it was; otherwise the mode is stored.                                   *)
LEMMA CheckModeIInv ==
    ASSUME IInv, NEW t \in Threads, CheckMode(t)
    PROVE  IInv'
<1> DEFINE l == arg[t].led
<1>1. pc[t] = "check" /\ arg[t] \in ArgRec /\ l \in Leds
      /\ UNCHANGED <<timer, owner, lockCount, arg, calls, age, due>>
      BY DEF CheckMode, IInv, ArgOK, ArgRec
<1>2. \A u \in Threads \ {t} : pc[u] \notin Critical
      BY <1>1, OthersOut DEF Critical
<1>3. CASE arg[t].mode = leds[l].mode
  <2>1. pc' = [pc EXCEPT ![t] = "idle"] /\ leds' = leds
        BY <1>3 DEF CheckMode
  <2>2. \A u \in Threads : pc'[u] \notin {"state", "prep", "arm", "unlock"}
        BY <1>1, <1>2, <2>1 DEF IInv, TypeOK, Critical
  <2>3. TypeOK' /\ LockOK' /\ Excl' /\ ArgOK'
        BY <1>1, <1>2, <2>1 DEF IInv, TypeOK, LockOK, Excl, ArgOK, Critical
  <2>4. ModeOK' /\ PrepOK' /\ ArmOK' /\ NearOK'
        BY <2>2 DEF ModeOK, PrepOK, ArmOK, NearOK
  <2>5. SettleOK'
        BY <1>1, <1>2, <2>1, <2>2 DEF IInv, SettleOK, Settled, Critical, TypeOK
  <2>6. RemOK' /\ TimerOK' /\ PendingLedHasTimer'
        BY <1>1, <2>1, <2>2 DEF IInv, RemOK, TimerOK, PendingLedHasTimer
  <2> QED BY <2>3, <2>4, <2>5, <2>6 DEF IInv
<1>4. CASE arg[t].mode # leds[l].mode
  <2>1. leds' = [leds EXCEPT ![l].mode = arg[t].mode]
        /\ pc' = [pc EXCEPT ![t] = "state"]
        BY <1>4 DEF CheckMode
  <2>2. /\ \A k \in Leds \ {l} : leds'[k] = leds[k]
        /\ leds'[l] = [leds[l] EXCEPT !.mode = arg[t].mode]
        /\ \A u \in Threads \ {t} : pc'[u] = pc[u]
        /\ pc'[t] = "state"
        BY <2>1, <1>1 DEF IInv, TypeOK
  <2>3. TypeOK'
        BY <1>1, <2>1, <2>2 DEF IInv, TypeOK, ArgRec
  <2>4. LockOK' /\ Excl' /\ ArgOK'
        BY <1>1, <2>2 DEF IInv, LockOK, Excl, ArgOK, Critical, TypeOK
  <2>5. ModeOK' /\ PrepOK' /\ ArmOK' /\ NearOK'
        BY <1>1, <1>2, <2>2 DEF IInv, ModeOK, PrepOK, ArmOK, NearOK, Critical, TypeOK
  <2>6. SettleOK'
        BY <1>1, <2>2 DEF IInv, SettleOK, Settled, TypeOK
  <2>7. RemOK' /\ TimerOK' /\ PendingLedHasTimer'
        BY <1>1, <1>2, <2>2 DEF IInv, RemOK, TimerOK, PendingLedHasTimer, TypeOK, Critical
  <2> QED BY <2>3, <2>4, <2>5, <2>6, <2>7 DEF IInv
<1> QED BY <1>3, <1>4

(* led->state and the pin are set for the new mode.                        *)
LEMMA SetStateIInv ==
    ASSUME IInv, NEW t \in Threads, SetState(t)
    PROVE  IInv'
<1> DEFINE l == arg[t].led
           s == IF arg[t].mode # "OFF" THEN 1 ELSE 0
<1>1. pc[t] = "state" /\ arg[t] \in ArgRec /\ l \in Leds
      /\ leds' = [leds EXCEPT ![l].state = s, ![l].pin = s]
      /\ pc' = [pc EXCEPT ![t] = "prep"]
      /\ UNCHANGED <<timer, owner, lockCount, arg, calls, age, due>>
      BY DEF SetState, IInv, ArgOK, ArgRec
<1>2. \A u \in Threads \ {t} : pc[u] \notin Critical
      BY <1>1, OthersOut DEF Critical
<1>3. /\ \A k \in Leds \ {l} : leds'[k] = leds[k]
      /\ leds'[l] = [leds[l] EXCEPT !.state = s, !.pin = s]
      /\ \A u \in Threads \ {t} : pc'[u] = pc[u]
      /\ pc'[t] = "prep"
      BY <1>1 DEF IInv, TypeOK
<1>4. s = Val(arg[t].mode) /\ s \in {0, 1}
      BY DEF Val
<1>5. TypeOK'
      BY <1>1, <1>3, <1>4 DEF IInv, TypeOK
<1>6. LockOK' /\ Excl' /\ ArgOK'
      BY <1>1, <1>3 DEF IInv, LockOK, Excl, ArgOK, Critical, TypeOK
<1>7. ModeOK' /\ NearOK'
      BY <1>1, <1>2, <1>3 DEF IInv, ModeOK, NearOK, Critical, TypeOK
<1>8. PrepOK'
      BY <1>1, <1>2, <1>3, <1>4 DEF IInv, PrepOK, ModeOK, Critical, TypeOK
<1>9. ArmOK'
      BY <1>1, <1>2, <1>3 DEF IInv, ArmOK, Settled, Critical, TypeOK
<1>10. SettleOK'
      BY <1>1, <1>3 DEF IInv, SettleOK, Settled, TypeOK
<1>11. RemOK' /\ TimerOK' /\ PendingLedHasTimer'
      BY <1>1, <1>2, <1>3 DEF IInv, RemOK, TimerOK, PendingLedHasTimer, TypeOK, Critical
<1> QED BY <1>5, <1>6, <1>7, <1>8, <1>9, <1>10, <1>11 DEF IInv

(* near_process = led_prepare_next(led): an LED set OFF or STEADY is no    *)
(* longer pending, and a K_FOREVER timeout goes with an idle LED.          *)
LEMMA PrepIInv ==
    ASSUME IInv, NEW t \in Threads, Prep(t)
    PROVE  IInv'
<1> DEFINE l == arg[t].led
<1>1. pc[t] = "prep" /\ arg[t] \in ArgRec /\ l \in Leds /\ leds[l] \in LedRec
      /\ leds' = [leds EXCEPT ![l] = PrepareNext(@)]
      /\ arg' = [arg EXCEPT ![t].near = Near(leds[l])]
      /\ pc' = [pc EXCEPT ![t] = "arm"]
      /\ UNCHANGED <<timer, owner, lockCount, calls, age>>
      BY DEF Prep, IInv, ArgOK, ArgRec, TypeOK, LedRec
<1>2. \A u \in Threads \ {t} : pc[u] \notin Critical
      BY <1>1, OthersOut DEF Critical
<1>3. /\ \A k \in Leds \ {l} : leds'[k] = leds[k]
      /\ leds'[l] = PrepareNext(leds[l])
      /\ \A u \in Threads \ {t} : pc'[u] = pc[u] /\ arg'[u] = arg[u]
      /\ pc'[t] = "arm"
      /\ arg'[t] = [arg[t] EXCEPT !.near = Near(leds[l])]
      /\ DOMAIN arg' = Threads
      BY <1>1 DEF IInv, TypeOK, ArgOK
<1>4. arg'[t] \in ArgRec /\ arg'[t].led = l /\ arg'[t].mode = arg[t].mode
      BY <1>1, <1>3, PrepareNextFacts DEF ArgRec
<1>5. leds[l].mode = arg[t].mode
      BY <1>1 DEF IInv, ModeOK
<1>6. TypeOK'
      BY <1>1, <1>3, PrepareNextFacts DEF IInv, TypeOK, LedRec
<1>7. LockOK' /\ Excl' /\ ArgOK'
      BY <1>1, <1>3, <1>4 DEF IInv, LockOK, Excl, ArgOK, Critical, TypeOK
<1>8. ModeOK' /\ PrepOK'
      BY <1>1, <1>2, <1>3, <1>4, <1>5, PrepareNextFacts
      DEF IInv, ModeOK, PrepOK, Critical, TypeOK
<1>9. ArmOK'
  <2>1. Settled(l)'
        BY <1>1, <1>3, <1>5, PrepareNextFacts DEF IInv, PrepOK, Settled
  <2> QED BY <1>2, <1>3, <1>4, <2>1 DEF ArmOK, Critical, IInv, TypeOK
<1>10. NearOK'
      BY <1>1, <1>2, <1>3, <1>4, PrepareNextFacts DEF NearOK, Critical, IInv, TypeOK
<1>11. SettleOK'
      BY <1>1, <1>3, <1>4 DEF IInv, SettleOK, Settled, TypeOK
<1>12. RemOK' /\ TimerOK'
      BY <1>1, <1>3, PrepareNextFacts DEF IInv, RemOK, TimerOK
<1>13. PendingLedHasTimer'
      BY <1>1, <1>2, <1>3, <1>4 DEF IInv, PendingLedHasTimer, TypeOK, Critical
<1> QED BY <1>6, <1>7, <1>8, <1>9, <1>10, <1>11, <1>12, <1>13 DEF IInv

(* The timer is started if the LED needs it and it is stopped: after this *)
(* step every pending LED has a running timer.                             *)
LEMMA ArmIInv ==
    ASSUME IInv, NEW t \in Threads, Arm(t)
    PROVE  IInv'
<1> DEFINE l == arg[t].led
<1>1. /\ pc[t] = "arm" /\ arg[t] \in ArgRec /\ l \in Leds
      /\ timer' = IF arg[t].near # Forever /\ ~timer.running
                  THEN Start(arg[t].near) ELSE timer
      /\ pc' = [pc EXCEPT ![t] = "unlock"]
      /\ UNCHANGED <<leds, owner, lockCount, arg, calls, due>>
      BY DEF Arm, IInv, ArgOK, ArgRec
<1>2. \A u \in Threads \ {t} : pc[u] \notin Critical
      BY <1>1, OthersOut DEF Critical
<1>3. /\ \A u \in Threads \ {t} : pc'[u] = pc[u]
      /\ pc'[t] = "unlock"
      BY <1>1 DEF IInv, TypeOK
<1>4. /\ timer' \in [running : BOOLEAN, period : {0, 1, 5}, left : 0 .. 5]
      /\ TimerOK'
      /\ timer.running => timer'.running
      /\ arg[t].near # Forever => timer'.running
      BY <1>1 DEF IInv, TypeOK, TimerOK, Start, ArgRec, Forever
<1>5. TypeOK' /\ LockOK' /\ Excl' /\ ArgOK'
      BY <1>1, <1>3, <1>4 DEF IInv, TypeOK, LockOK, Excl, ArgOK, Critical
<1>6. ModeOK' /\ PrepOK' /\ ArmOK' /\ NearOK'
      BY <1>1, <1>2, <1>3 DEF IInv, ModeOK, PrepOK, ArmOK, NearOK, Settled, Critical, TypeOK
<1>7. SettleOK' /\ RemOK'
      BY <1>1, <1>3 DEF IInv, SettleOK, Settled, RemOK, TypeOK
<1>8. PendingLedHasTimer'
  <2> SUFFICES ASSUME NEW k \in Leds, leds'[k].pending = 1,
                      ~\E u \in Threads : pc'[u] = "arm" /\ arg'[u].led = k
               PROVE  timer'.running
      BY DEF PendingLedHasTimer
  <2>0. leds'[k] = leds[k] /\ arg' = arg
        BY <1>1
  <2>1. CASE k = l
    <3>1. arg[t].near # Forever
          BY <1>1, <2>0, <2>1 DEF IInv, NearOK
    <3> QED BY <1>4, <3>1
  <2>2. CASE k # l
    <3>1. ASSUME NEW u \in Threads, pc[u] = "arm", arg[u].led = k PROVE FALSE
      <4>1. CASE u = t
            BY <2>2, <3>1, <4>1
      <4>2. CASE u # t
            BY <1>2, <3>1, <4>2 DEF Critical
      <4> QED BY <4>1, <4>2
    <3> QED BY <1>1, <1>4, <3>1 DEF IInv, PendingLedHasTimer
  <2> QED BY <2>1, <2>2
<1> QED BY <1>4, <1>5, <1>6, <1>7, <1>8 DEF IInv

(* k_mutex_unlock: the owner leaves led_set_mode with its LED settled.    *)
LEMMA UnlockIInv ==
    ASSUME IInv, NEW t \in Threads, Unlock(t)
    PROVE  IInv'
<1>0. /\ pc[t] = "unlock"
      /\ lockCount' = lockCount - 1
      /\ owner' = IF lockCount = 1 THEN NoOwner ELSE owner
      /\ pc' = [pc EXCEPT ![t] = "idle"]
      /\ leds' = leds /\ timer' = timer /\ arg' = arg /\ calls' = calls
      BY DEF Unlock
<1>1. /\ pc[t] = "unlock" /\ arg[t] \in ArgRec
      /\ lockCount' = lockCount - 1
      /\ owner' = IF lockCount = 1 THEN NoOwner ELSE owner
      /\ pc' = [pc EXCEPT ![t] = "idle"]
      /\ leds' = leds /\ timer' = timer /\ arg' = arg /\ calls' = calls
      BY <1>0 DEF IInv, ArgOK
<1>2. \A u \in Threads \ {t} : pc[u] \notin Critical
      BY <1>1, OthersOut DEF Critical
<1>3. owner = t /\ lockCount \in Nat \ {0}
      BY <1>1, UserIOAssumption DEF IInv, Excl, Critical, LockOK, TypeOK
<1>4. /\ \A u \in Threads \ {t} : pc'[u] = pc[u]
      /\ pc'[t] = "idle"
      BY <1>1 DEF IInv, TypeOK
<1>5. TypeOK' /\ LockOK'
      BY <1>1, <1>3, <1>4, UserIOAssumption DEF IInv, TypeOK, LockOK
<1>6. Excl' /\ ArgOK'
      BY <1>1, <1>2, <1>4 DEF IInv, Excl, ArgOK, Critical
<1>7. ModeOK' /\ PrepOK' /\ ArmOK' /\ NearOK'
      BY <1>1, <1>2, <1>4 DEF IInv, ModeOK, PrepOK, ArmOK, NearOK, Critical
<1>8. SettleOK'
      BY <1>1, <1>2, <1>4 DEF IInv, SettleOK, ArmOK, Settled, Critical
<1>9. RemOK' /\ TimerOK' /\ PendingLedHasTimer'
      BY <1>1, <1>4 DEF IInv, RemOK, TimerOK, PendingLedHasTimer
<1> QED BY <1>5, <1>6, <1>7, <1>8, <1>9 DEF IInv

-----------------------------------------------------------------------------
(* The LET definitions of LedProcess (led_process), named for the proofs. *)
PendingSet == {l \in Leds : leds[l].pending = 1}
DecRec(l) == [leds[l] EXCEPT !.remaining = @ - timer.period]
FiredSet == {l \in PendingSet : DecRec(l).remaining <= 0}
FireRec(l) == [DecRec(l) EXCEPT !.pin = DecRec(l).state]
Nears == {Near(FireRec(l)) : l \in FiredSet} \ {Forever}
NextPeriod == IF PendingSet = {} THEN Forever ELSE Least({5} \cup Nears)

(* The least of the periods led_process compares is 1 or 5 ticks.        *)
LEMMA LeastIn ==
    ASSUME NEW S, S \subseteq {1, 5}, 5 \in S
    PROVE  Least(S) \in {1, 5}
<1>1. \E x \in S : \A y \in S : x <= y
  <2>1. CASE 1 \in S
        BY <2>1
  <2>2. CASE 1 \notin S
        BY <2>2
  <2> QED BY <2>1, <2>2
<1> QED BY <1>1 DEF Least

(* led_process, written with the names above.                              *)
LEMMA LedProcessFacts ==
    ASSUME LedProcess
    PROVE  /\ Expired
           /\ leds' = [l \in Leds |-> IF l \in FiredSet THEN PrepareNext(FireRec(l))
                                      ELSE IF l \in PendingSet THEN DecRec(l)
                                      ELSE leds[l]]
           /\ timer' = IF NextPeriod = Forever THEN [timer EXCEPT !.running = FALSE]
                       ELSE IF NextPeriod # timer.period THEN Start(NextPeriod)
                       ELSE [timer EXCEPT !.left = timer.period]
           /\ UNCHANGED <<owner, lockCount, pc, arg, calls>>
BY DEF LedProcess, PendingSet, DecRec, FiredSet, FireRec, Nears, NextPeriod

(* What led_process does to one LED: its mode is kept, an LED that is not *)
(* pending is left alone, a pending one gets 1 .. 5 ticks to go, and an    *)
(* OFF or STEADY LED keeps the pin and the state it shows.                 *)
LEMMA LedProcessLed ==
    ASSUME IInv, LedProcess, NEW l \in Leds
    PROVE  /\ leds'[l].mode = leds[l].mode
           /\ leds[l].pending = 0 => leds'[l] = leds[l]
           /\ leds'[l] \in LedRec
           /\ leds'[l].pending = 1 => leds'[l].remaining \in 1 .. 5
           /\ /\ leds[l].mode \in {"OFF", "STEADY"}
              /\ leds[l].pin = Val(leds[l].mode)
              /\ leds[l].state = Val(leds[l].mode)
              => leds'[l].pin = Val(leds[l].mode)
                 /\ leds'[l].state = Val(leds[l].mode)
<1> DEFINE lv == leds[l]
<1>1. lv \in LedRec
      BY DEF IInv, TypeOK, LedRec
<1>2. timer.running /\ timer.period \in {1, 5}
      BY LedProcessFacts DEF Expired, IInv, TimerOK
<1>3. lv = [mode |-> lv.mode, state |-> lv.state, pending |-> lv.pending,
            remaining |-> lv.remaining, pin |-> lv.pin]
      BY <1>1 DEF LedRec
<1>4. DecRec(l) = [mode |-> lv.mode, state |-> lv.state, pending |-> lv.pending,
                   remaining |-> lv.remaining - timer.period, pin |-> lv.pin]
      BY <1>3 DEF DecRec
<1>5. CASE l \in FiredSet
  <2>1. lv.pending = 1 /\ lv.remaining \in 1 .. 5
        /\ lv.remaining - timer.period <= 0
        BY <1>4, <1>5 DEF FiredSet, PendingSet, IInv, RemOK
  <2>2. FireRec(l) = [mode |-> lv.mode, state |-> lv.state, pending |-> 1,
                      remaining |-> lv.remaining - timer.period, pin |-> lv.state]
        BY <1>4, <2>1 DEF FireRec
  <2>3. leds'[l] = PrepareNext(FireRec(l))
        BY <1>5, LedProcessFacts
  <2>4. lv.remaining - timer.period \in -5 .. 5
        BY <1>2, <2>1
  <2>5. CASE Idles(FireRec(l))
    <3>1. leds'[l] = [mode |-> lv.mode, state |-> lv.state, pending |-> 0,
                      remaining |-> lv.remaining - timer.period, pin |-> lv.state]
          BY <2>2, <2>3, <2>5 DEF PrepareNext
    <3> QED BY <1>1, <2>1, <2>4, <3>1 DEF LedRec
  <2>6. CASE ~Idles(FireRec(l))
    <3>1. leds'[l] = [mode |-> lv.mode, state |-> 1 - lv.state, pending |-> 1,
                      remaining |-> IF lv.mode = "BLINKING_5Hz" THEN 1 ELSE 5,
                      pin |-> lv.state]
      <4> DEFINE F == [mode |-> lv.mode, state |-> lv.state, pending |-> 1,
                       remaining |-> lv.remaining - timer.period, pin |-> lv.state]
      <4>1. leds'[l] = PrepareNext(F) /\ ~Idles(F)
            BY <2>2, <2>3, <2>6
      <4>2. leds'[l] = [F EXCEPT
                          !.remaining = IF F.mode = "BLINKING_5Hz" THEN 1 ELSE 5,
                          !.pending = 1, !.state = 1 - F.state]
            BY <4>1 DEF PrepareNext
      <4> QED BY <4>2
    <3>2. ~(lv.mode \in {"OFF", "STEADY"})
          BY <2>2, <2>6 DEF Idles
    <3> QED BY <1>1, <2>1, <3>1, <3>2 DEF LedRec
  <2> QED BY <2>5, <2>6
<1>6. CASE l \in PendingSet \ FiredSet
  <2>1. lv.pending = 1 /\ lv.remaining \in 1 .. 5
        /\ lv.remaining - timer.period > 0
        BY <1>2, <1>4, <1>6 DEF FiredSet, PendingSet, IInv, RemOK
  <2>2. leds'[l] = DecRec(l)
        BY <1>6, LedProcessFacts
  <2> QED BY <1>1, <1>2, <1>4, <2>1, <2>2 DEF LedRec
<1>7. CASE l \notin PendingSet
  <2>1. leds'[l] = lv /\ lv.pending = 0
        BY <1>1, <1>7, LedProcessFacts DEF FiredSet, PendingSet, LedRec
  <2> QED BY <1>1, <2>1
<1> QED BY <1>5, <1>6, <1>7

(* led_process keeps the invariant: it touches pending LEDs only, and it  *)
(* restarts the timer with a period of 1 or 5 ticks while one is left.    *)
LEMMA LedProcessIInv ==
    ASSUME IInv, LedProcess
    PROVE  IInv'
<1>1. /\ timer.running /\ timer.period \in {1, 5}
      /\ timer \in [running : BOOLEAN, period : {0, 1, 5}, left : 0 .. 5]
      /\ UNCHANGED <<owner, lockCount, pc, arg, calls>>
      BY LedProcessFacts DEF Expired, IInv, TypeOK, TimerOK
<1>2. \A l \in Leds :
           /\ leds'[l].mode = leds[l].mode
           /\ leds[l].pending = 0 => leds'[l] = leds[l]
           /\ leds'[l] \in LedRec
           /\ leds'[l].pending = 1 => leds'[l].remaining \in 1 .. 5
           /\ /\ leds[l].mode \in {"OFF", "STEADY"}
              /\ leds[l].pin = Val(leds[l].mode)
              /\ leds[l].state = Val(leds[l].mode)
              => leds'[l].pin = Val(leds[l].mode)
                 /\ leds'[l].state = Val(leds[l].mode)
      BY LedProcessLed
<1>3. leds' \in [Leds -> LedRec]
      BY <1>2, LedProcessFacts
<1>4. PendingSet = {} =>
         /\ timer' = [timer EXCEPT !.running = FALSE]
         /\ \A l \in Leds : leds[l].pending = 0
  <2> SUFFICES ASSUME PendingSet = {}
               PROVE  /\ timer' = [timer EXCEPT !.running = FALSE]
                      /\ \A l \in Leds : leds[l].pending = 0
      OBVIOUS
  <2>1. timer' = [timer EXCEPT !.running = FALSE]
        BY LedProcessFacts DEF NextPeriod
  <2>2. \A l \in Leds : leds[l].pending = 0
        BY DEF PendingSet, IInv, TypeOK
  <2> QED BY <2>1, <2>2
<1>5. PendingSet # {} =>
         /\ \/ \E d \in {1, 5} : timer' = [running |-> TRUE, period |-> d, left |-> d]
            \/ timer' = [timer EXCEPT !.left = timer.period]
         /\ timer'.running /\ timer'.period \in {1, 5}
  <2> SUFFICES ASSUME PendingSet # {}
               PROVE  /\ \/ \E d \in {1, 5} : timer' = [running |-> TRUE, period |-> d, left |-> d]
                         \/ timer' = [timer EXCEPT !.left = timer.period]
                      /\ timer'.running /\ timer'.period \in {1, 5}
      OBVIOUS
  <2>1. Nears \subseteq {1, 5}
        BY DEF Nears, Near, Forever
  <2>2. NextPeriod \in {1, 5}
        BY <2>1, LeastIn DEF NextPeriod
  <2>3. NextPeriod # Forever
        BY <2>2 DEF Forever
  <2>4. CASE NextPeriod # timer.period
    <3>1. timer' = [running |-> TRUE, period |-> NextPeriod, left |-> NextPeriod]
          BY <2>3, <2>4, LedProcessFacts DEF Start
    <3> QED BY <2>2, <3>1
  <2>5. CASE NextPeriod = timer.period
    <3>1. timer' = [timer EXCEPT !.left = timer.period]
          BY <2>3, <2>5, LedProcessFacts
    <3> QED BY <1>1, <3>1
  <2> QED BY <2>4, <2>5
<1>6. timer' \in [running : BOOLEAN, period : {0, 1, 5}, left : 0 .. 5]
      /\ TimerOK'
  <2>1. CASE PendingSet = {}
        BY <1>1, <1>4, <2>1 DEF TimerOK
  <2>2. CASE PendingSet # {}
    <3>1. timer' \in [running : BOOLEAN, period : {0, 1, 5}, left : 0 .. 5]
      <4>1. CASE \E d \in {1, 5} : timer' = [running |-> TRUE, period |-> d, left |-> d]
            BY <4>1
      <4>2. CASE timer' = [timer EXCEPT !.left = timer.period]
            BY <1>1, <4>2
      <4> QED BY <1>5, <2>2, <4>1, <4>2
    <3> QED BY <1>5, <2>2, <3>1 DEF TimerOK
  <2> QED BY <2>1, <2>2
<1>7. TypeOK' /\ LockOK' /\ Excl' /\ ArgOK'
      BY <1>1, <1>3, <1>6 DEF IInv, TypeOK, LockOK, Excl, ArgOK, LedRec
<1>8. ModeOK' /\ NearOK' /\ RemOK'
      BY <1>1, <1>2 DEF IInv, ModeOK, NearOK, RemOK, ArgOK, ArgRec
<1>9. PrepOK'
      BY <1>1, <1>2 DEF IInv, PrepOK, ModeOK, ArgOK, ArgRec
<1>10. \A l \in Leds : Settled(l) => Settled(l)'
      BY <1>2 DEF Settled
<1>11. ArmOK' /\ SettleOK'
      BY <1>1, <1>10 DEF IInv, ArmOK, SettleOK, ArgOK, ArgRec
<1>12. PendingLedHasTimer'
  <2> SUFFICES ASSUME NEW k \in Leds, leds'[k].pending = 1
               PROVE  timer'.running
      BY DEF PendingLedHasTimer
  <2>1. PendingSet # {}
        BY <1>2, <1>4
  <2> QED BY <1>5, <2>1
<1> QED BY <1>6, <1>7, <1>8, <1>9, <1>11, <1>12 DEF IInv

(* A tick counts a running timer down but never past 0: the interrupt of *)
(* an expired timer runs first.                                            *)
LEMMA TickIInv ==
    ASSUME IInv, Tick
    PROVE  IInv'
<1>1. /\ ~Expired
      /\ timer' = IF timer.running THEN [timer EXCEPT !.left = @ - 1] ELSE timer
      /\ UNCHANGED <<leds, owner, lockCount, pc, arg, calls>>
      BY DEF Tick
<1>2. /\ timer' \in [running : BOOLEAN, period : {0, 1, 5}, left : 0 .. 5]
      /\ timer'.running = timer.running /\ timer'.period = timer.period
      BY <1>1 DEF Expired, IInv, TypeOK
<1>3. TypeOK' /\ TimerOK' /\ PendingLedHasTimer'
      BY <1>1, <1>2 DEF IInv, TypeOK, TimerOK, PendingLedHasTimer
<1>4. LockOK' /\ Excl' /\ ArgOK' /\ ModeOK' /\ PrepOK' /\ ArmOK' /\ NearOK'
      BY <1>1 DEF IInv, LockOK, Excl, ArgOK, ModeOK, PrepOK, ArmOK, NearOK, Settled
<1>5. SettleOK' /\ RemOK'
      BY <1>1 DEF IInv, SettleOK, Settled, RemOK
<1> QED BY <1>3, <1>4, <1>5 DEF IInv

-----------------------------------------------------------------------------
LEMMA NextIInv == IInv /\ [Next]_vars => IInv'
<1> SUFFICES ASSUME IInv, [Next]_vars PROVE IInv'
    OBVIOUS
<1>1. ASSUME NEW t \in Threads,
             \/ UserIoInit(t)
             \/ \E l \in Leds, m \in Modes : Call(t, l, m)
             \/ Lock(t) \/ CheckMode(t) \/ SetState(t) \/ Prep(t) \/ Arm(t)
             \/ Unlock(t)
      PROVE  IInv'
      BY <1>1, UserIoInitIInv, CallIInv, LockIInv, CheckModeIInv, SetStateIInv,
         PrepIInv, ArmIInv, UnlockIInv
<1>2. CASE LedProcess
      BY <1>2, LedProcessIInv
<1>3. CASE Tick
      BY <1>3, TickIInv
<1>4. CASE UNCHANGED vars
      BY <1>4 DEF vars, IInv, TypeOK, LockOK, Excl, ArgOK, ModeOK, PrepOK,
         ArmOK, SettleOK, Settled, NearOK, RemOK, TimerOK, PendingLedHasTimer
<1> QED BY <1>1, <1>2, <1>3, <1>4 DEF Next

(* IInv holds in every reachable state.                                     *)
LEMMA AlwaysIInv == Spec => []IInv
BY InitIInv, NextIInv, PTL DEF Spec

(* The LED table, the timer, the k_mutex and the threads' places keep     *)
(* their types in every run of user_io_init, led_set_mode and led_process.*)
THEOREM TypeCorrect == Spec => []TypeOK
<1>1. IInv => TypeOK
      BY DEF IInv
<1> QED BY <1>1, AlwaysIInv, PTL

(* The k_mutex of led_set_mode excludes: every thread between its         *)
(* k_mutex_lock and its k_mutex_unlock is the mutex's owner, so at most one *)
(* thread is there at a time.                                              *)
THEOREM MutexExcludes == Spec => []Excl
<1>1. IInv => Excl
      BY DEF IInv
<1> QED BY <1>1, AlwaysIInv, PTL

(* Between calls of led_set_mode, an LED set OFF is dark and one set       *)
(* STEADY is lit, and neither is pending, whatever led_process, preempting *)
(* the thread at any step, did in between.                                 *)
THEOREM LedsSettled == Spec => []SettledPins
<1>1. IInv => SettledPins
  <2> SUFFICES ASSUME IInv, NEW l \in Leds,
                      \A t \in Threads : pc[t] \in {"init", "idle", "lock"}
                                         \/ arg[t].led # l
               PROVE  /\ leds[l].mode = "OFF" => leds[l].pin = 0 /\ leds[l].pending = 0
                      /\ leds[l].mode = "STEADY" => leds[l].pin = 1 /\ leds[l].pending = 0
      BY DEF SettledPins
  <2>1. Settled(l)
        BY DEF IInv, SettleOK
  <2> QED BY <2>1 DEF Settled, Val
<1> QED BY <1>1, AlwaysIInv, PTL

(* Every pending LED has the led_process timer running, except while the  *)
(* thread that set it is about to start the timer: no LED is left blinking *)
(* with nothing to toggle it.                                              *)
THEOREM TimerServesPending == Spec => []PendingLedHasTimer
<1>1. IInv => PendingLedHasTimer
      BY DEF IInv
<1> QED BY <1>1, AlwaysIInv, PTL

====
