------------------------------- MODULE UserIO -------------------------------
(***************************************************************************)
(* The LEDs of src/src/user_io.c.  Threads call led_set_mode under a       *)
(* Zephyr k_mutex; a periodic k_timer runs led_process in interrupt        *)
(* context, without the mutex, and may preempt a thread between any two    *)
(* steps.  Time advances in ticks of 100 ms, the unit of every timeout     *)
(* the code sets (K_MSEC(100 * remaining)).                                *)
(*                                                                         *)
(* The k_mutex is recursive: its owner may lock it again, and it is free   *)
(* once the owner has unlocked it as often as it locked it.                *)
(***************************************************************************)
EXTENDS Integers, FiniteSets

CONSTANTS
    Leds,          \* the LEDs of `struct leds`
    Threads,       \* threads that call into user_io
    Main,          \* the thread that runs user_io_init
    NoOwner,       \* the owner of an unlocked mutex
    SetModes,      \* the modes threads pass to led_set_mode
    MaxCalls,      \* bound: led_set_mode calls per thread
    MaxAge,        \* bound: the age of an LED saturates here (keeps time finite)
    INIT_MAY_FAIL  \* whether a device of user_io_init may be not ready

Modes == {"OFF", "STEADY", "FLASHING", "BLINKING_1Hz", "BLINKING_5Hz"}
Forever == -1      \* K_FOREVER; every other timeout is a number of ticks

ASSUME UserIOAssumption ==
    /\ Main \in Threads /\ NoOwner \notin Threads
    /\ SetModes \subseteq Modes
    /\ MaxCalls \in Nat /\ MaxAge \in Nat /\ INIT_MAY_FAIL \in BOOLEAN

VARIABLES
    leds,      \* [Leds -> [mode, state, pending, remaining, pin]]
    timer,     \* [running, period, left]: the k_timer, left ticks to expiry
    owner,     \* mutex owner
    lockCount, \* mutex lock count
    pc,        \* [Threads -> where the thread is]
    arg,       \* [Threads -> [led, mode, near]] led_set_mode's locals
    calls,     \* [Threads -> Nat] led_set_mode calls made
    age,       \* [Leds -> Nat] ticks since the LED was last scheduled
    due        \* [Leds -> Nat] the delay that scheduling intended

vars == <<leds, timer, owner, lockCount, pc, arg, calls, age, due>>

-----------------------------------------------------------------------------
(* led_prepare_next on an LED record: a LED that is OFF, STEADY or an     *)
(* unlit FLASHING one is no longer pending; otherwise `remaining` is set   *)
(* and the state toggled.  A lit FLASHING LED sets remaining = 1 and then, *)
(* for want of a break, falls through to the 1 Hz case, which sets 5.     *)
Idles(lv) ==
    lv.mode \in {"OFF", "STEADY"} \/ (lv.mode = "FLASHING" /\ lv.state = 0)

(* Faulty variant of PrepareNext: a 1 Hz period taken as 1000 ms per     *)
(* toggle instead of 500.                                                  *)
PrepareNextFullPeriod(lv) ==
    IF Idles(lv) THEN [lv EXCEPT !.pending = 0]
    ELSE [lv EXCEPT !.remaining = IF lv.mode = "BLINKING_5Hz" THEN 1 ELSE 10,
                    !.pending = 1, !.state = 1 - lv.state]

PrepareNext(lv) ==
    IF Idles(lv) THEN [lv EXCEPT !.pending = 0]
    ELSE [lv EXCEPT !.remaining = IF lv.mode = "BLINKING_5Hz" THEN 1 ELSE 5,
                    !.pending = 1, !.state = 1 - lv.state]

(* The timeout led_prepare_next returns, in ticks.                        *)
Near(lv) == IF Idles(lv) THEN Forever
            ELSE IF lv.mode = "BLINKING_5Hz" THEN 1 ELSE 5

(* The delay the code means to schedule: line 39 sets remaining = 1 for   *)
(* the lit half of a flash before the fall-through overwrites it.          *)
Intended(lv) ==
    IF lv.mode = "BLINKING_5Hz" \/ lv.mode = "FLASHING" THEN 1 ELSE 5

Least(S) == CHOOSE x \in S : \A y \in S : x <= y

(* k_timer_start(timer, d, d).                                             *)
Start(d) == [running |-> TRUE, period |-> d, left |-> d]

(* An interrupt is due: the timer has expired and led_process runs before *)
(* any thread or any further tick.                                        *)
Expired == timer.running /\ timer.left = 0

Init ==
    /\ leds = [l \in Leds |-> [mode |-> "OFF", state |-> 0, pending |-> 0,
                               remaining |-> 0, pin |-> 0]]
    /\ timer = [running |-> FALSE, period |-> 0, left |-> 0]
    /\ owner = NoOwner /\ lockCount = 0
    /\ pc = [t \in Threads |-> IF t = Main THEN "init" ELSE "idle"]
    /\ arg = [t \in Threads |-> [led |-> CHOOSE l \in Leds : TRUE,
                                 mode |-> "OFF", near |-> Forever]]
    /\ calls = [t \in Threads |-> 0]
    /\ age = [l \in Leds |-> 0] /\ due = [l \in Leds |-> 0]

-----------------------------------------------------------------------------
(* k_mutex_lock(&mutex, K_FOREVER): blocks while another thread owns it.  *)
CanLock(t) == owner \in {NoOwner, t}

(* user_io_init: lock; the button and the LED pins are configured; a      *)
(* device that is not ready makes it `goto exit`, which returns without    *)
(* k_mutex_unlock.                                                         *)
UserIoInit(t) ==
    /\ pc[t] = "init" /\ ~Expired /\ CanLock(t)
    /\ \/ UNCHANGED <<owner, lockCount>>
       \/ /\ INIT_MAY_FAIL
          /\ owner' = t /\ lockCount' = lockCount + 1
    /\ pc' = [pc EXCEPT ![t] = "idle"]
    /\ UNCHANGED <<leds, timer, arg, calls, age, due>>

(***************************************************************************)
(* led_set_mode(led, mode), one action per step the ISR may split.        *)
(***************************************************************************)
Call(t, l, m) ==
    /\ pc[t] = "idle" /\ ~Expired /\ calls[t] < MaxCalls /\ m \in SetModes
    /\ pc' = [pc EXCEPT ![t] = "lock"]
    /\ arg' = [arg EXCEPT ![t] = [led |-> l, mode |-> m, near |-> Forever]]
    /\ calls' = [calls EXCEPT ![t] = @ + 1]
    /\ UNCHANGED <<leds, timer, owner, lockCount, age, due>>

Lock(t) ==
    /\ pc[t] = "lock" /\ ~Expired /\ CanLock(t)
    /\ owner' = t /\ lockCount' = lockCount + 1
    /\ pc' = [pc EXCEPT ![t] = "check"]
    /\ UNCHANGED <<leds, timer, arg, calls, age, due>>

(* `if (mode == led->mode) return;` -- with the mutex still locked --      *)
(* else led->mode = mode.                                                  *)
CheckMode(t) ==
    LET l == arg[t].led IN
    /\ pc[t] = "check" /\ ~Expired
    /\ IF arg[t].mode = leds[l].mode
       THEN /\ pc' = [pc EXCEPT ![t] = "idle"] /\ leds' = leds
       ELSE /\ leds' = [leds EXCEPT ![l].mode = arg[t].mode]
            /\ pc' = [pc EXCEPT ![t] = "state"]
    /\ UNCHANGED <<timer, owner, lockCount, arg, calls, age, due>>

(* Faulty variant of SetState: the pin is driven before the state is set. *)
SetStateStalePin(t) ==
    LET l == arg[t].led
        s == IF arg[t].mode # "OFF" THEN 1 ELSE 0
    IN /\ pc[t] = "state" /\ ~Expired
       /\ leds' = [leds EXCEPT ![l].state = s, ![l].pin = leds[l].state]
       /\ pc' = [pc EXCEPT ![t] = "prep"]
       /\ UNCHANGED <<timer, owner, lockCount, arg, calls, age, due>>

(* led->state = mode != OFF; gpio_pin_set_dt(&led->spec, led->state).     *)
SetState(t) ==
    LET l == arg[t].led
        s == IF arg[t].mode # "OFF" THEN 1 ELSE 0
    IN /\ pc[t] = "state" /\ ~Expired
       /\ leds' = [leds EXCEPT ![l].state = s, ![l].pin = s]
       /\ pc' = [pc EXCEPT ![t] = "prep"]
       /\ UNCHANGED <<timer, owner, lockCount, arg, calls, age, due>>

(* near_process = led_prepare_next(led).                                   *)
Prep(t) ==
    LET l == arg[t].led IN
    /\ pc[t] = "prep" /\ ~Expired
    /\ leds' = [leds EXCEPT ![l] = PrepareNext(@)]
    /\ arg' = [arg EXCEPT ![t].near = Near(leds[l])]
    /\ due' = [due EXCEPT ![l] = Intended(leds[l])]
    /\ pc' = [pc EXCEPT ![t] = "arm"]
    /\ UNCHANGED <<timer, owner, lockCount, calls, age>>

(* A timeout other than K_FOREVER starts the timer, only if               *)
(* k_timer_remaining_get(&timer) == 0, i.e. it is stopped.  The LED's age *)
(* is counted from here.                                                   *)
Arm(t) ==
    /\ pc[t] = "arm" /\ ~Expired
    /\ timer' = IF arg[t].near # Forever /\ ~timer.running
                THEN Start(arg[t].near) ELSE timer
    /\ age' = [age EXCEPT ![arg[t].led] = 0]
    /\ pc' = [pc EXCEPT ![t] = "unlock"]
    /\ UNCHANGED <<leds, owner, lockCount, arg, calls, due>>

Unlock(t) ==
    /\ pc[t] = "unlock" /\ ~Expired
    /\ lockCount' = lockCount - 1
    /\ owner' = IF lockCount = 1 THEN NoOwner ELSE owner
    /\ pc' = [pc EXCEPT ![t] = "idle"]
    /\ UNCHANGED <<leds, timer, arg, calls, age, due>>

-----------------------------------------------------------------------------
(* Faulty variant of LedProcess: without the 500 ms default, a tick where *)
(* pending LEDs are not yet due stops the timer.                          *)
LedProcessNoDefault ==
    LET P == {l \in Leds : leds[l].pending = 1}
        Dec(l) == [leds[l] EXCEPT !.remaining = @ - timer.period]
        Fired == {l \in P : Dec(l).remaining <= 0}
        Fire(l) == [Dec(l) EXCEPT !.pin = Dec(l).state]
        nears == {Near(Fire(l)) : l \in Fired} \ {Forever}
        next == IF nears = {} THEN Forever ELSE Least(nears)
    IN
    /\ Expired
    /\ leds' = [l \in Leds |-> IF l \in Fired THEN PrepareNext(Fire(l))
                               ELSE IF l \in P THEN Dec(l) ELSE leds[l]]
    /\ age' = [l \in Leds |-> IF l \in Fired THEN 0 ELSE age[l]]
    /\ due' = [l \in Leds |-> IF l \in Fired THEN Intended(Fire(l)) ELSE due[l]]
    /\ timer' = IF next = Forever THEN [timer EXCEPT !.running = FALSE]
                ELSE IF next # timer.period THEN Start(next)
                ELSE [timer EXCEPT !.left = timer.period]
    /\ UNCHANGED <<owner, lockCount, pc, arg, calls>>

(***************************************************************************)
(* led_process, the timer's expiry function, in interrupt context.  Every *)
(* pending LED loses the period from `remaining`; one that reaches 0 is    *)
(* driven to its state and rescheduled.  The next period is 500 ms if any  *)
(* LED was pending, or less if a rescheduled LED asks for less; with none  *)
(* pending the timer stops, and a new period restarts it.                  *)
(***************************************************************************)
LedProcess ==
    LET P == {l \in Leds : leds[l].pending = 1}
        Dec(l) == [leds[l] EXCEPT !.remaining = @ - timer.period]
        Fired == {l \in P : Dec(l).remaining <= 0}
        Fire(l) == [Dec(l) EXCEPT !.pin = Dec(l).state]
        nears == {Near(Fire(l)) : l \in Fired} \ {Forever}
        next == IF P = {} THEN Forever ELSE Least({5} \cup nears)
    IN
    /\ Expired
    /\ leds' = [l \in Leds |-> IF l \in Fired THEN PrepareNext(Fire(l))
                               ELSE IF l \in P THEN Dec(l) ELSE leds[l]]
    /\ age' = [l \in Leds |-> IF l \in Fired THEN 0 ELSE age[l]]
    /\ due' = [l \in Leds |-> IF l \in Fired THEN Intended(Fire(l)) ELSE due[l]]
    /\ timer' = IF next = Forever THEN [timer EXCEPT !.running = FALSE]
                ELSE IF next # timer.period THEN Start(next)
                ELSE [timer EXCEPT !.left = timer.period]
    /\ UNCHANGED <<owner, lockCount, pc, arg, calls>>

(* 100 ms pass.  Pending LEDs age; a running timer counts down.           *)
Tick ==
    /\ ~Expired
    /\ age' = [l \in Leds |-> IF leds[l].pending = 1 /\ age[l] < MaxAge
                               THEN age[l] + 1 ELSE age[l]]
    /\ timer' = IF timer.running THEN [timer EXCEPT !.left = @ - 1] ELSE timer
    /\ UNCHANGED <<leds, owner, lockCount, pc, arg, calls, due>>

Next ==
    \/ \E t \in Threads :
         \/ UserIoInit(t)
         \/ \E l \in Leds, m \in Modes : Call(t, l, m)
         \/ Lock(t) \/ CheckMode(t) \/ SetState(t) \/ Prep(t) \/ Arm(t) \/ Unlock(t)
    \/ LedProcess
    \/ Tick

Spec == Init /\ [][Next]_vars

-----------------------------------------------------------------------------
TypeOK ==
    /\ leds \in [Leds -> [mode : Modes, state : {0, 1}, pending : {0, 1},
                          remaining : -5 .. 5, pin : {0, 1}]]
    /\ timer \in [running : BOOLEAN, period : {0, 1, 5}, left : 0 .. 5]
    /\ owner \in Threads \cup {NoOwner} /\ lockCount \in Nat
    /\ pc \in [Threads -> {"init", "idle", "lock", "check", "state", "prep",
                           "arm", "unlock"}]
    /\ calls \in [Threads -> 0 .. MaxCalls]

(* Between calls, an LED set OFF is dark and one set STEADY is lit, and    *)
(* neither is pending: led_process, preempting led_set_mode at any step,   *)
(* never leaves a toggled pin or a pending flag behind.                    *)
SettledPins ==
    \A l \in Leds :
        (\A t \in Threads : pc[t] \in {"init", "idle", "lock"} \/ arg[t].led # l)
            => /\ leds[l].mode = "OFF" => leds[l].pin = 0 /\ leds[l].pending = 0
               /\ leds[l].mode = "STEADY" => leds[l].pin = 1 /\ leds[l].pending = 0

(* A pending LED is never orphaned: the timer runs whenever some LED is    *)
(* pending, except while the thread that scheduled it has yet to start the *)
(* timer.  led_process stops the timer only when no LED is pending.        *)
PendingLedHasTimer ==
    \A l \in Leds :
        /\ leds[l].pending = 1
        /\ ~\E t \in Threads : pc[t] = "arm" /\ arg[t].led = l
        => timer.running

(* A thread waiting for the mutex waits only for a thread that is inside   *)
(* led_set_mode and will unlock it: led_set_mode and user_io_init pair     *)
(* every k_mutex_lock with a k_mutex_unlock.                               *)
NoThreadBlockedByIdleOwner ==
    \A t \in Threads :
        pc[t] = "lock" /\ owner \notin {NoOwner, t}
            => pc[owner] \in {"check", "state", "prep", "arm", "unlock"}

(* Once armed, a pending LED toggles no later than the delay its mode      *)
(* asks for: 100 ms for BLINKING_5Hz and the lit half of FLASHING, 500 ms  *)
(* for BLINKING_1Hz.                                                       *)
BlinkOnTime ==
    \A l \in Leds :
        /\ leds[l].pending = 1
        /\ ~\E t \in Threads : pc[t] \in {"prep", "arm"} /\ arg[t].led = l
        => age[l] <= due[l]

=============================================================================
