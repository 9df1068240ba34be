------------------------------- MODULE Timing ------------------------------
(***************************************************************************)
(* What the busy-waits and the echo measurement make of the system timer   *)
(* STM0 (BSW/Service/util.c, BSW/Service/ultrasonic.c).  Its lower word    *)
(* TIM0 wraps every 43 s, and reading it copies the upper word to CAP.     *)
(* The loop reads it; so does the CAN receive interrupt, at any time       *)
(* (stm.c:148).                                                            *)
(***************************************************************************)
EXTENDS Integers

CONSTANTS
  Wrap,        \* ticks after which TIM0 is zero again (2^32)
  Delays,      \* delays asked for, in ticks
  Limits,      \* time-outs of an echo looked at, in ticks
  Horizon      \* bound: when the clock stops

ASSUME TimingAssumption ==
  /\ Wrap \in Nat \ {0} /\ Wrap % 2 = 0
  /\ Delays \subseteq 1..(Wrap - 1)
  /\ Limits \subseteq Nat
  /\ Horizon \in Nat

VARIABLES
  now,         \* the clock: ticks since the start
  cap,         \* CAP
  phase,       \* where the loop is: "idle", in a "delay", in the "first"
               \* reading of a measurement, in the "echo", in the "next" reading
               \* or behind it ("read"); "off": the timer is not looked at
  from,        \* history: when the delay, or the measurement, began
  ticks, target,  \* the delay, and the value of TIM0 that ends it
  first, last, \* the first reading of a measurement and the latest one
  low,         \* history: when TIM0 was read for the latest one
  between      \* history: an interrupt read the timer within a reading

timerVars == <<now, cap, phase, from, ticks, target, first, last, low, between>>

TIM0(t) == t % Wrap
Latched(t) == t \div Wrap

TimerAt(p) ==
  /\ now = 0 /\ cap = 0 /\ phase = p
  /\ from = 0 /\ ticks = 0 /\ target = 0
  /\ first = 0 /\ last = 0 /\ low = 0 /\ between = FALSE

TimerInit == TimerAt("idle")

Tick ==
  /\ now < Horizon /\ now' = now + 1
  /\ UNCHANGED <<cap, phase, from, ticks, target, first, last, low, between>>

\* resetTofTimeoutTimer, in the receive interrupt.
IsrReads ==
  /\ cap' = Latched(now)
  /\ between' = (between \/ phase \in {"first", "next"})
  /\ UNCHANGED <<now, phase, from, ticks, target, first, last, low>>

---------------------------------------------------------------------------
(* delayMs and delayUs.                                                    *)

\* (A mistake: not counted from the start.)
TargetOfStart(t, n) == n

Target(t, n) == (TIM0(t) + n) % Wrap

BeginDelay(n) ==
  /\ phase = "idle" /\ phase' = "delay"
  /\ from' = now /\ ticks' = n /\ target' = Target(now, n)
  /\ cap' = Latched(now)
  /\ UNCHANGED <<now, first, last, low, between>>

\* A reading at this time ends the wait.
Over == TIM0(now) >= target

EndDelay ==
  /\ phase = "delay" /\ Over
  /\ phase' = "idle" /\ from' = 0 /\ ticks' = 0 /\ target' = 0
  /\ cap' = Latched(now)
  /\ UNCHANGED <<now, first, last, low, between>>

---------------------------------------------------------------------------
(* getDistanceByUltra.                                                     *)

\* getTime10Ns reads TIM0 ...
ReadLow ==
  /\ \/ phase = "idle" /\ phase' = "first" /\ from' = now
     \/ phase = "echo" /\ phase' = "next" /\ UNCHANGED from
  /\ low' = now /\ cap' = Latched(now)
  /\ UNCHANGED <<now, ticks, target, first, last, between>>

\* (A mistake: the upper word of the clock as it is by now.)
BothNow(c) == TIM0(low) + Wrap * Latched(now)

\* ... and then CAP.
getTime10Ns(c) == TIM0(low) + Wrap * c

ReadHigh ==
  /\ \/ /\ phase = "first" /\ phase' = "echo"
        /\ first' = getTime10Ns(cap) /\ UNCHANGED last
     \/ /\ phase = "next" /\ phase' = "read"
        /\ last' = getTime10Ns(cap) /\ UNCHANGED first
  /\ UNCHANGED <<now, cap, from, ticks, target, low, between>>

\* The echo goes on, ...
EchoGoesOn ==
  /\ phase = "read" /\ phase' = "echo"
  /\ last' = 0 /\ low' = 0
  /\ UNCHANGED <<now, cap, from, ticks, target, first, between>>

\* ... or it is over, or given up.
EndEcho ==
  /\ phase = "read" /\ phase' = "idle"
  /\ from' = 0 /\ first' = 0 /\ last' = 0 /\ low' = 0 /\ between' = FALSE
  /\ UNCHANGED <<now, cap, ticks, target>>

\* The result as an int: the lower word of the difference, with a sign.
AsInt(d) == IF d % Wrap < Wrap \div 2 THEN d % Wrap ELSE (d % Wrap) - Wrap
Echo == AsInt(last - first)

GivesUp(limit) == last > first + limit

TimerNext ==
  \/ Tick \/ IsrReads
  \/ (\E n \in Delays : BeginDelay(n)) \/ EndDelay
  \/ ReadLow \/ ReadHigh \/ EchoGoesOn \/ EndEcho

TimerSpec == TimerInit /\ [][TimerNext]_timerVars

---------------------------------------------------------------------------
NextWrap == Wrap * (Latched(from) + 1)

\* A delay that ends before TIM0 wraps is never short; if no reading before the
\* wrap ends it, it lasts for most of another round.  A delay that would end
\* after the wrap is over at once (util.c:3-16).
DelayLasts ==
  phase = "delay" =>
    IF from + ticks < NextWrap
      THEN now < from + ticks + Wrap =>
             (Over <=> now \in (from + ticks)..(NextWrap - 1))
      ELSE now < NextWrap => Over

\* The length of an echo is right even if an interrupt came between the two
\* words of a reading while the timer wrapped: the upper words cancel out.  The
\* time-out is only right if none did (ultrasonic.c:121-130, util.c:18-23).
EchoTrue ==
  phase = "read" =>
    /\ low - from < Wrap \div 2 => Echo = low - from
    /\ ~between => \A limit \in Limits : GivesUp(limit) <=> low - from > limit
=============================================================================
