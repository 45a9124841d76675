------------------------------ MODULE Elapsed ------------------------------
(***************************************************************************)
(* ututna/main.c, the clock of begin() and end() in the native build: both *)
(* read gettimeofday, and end() subtracts seconds and microseconds apart,  *)
(* in signed arithmetic, and keeps the sum in an unsigned long.            *)
(*                                                                         *)
(* gettimeofday is the wall clock: while a loop runs it may be set, forth  *)
(* or back.                                                                *)
(***************************************************************************)
EXTENDS Integers

CONSTANTS
  MILLION,   \* microseconds in a second
  ULONG,     \* 2^64, the values of an unsigned long
  MaxClock,  \* bound: the clock's microseconds
  MaxSets    \* bound: how often the clock is set

ASSUME UnitsAssumption == MILLION \in Nat \ {0} /\ ULONG \in Nat \ {0}
ASSUME BoundsAssumption == MaxClock \in Nat /\ MaxSets \in Nat

VARIABLES
  clock,    \* the wall clock in microseconds
  start,    \* start, as gettimeofday filled it
  usec,     \* the last usec end() computed
  running,  \* between begin() and end()
  elapsed,  \* microseconds that passed since begin()
  moved,    \* by how much the clock was set since begin()
  sets      \* times the clock was set

clock_vars == <<clock, start, usec, running, elapsed, moved, sets>>

\* gettimeofday: seconds, and what remains in microseconds.
Gettimeofday == [tv_sec |-> clock \div MILLION, tv_usec |-> clock % MILLION]

\* The difference of two readings, converted to unsigned long.
Usec_NoBorrow(tv) ==   \* mutant: the microseconds' difference made unsigned
  (MILLION * (tv.tv_sec - start.tv_sec) +
     (IF tv.tv_usec >= start.tv_usec THEN tv.tv_usec - start.tv_usec
                                     ELSE start.tv_usec - tv.tv_usec)) % ULONG
Usec_Signed(tv) ==   \* mutant: the conversion is left out
  MILLION * (tv.tv_sec - start.tv_sec) + (tv.tv_usec - start.tv_usec)
Usec(tv) == (MILLION * (tv.tv_sec - start.tv_sec) +
               (tv.tv_usec - start.tv_usec)) % ULONG

BeginTiming == /\ ~running
               /\ start' = Gettimeofday
               /\ running' = TRUE
               /\ elapsed' = 0
               /\ moved' = 0
               /\ UNCHANGED <<clock, usec, sets>>

EndTiming == /\ running
             /\ usec' = Usec(Gettimeofday)
             /\ running' = FALSE
             /\ UNCHANGED <<clock, start, elapsed, moved, sets>>

\* Time passes, and somebody sets the clock.
Pass == /\ clock < MaxClock
        /\ clock' = clock + 1
        /\ elapsed' = IF running THEN elapsed + 1 ELSE elapsed
        /\ UNCHANGED <<start, usec, running, moved, sets>>

SetClock == /\ sets < MaxSets
            /\ sets' = sets + 1
            /\ \E c \in 0..MaxClock :
                 /\ clock' = c
                 /\ moved' = IF running THEN moved + (c - clock) ELSE moved
            /\ UNCHANGED <<start, usec, running, elapsed>>

ClockInit ==
  /\ clock \in 0..MaxClock
  /\ start = [tv_sec |-> 0, tv_usec |-> 0]
  /\ usec = 0
  /\ running = FALSE
  /\ elapsed = 0
  /\ moved = 0
  /\ sets = 0

ClockNext == BeginTiming \/ EndTiming \/ Pass \/ SetClock

ClockSpec == ClockInit /\ [][ClockNext]_clock_vars

-----------------------------------------------------------------------------
(* Properties.                                                             *)

(* The shape of the state.                                                 *)
ClockTypeOK ==
  /\ clock \in 0..MaxClock
  /\ start \in [tv_sec : Nat, tv_usec : 0..MILLION - 1]
  /\ usec \in 0..ULONG - 1
  /\ running \in BOOLEAN
  /\ elapsed \in Nat /\ moved \in Int /\ sets \in 0..MaxSets

(* end() computes the time since begin(), also when the microseconds of    *)
(* the second reading are fewer than those of the first, so that their     *)
(* difference is negative.  A clock set meanwhile counts as time, and one  *)
(* set back by more than the time that passed gives a number near 2^64,    *)
(* never a small one.                                                      *)
DurationExact ==
  [][EndTiming =>
       /\ elapsed + moved \in 0..ULONG - 1 => usec' = elapsed + moved
       /\ elapsed + moved \in 0 - ULONG..-1 =>
            usec' = ULONG + (elapsed + moved)]_clock_vars

=============================================================================
