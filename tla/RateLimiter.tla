----------------------------- MODULE RateLimiter -----------------------------
(***************************************************************************)
(* The limits of a model provider: a bucket of requests and one of tokens, *)
(* refilled by the clock, and the silence after an answer 429.  One        *)
(* controller serves every request of the process under a mutex; a caller  *)
(* reads the clock before it takes the mutex, and sleeps for as long as it *)
(* is told when there is not enough.  BudgetWave has the allowance of a    *)
(* wave, which is spent by the same call.                                  *)
(*                                                                         *)
(* A bucket counts in units of 1/Scale, so that a tick adds a whole number *)
(* of them.                                                                *)
(***************************************************************************)
EXTENDS Integers, Sequences

CONSTANTS
  Askers,        \* callers with requests of one size each
  Cost,          \* asker -> the tokens its requests are estimated at
  Scale,         \* units of a request or a token
  RequestRate,   \* units a tick adds
  TokenRate,
  RequestBurst,  \* requests and tokens the buckets hold
  TokenBurst,
  Delay,         \* strikes -> ticks of silence
  MaxClock       \* bound on the time

ASSUME LimiterAssumption ==
  /\ Cost \in [Askers -> Nat]
  /\ {Scale, RequestRate, TokenRate, RequestBurst, TokenBurst} \subseteq Nat \ {0}
  /\ MaxClock \in Nat
  /\ Delay \in Seq(Nat) /\ Delay # <<>>

VARIABLES
  clock,     \* milliseconds
  bucket,    \* [requests, tokens, last, blocked, strikes]
  asker,     \* asker -> [pc, at, calm]
  granted,   \* history: units of tokens granted
  skew       \* history: how far the clock of the bucket was moved back, in all

limiterVars == <<clock, bucket, asker, granted, skew>>

Least(a, b) == IF a < b THEN a ELSE b
Greatest(a, b) == IF a < b THEN b ELSE a

\* saturating_sub
Lack(a, b) == Greatest(a - b, 0)

Resting(pc) == [pc |-> pc, at |-> 0, calm |-> FALSE]

MaxStrikes == Len(Delay)

\* Bucket::new
LimiterInit ==
  /\ clock = 0
  /\ bucket = [requests |-> RequestBurst * Scale, tokens |-> TokenBurst * Scale,
               last |-> 0, blocked |-> 0, strikes |-> 0]
  /\ asker = [c \in Askers |-> Resting("idle")]
  /\ granted = 0 /\ skew = 0

\* Mutant: the time of the last refill stays.
RefilledAgain(t) ==
  LET elapsed == Lack(t, bucket.last)
  IN  [bucket EXCEPT !.requests = Least(@ + elapsed * RequestRate, RequestBurst * Scale),
                     !.tokens = Least(@ + elapsed * TokenRate, TokenBurst * Scale)]

\* Mutant: the bucket has no rim.
RefilledOver(t) ==
  LET elapsed == Lack(t, bucket.last)
  IN  [bucket EXCEPT !.last = t, !.requests = @ + elapsed * RequestRate,
                     !.tokens = @ + elapsed * TokenRate]

\* Bucket::refill, also for a time before the last one.
Refilled(t) ==
  LET elapsed == Lack(t, bucket.last)
  IN  [bucket EXCEPT !.last = t,
                     !.requests = Least(@ + elapsed * RequestRate, RequestBurst * Scale),
                     !.tokens = Least(@ + elapsed * TokenRate, TokenBurst * Scale)]

\* Mutant: the wait is rounded down.
DivFloor(value, denominator) == value \div denominator

DivCeil(value, denominator) == (value + denominator - 1) \div denominator

RetryAfter(b, cost) ==
  Greatest(DivCeil(Lack(Scale, b.requests), RequestRate),
           DivCeil(Lack(cost * Scale, b.tokens), TokenRate))

Enough(b, cost) == b.requests >= Scale /\ b.tokens >= cost * Scale

Touch(t) == skew' = skew + Lack(bucket.last, t)

----------------------------------------------------------------------------
(* The requests of a caller *)

\* now_ms(), before the mutex; a caller that sleeps has slept to the end.
ReadClock(c) ==
  /\ asker[c].pc = "idle" \/ (asker[c].pc = "asleep" /\ clock >= asker[c].at)
  /\ asker' = [asker EXCEPT ![c].pc = "asking", ![c].at = clock]
  /\ UNCHANGED <<clock, bucket, granted, skew>>

\* RequestTooLarge
TooLarge(c) ==
  /\ asker[c].pc = "asking" /\ Cost[c] > TokenBurst
  /\ asker' = [asker EXCEPT ![c] = Resting("refused")]
  /\ UNCHANGED <<clock, bucket, granted, skew>>

Sleep(c, ticks, calm) ==
  asker' = [asker EXCEPT ![c] = [pc |-> "asleep", at |-> clock + ticks, calm |-> calm]]

\* Backpressure of a provider that wants silence.
WaitForSilence(c) ==
  LET t == asker[c].at
  IN  /\ asker[c].pc = "asking" /\ Cost[c] <= TokenBurst /\ t < bucket.blocked
      /\ bucket' = Refilled(t) /\ Touch(t)
      /\ Sleep(c, Greatest(bucket.blocked - t, 1), FALSE)
      /\ UNCHANGED <<clock, granted>>

\* Backpressure of a bucket with too little in it.
WaitForUnits(c) ==
  LET t == asker[c].at
      b == Refilled(t)
  IN  /\ asker[c].pc = "asking" /\ Cost[c] <= TokenBurst /\ t >= bucket.blocked
      /\ ~Enough(b, Cost[c])
      /\ bucket' = b /\ Touch(t)
      /\ Sleep(c, Greatest(RetryAfter(b, Cost[c]), 1), TRUE)
      /\ UNCHANGED <<clock, granted>>

\* What others took or were told of: the wait of c was not computed for that.
Disturbed(c) == [d \in Askers |-> IF d = c THEN asker[d] ELSE [asker[d] EXCEPT !.calm = FALSE]]

Grant(c) ==
  LET t == asker[c].at
      b == Refilled(t)
  IN  /\ asker[c].pc = "asking" /\ Cost[c] <= TokenBurst /\ t >= bucket.blocked
      /\ Enough(b, Cost[c])
      /\ bucket' = [b EXCEPT !.requests = @ - Scale, !.tokens = @ - Cost[c] * Scale,
                             !.strikes = 0]
      /\ Touch(t)
      /\ asker' = [Disturbed(c) EXCEPT ![c] = Resting("served")]
      /\ granted' = granted + Cost[c] * Scale
      /\ UNCHANGED clock

\* The stream ends, with an answer 429 or without; the caller may come again.
Finish(c) ==
  /\ asker[c].pc = "served"
  /\ asker' = [asker EXCEPT ![c] = Resting("idle")]
  /\ UNCHANGED <<clock, bucket, granted, skew>>

TooMany(c) ==
  /\ asker[c].pc = "served"
  /\ asker' = [asker EXCEPT ![c].pc = "striking", ![c].at = clock]
  /\ UNCHANGED <<clock, bucket, granted, skew>>

\* record_429
Record429(c) ==
  LET strikes == Least(bucket.strikes + 1, MaxStrikes)
  IN  /\ asker[c].pc = "striking"
      /\ bucket' = [bucket EXCEPT !.strikes = strikes,
                                  !.blocked = asker[c].at + Delay[strikes]]
      /\ asker' = [Disturbed(c) EXCEPT ![c] = Resting("idle")]
      /\ UNCHANGED <<clock, granted, skew>>

Tick ==
  /\ clock < MaxClock
  /\ clock' = clock + 1
  /\ UNCHANGED <<bucket, asker, granted, skew>>

LimiterNext ==
  \/ \E c \in Askers : \/ ReadClock(c) \/ TooLarge(c) \/ WaitForSilence(c) \/ WaitForUnits(c)
                       \/ Grant(c) \/ Finish(c) \/ TooMany(c) \/ Record429(c)
  \/ Tick

LimiterSpec == LimiterInit /\ [][LimiterNext]_limiterVars

----------------------------------------------------------------------------
(* Properties *)

LimiterTypeOK ==
  /\ clock \in 0 .. MaxClock /\ skew \in Nat /\ granted \in Nat
  /\ bucket \in [requests : 0 .. RequestBurst * Scale, tokens : 0 .. TokenBurst * Scale,
                 last : 0 .. MaxClock, blocked : Nat, strikes : 0 .. MaxStrikes]
  /\ asker \in [Askers -> [pc : {"idle", "asking", "asleep", "served", "striking", "refused"},
                           at : Nat, calm : BOOLEAN]]

\* What is granted by a time is what the bucket held and what the clock added
\* to it; a caller that is late with its clock makes the bucket count the time
\* between twice, and nothing else does.
RateKept == granted <= TokenBurst * Scale + TokenRate * (clock + skew)

\* The safety of the limiter: the buckets keep their rims, and so the rate is kept.
LimiterSafety == LimiterTypeOK /\ RateKept

\* The wait a caller is told is long enough: when it has slept to its end, and
\* nobody was served in between, it is served.
WaitIsEnough ==
  [][\A c \in Askers :
       asker[c].pc = "asking" /\ asker[c].calm /\ asker'[c].pc # "asking" =>
         asker'[c].pc = "served"]_limiterVars

\* What the code does not keep: the rate itself.
RateKeptExactly == granted <= TokenBurst * Scale + TokenRate * clock
=============================================================================
