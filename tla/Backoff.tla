------------------------------ MODULE Backoff ------------------------------
(***************************************************************************)
(* Retry policies, internal/retry/retry.go: how many attempts a job has    *)
(* and how long it waits after a failed one.  Durations are numbers of     *)
(* hundredths of a second, the multiplier and the jitter percentages.  A   *)
(* field that is 0 is unset; the policy with all fields unset stands for   *)
(* an absent one, which the generated getters do not tell apart.           *)
(***************************************************************************)
EXTENDS Integers, FiniteSetsExt

CONSTANTS
    Policies,            \* the policies that are looked at
    Random               \* the values of rand.Float64()*2 - 1, in hundredths

VARIABLES
    policy,              \* the policy of a job that is retried
    attempt,             \* the attempts it has failed
    delay                \* how long it waits after the last of them

retryVars == <<policy, attempt, delay>>

RetryPolicy ==
    [maxAttempts : Int, initialBackoff : Nat, maxBackoff : Nat, multiplier : Nat, jitter : Nat]

ASSUME BackoffAssumption == Policies \subseteq RetryPolicy /\ Random \subseteq -100 .. 100

Or(value, default) == IF value > 0 THEN value ELSE default

DefaultMaxAttempts == 3

MaxAttempts(p) == Or(p.maxAttempts, DefaultMaxAttempts)

initial(p) == Or(p.initialBackoff, 100)
maxB(p) == Or(p.maxBackoff, 3000)
mult(p) == Or(p.multiplier, 200)
jitter(p) == Or(p.jitter, 20)

\* Mutant: the loop is left without setting the delay to the maximum.
Grown_Uncapped(p, base) ==
    LET next == (base * mult(p)) \div 100 IN
    [base |-> next, stop |-> next >= maxB(p)]

\* One round of the loop: the delay of the next attempt, and whether the loop is left.
Grown(p, base) ==
    LET next == (base * mult(p)) \div 100 IN
    IF next >= maxB(p) THEN [base |-> maxB(p), stop |-> TRUE]
    ELSE [base |-> next, stop |-> FALSE]

\* The delay after a failed attempt, before jitter: the loop of Backoff.
Base(p, n) ==
    LET round[i \in 1 .. Max({n, 1})] ==
            IF i = 1 THEN [base |-> initial(p), stop |-> FALSE]
            ELSE IF round[i - 1].stop THEN round[i - 1] ELSE Grown(p, round[i - 1].base) IN
    round[Max({n, 1})].base

\* A delay with jitter, for a value of the random number: never negative.
Jittered(base, j, r) == Max({0, (base * (10000 + r * j)) \div 10000})

\* The delays Backoff may return.
BackoffDelays(p, n) == {Jittered(Base(p, n), jitter(p), r) : r \in Random}

\* The policy of a job without one.
Absent ==
    [maxAttempts |-> 0, initialBackoff |-> 0, maxBackoff |-> 0, multiplier |-> 0, jitter |-> 0]

RetryInit == policy = Absent /\ attempt = 0 /\ delay = 0

\* An attempt of a job fails (the first one, of any job), and handleFailure has it tried
\* again while attempts are left.
Retry ==
    /\ policy' \in IF attempt = 0 THEN Policies ELSE {policy}
    /\ attempt + 1 < MaxAttempts(policy')
    /\ attempt' = attempt + 1
    /\ delay' \in BackoffDelays(policy', attempt + 1)

\* The attempt after that is its last, successful or not.
Ends == attempt > 0 /\ policy' = Absent /\ attempt' = 0 /\ delay' = 0

RetrySpec == RetryInit /\ [][Retry \/ Ends]_retryVars

-----------------------------------------------------------------------------
\* initial * multiplier^(n - 1), as the documents write it.
Exponential(p, n) ==
    LET power[i \in 1 .. n] == IF i = 1 THEN initial(p) ELSE (power[i - 1] * mult(p)) \div 100 IN
    power[n]

\* The delay after every failed attempt is the documented one, min(max_backoff,
\* initial * multiplier^(attempt - 1)) * (1 +- jitter), for policies whose first delay is
\* within the maximum.  (Backoff's loop caps a delay only after multiplying, so that a
\* larger first delay is not capped.)
DelayIsDocumented ==
    attempt > 0 /\ initial(policy) <= maxB(policy) =>
        LET documented == Min({maxB(policy), Exponential(policy, attempt)}) IN
        /\ delay * 100 <= documented * (100 + jitter(policy))
        /\ delay * 100 > documented * (100 - jitter(policy)) - 100
=============================================================================
