---------------------------- MODULE LoginLimiter ----------------------------
(***************************************************************************)
(* enforce_login_rate_limit, as auth_login calls it (zelvex-api/src/       *)
(* lib.rs): per address, the times of the attempts let through in the last *)
(* 60 seconds, at most 5 of them.  The map's lock is held from the reading *)
(* of the clock to the end, so an attempt is one step.  The map lives in    *)
(* memory: a restart of the process forgets every attempt.                 *)
(***************************************************************************)
EXTENDS Integers, SeqFilter

CONSTANTS IPs,       \* client addresses
          Window,    \* length of the window, 60 s
          Limit,     \* attempts let through in it, 5
          MaxTime,   \* bound: the clock
          MaxLogins  \* bound: attempts let through from one address

ASSUME LimiterAssumption ==
    /\ Window \in Nat \ {0}
    /\ Limit \in Nat \ {0}
    /\ MaxTime \in Nat
    /\ MaxLogins \in Nat

VARIABLES now,       \* the monotonic clock
          limiter,   \* login_limiter: address -> times, oldest first
          admitted,  \* times of all attempts let through since the process
                     \* started (history)
          answer     \* what the limiter said of the last attempt

limiterVars == <<now, limiter, admitted, answer>>

LimiterTypeOK ==
    /\ now \in 0..MaxTime
    /\ limiter \in [IPs -> Seq(0..MaxTime)]
    /\ admitted \in [IPs -> Seq(0..MaxTime)]
    /\ \A ip \in IPs : Len(limiter[ip]) <= Limit
    /\ answer \in {"none", "let_through", "rate_limited"}

LimiterInit ==
    /\ now = 0
    /\ limiter = [ip \in IPs |-> << >>]
    /\ admitted = [ip \in IPs |-> << >>]
    /\ answer = "none"

Tick ==
    /\ now < MaxTime
    /\ now' = now + 1
    /\ UNCHANGED <<limiter, admitted>>
    /\ answer' = "none"

\* Mutant: an attempt exactly one window old still counts.
Retain_Inclusive(times) == Filter(times, {t \in Nat : now - t <= Window})

\* Mutant: an attempt is forgotten one unit early.
Retain_Early(times) == Filter(times, {t \in Nat : now - t < Window - 1})

\* entry.retain(..)
Retain(times) == Filter(times, {t \in Nat : now - t < Window})

\* Mutant: one attempt too many is let through.
LetThrough_OneMore(ip) ==
    LET entry == Retain(limiter[ip]) IN
      /\ Len(entry) <= Limit
      /\ Len(admitted[ip]) < MaxLogins
      /\ limiter' = [limiter EXCEPT ![ip] = Append(entry, now)]
      /\ admitted' = [admitted EXCEPT ![ip] = Append(@, now)]
      /\ answer' = "let_through"
      /\ UNCHANGED now

\* An attempt goes on to the password check, which may fail.
LetThrough(ip) ==
    LET entry == Retain(limiter[ip]) IN
      /\ Len(entry) < Limit
      /\ Len(admitted[ip]) < MaxLogins
      /\ limiter' = [limiter EXCEPT ![ip] = Append(entry, now)]
      /\ admitted' = [admitted EXCEPT ![ip] = Append(@, now)]
      /\ answer' = "let_through"
      /\ UNCHANGED now

\* An attempt is refused, and not itself counted.
RateLimited(ip) ==
    LET entry == Retain(limiter[ip]) IN
      /\ Len(entry) >= Limit
      /\ limiter' = [limiter EXCEPT ![ip] = entry]
      /\ answer' = "rate_limited"
      /\ UNCHANGED <<now, admitted>>

\* The process ends and is started again, with an empty map.
Restart ==
    /\ limiter' = [ip \in IPs |-> << >>]
    /\ admitted' = [ip \in IPs |-> << >>]
    /\ answer' = "none"
    /\ UNCHANGED now

LimiterNext ==
    \/ Tick \/ Restart
    \/ \E ip \in IPs : LetThrough(ip) \/ RateLimited(ip)

LimiterSpec == LimiterInit /\ [][LimiterNext]_limiterVars

-----------------------------------------------------------------------------
(* Properties.                                                             *)

\* While the process runs no interval shorter than the window, wherever it
\* starts, holds more than Limit attempts of one address: Limit attempts on,
\* a window has passed.
NoBurst ==
    \A ip \in IPs : \A i \in 1..(Len(admitted[ip]) - Limit) :
        admitted[ip][i + Limit] - admitted[ip][i] >= Window

\* An address is refused only when Limit of its own attempts went through in
\* the last window: attempts refused earlier, or made by others, or a full
\* window old, do not keep it out.
RefusedForCause ==
    [][\A ip \in IPs : RateLimited(ip) =>
         /\ Len(admitted[ip]) >= Limit
         /\ now - admitted[ip][Len(admitted[ip]) - Limit + 1] < Window
      ]_limiterVars

=============================================================================
