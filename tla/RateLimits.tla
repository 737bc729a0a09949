----------------------------- MODULE RateLimits -----------------------------
(***************************************************************************)
(* DeploymentRateLimiter.consume_deploy for clients that may overlap: one  *)
(* RateLimiter.consume per bucket, the target's, the user's, the global    *)
(* one, each a get from the Django cache, four cases, and a set.  The      *)
(* cache is external: it forgets a key when its timeout is over, and one   *)
(* that is set with timeout 0 at once.  Time goes in half seconds, windows *)
(* and timeouts are whole seconds.                                         *)
(***************************************************************************)
EXTENDS Integers, Sequences

CONSTANTS Clients,
          Buckets,           \* the buckets of a deployment, in the order they are consumed
          Limit, Window,     \* bucket -> tokens, and seconds
          MaxTime, MaxCalls  \* bounds on the time and on the deployments asked for

Keys == {Buckets[i] : i \in DOMAIN Buckets}

ASSUME LimitAssumption ==
  /\ Buckets \in Seq(Keys) /\ Len(Buckets) > 0
  /\ \A i, j \in DOMAIN Buckets : Buckets[i] = Buckets[j] => i = j
  /\ Limit \in [Keys -> Nat \ {0}] /\ Window \in [Keys -> Nat \ {0, 1}]
  /\ MaxTime \in Nat \ {0} /\ MaxCalls \in Nat

VARIABLES
  time,
  cache,    \* bucket -> [count, start, expires], or Missed
  call,     \* client -> [at, got, now, late]: the place in Buckets, what was read, when,
            \* and whether another client has written the bucket since
  refused,  \* client -> its last deployment met a limit
  calls,    \* deployments asked for
  window,   \* bucket -> [start, given, late] of the window it was last made new for: when it
            \* began, the tokens given in it, how many of them by clients that wrote late
  previous  \* bucket -> the same of the window before that one, tokens the bucket gave
            \* in it after it was made new included
limitVars == <<time, cache, call, refused, calls, window, previous>>

Missed == [count |-> 0, start |-> 0, expires |-> 0]
Idle == [at |-> 0, got |-> Missed, now |-> 0, late |-> FALSE]
NoWindow == [start |-> 0, given |-> 0, late |-> 0]

LimitInit ==
  /\ time = 1 /\ calls = 0
  /\ cache = [k \in Keys |-> Missed]
  /\ call = [c \in Clients |-> Idle] /\ refused = [c \in Clients |-> FALSE]
  /\ window = [k \in Keys |-> NoWindow] /\ previous = [k \in Keys |-> NoWindow]

-----------------------------------------------------------------------------
(* The cache *)

Get(k) == IF cache[k].expires > time THEN cache[k] ELSE Missed
Set(k, count, start, seconds) ==
  cache' = [cache EXCEPT ![k] = IF seconds = 0 THEN Missed
                                ELSE [count |-> count, start |-> start,
                                      expires |-> time + 2 * seconds]]

TimePasses ==
  /\ time < MaxTime
  /\ time' = time + 1
  /\ cache' = [k \in Keys |-> IF cache[k].expires > time' THEN cache[k] ELSE Missed]
  /\ UNCHANGED <<call, refused, calls, window, previous>>

-----------------------------------------------------------------------------
(* consume *)

Key(c) == Buckets[call[c].at]
Got(c) == call[c].got
WindowEnd(c) == Got(c).start + 2 * Window[Key(c)]

Read(i) == [at |-> i, got |-> Get(Buckets[i]), now |-> time, late |-> FALSE]

AskToDeploy(c) ==
  /\ call[c] = Idle /\ calls < MaxCalls
  /\ calls' = calls + 1
  /\ call' = [call EXCEPT ![c] = Read(1)]
  /\ refused' = [refused EXCEPT ![c] = FALSE]
  /\ UNCHANGED <<time, cache, window, previous>>

\* The next bucket is read when this one is consumed; after the last one the deploy is allowed.
\* Whoever has read this bucket and not yet written it will write late.
NextBucket(c) ==
  call' = [d \in Clients |->
             IF d = c THEN IF call[c].at = Len(Buckets) THEN Idle ELSE Read(call[c].at + 1)
             ELSE [call[d] EXCEPT !.late = @ \/ call[d].at = call[c].at]]

Lates(c) == IF call[c].late THEN 1 ELSE 0
Give(c, w) == [start |-> w.start, given |-> w.given + 1, late |-> w.late + Lates(c)]
\* The tokens of the window before this one count on until it is over.
GiveInPrevious(c, w) ==
  LET over == w.start + 2 * Window[Key(c)] IN
  previous' = [previous EXCEPT ![Key(c)] =
                 IF w = NoWindow \/ call[c].now > over THEN w ELSE Give(c, w)]

\* Cases 1 and 2: nothing in the cache, or its window is over.
NewWindow(c) == Got(c) = Missed \/ call[c].now > WindowEnd(c)
ConsumeNew(c) ==
  /\ call[c].at > 0 /\ NewWindow(c)
  /\ Set(Key(c), 1, call[c].now, Window[Key(c)])
  /\ window' = [window EXCEPT ![Key(c)] =
                  Give(c, [start |-> call[c].now, given |-> 0, late |-> 0])]
  /\ GiveInPrevious(c, window[Key(c)])
  /\ NextBucket(c)
  /\ UNCHANGED <<time, refused, calls>>

\* Variant: one more than the limit.
UsedUpLate(c) == Got(c).count > Limit[Key(c)]
UsedUp(c) == Got(c).count >= Limit[Key(c)]

\* Case 3; what the buckets before gave is not given back.
ConsumeRefused(c) ==
  /\ call[c].at > 0 /\ ~NewWindow(c) /\ UsedUp(c)
  /\ call' = [call EXCEPT ![c] = Idle]
  /\ refused' = [refused EXCEPT ![c] = TRUE]
  /\ UNCHANGED <<time, cache, calls, window, previous>>

\* Case 4: the count that was read, and one; the seconds that are left, rounded down.
ConsumeToken(c) ==
  /\ call[c].at > 0 /\ ~NewWindow(c) /\ ~UsedUp(c)
  /\ Set(Key(c), Got(c).count + 1, Got(c).start, (WindowEnd(c) - call[c].now) \div 2)
  /\ window' = [window EXCEPT ![Key(c)] = Give(c, @)]
  /\ GiveInPrevious(c, previous[Key(c)])
  /\ NextBucket(c)
  /\ UNCHANGED <<time, refused, calls>>

LimitNext ==
  \/ TimePasses
  \/ \E c \in Clients : AskToDeploy(c) \/ ConsumeNew(c) \/ ConsumeRefused(c) \/ ConsumeToken(c)
LimitSpec == LimitInit /\ [][LimitNext]_limitVars

-----------------------------------------------------------------------------
(* Properties *)

\* The type invariant of the buckets and the clients.
LimitTypeOK ==
  /\ time \in 1..MaxTime /\ calls \in 0..MaxCalls
  /\ \A c \in Clients : call[c].at \in 0..Len(Buckets)
  /\ \A k \in Keys : cache[k] = Missed \/ (cache[k].count > 0 /\ cache[k].start \in 1..MaxTime)

\* RateLimiter.consume, "All requests in that window share the same token pool" and consumes
\* "atomically": what the code does of it.  A bucket gives out its limit, and at most as much
\* again for every client that wrote late, over what it had not read.  With no such client
\* it is not made new before the last second of its window; there, as a timeout rounded down
\* to 0 drops it, it may be, and the window then gives out up to twice the limit.
BucketHoldsItsLimit ==
  \A k \in Keys :
    LET now == window[k]  before == previous[k] IN
    /\ now.given <= Limit[k] * (1 + now.late)
    /\ now.late = 0 /\ before.late = 0 =>
         /\ before.given <= 2 * Limit[k]
         /\ before.given > 0 => now.start > before.start + 2 * Window[k] - 2
=============================================================================
