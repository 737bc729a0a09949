------------------------- MODULE SharedRecords_proofs -------------------------
(***************************************************************************)
(* Proofs about what several processes share without a lock: the buckets of*)
(* the rate limiter, the containers a remote command runs in, and the rows *)
(* of the deployments, each component for every value of its constants;    *)
(* and the type correctness of MCSharedRecords, where one of them moves    *)
(* while the others rest.                                                  *)
(***************************************************************************)
EXTENDS MCSharedRecords, EphemeralStacks_proofs, SequenceTheorems, TLAPS

-----------------------------------------------------------------------------
(***************************************************************************)
(* RateLimits.                                                             *)
(* For every number of clients, every list of buckets with any limits and  *)
(* windows, and any number of deployments: type correctness, and what a    *)
(* bucket gives out in a window, with and without clients that write late. *)
(***************************************************************************)

\* What a get returns, and what a client remembers of it.
Live == [count : Nat \ {0}, start : 1..MaxTime, expires : Nat]
Reads == Live \cup {Missed}
CallsOf == [at : 0..Len(Buckets), got : Reads, now : 0..MaxTime, late : BOOLEAN]
Windows == [start : 0..MaxTime, given : Nat, late : Nat]

CacheTyped == time \in 1..MaxTime /\ cache \in [Keys -> Reads]
ClientsTyped ==
  /\ call \in [Clients -> CallsOf]
  /\ \A c \in Clients : call[c].at > 0 => call[c].now > 0
CountsTyped ==
  calls \in 0..MaxCalls /\ window \in [Keys -> Windows] /\ previous \in [Keys -> Windows]
Typed == CacheTyped /\ ClientsTyped /\ CountsTyped

LEMMA ConstantsTyped ==
  /\ MaxTime \in Nat \ {0} /\ MaxCalls \in Nat
  /\ Len(Buckets) \in Nat \ {0}
  /\ \A k \in Keys : Limit[k] \in Nat \ {0} /\ Window[k] \in Nat \ {0, 1}
BY LimitAssumption

LEMMA BucketIsKey == \A i \in 1..Len(Buckets) : Buckets[i] \in Keys
BY LimitAssumption DEF Keys

LEMMA MissedTyped == Missed \in Reads
BY DEF Reads

LEMMA MissedIsNotLive == Missed \notin Live
BY DEF Missed, Live

LEMMA GetTyped == ASSUME CacheTyped, NEW k \in Keys PROVE Get(k) \in Reads
BY MissedTyped DEF Get, CacheTyped

LEMMA TypedInit == LimitInit => Typed
<1> SUFFICES ASSUME LimitInit PROVE Typed
  OBVIOUS
<1>1. CacheTyped
  BY ConstantsTyped, MissedTyped DEF LimitInit, CacheTyped
<1>2. Idle \in CallsOf /\ Idle.at = 0
  BY ConstantsTyped, MissedTyped DEF Idle, CallsOf
<1>3. ClientsTyped
  BY <1>2 DEF LimitInit, ClientsTyped
<1>4. CountsTyped
  BY ConstantsTyped DEF LimitInit, CountsTyped, NoWindow, Windows
<1> QED
  BY <1>1, <1>3, <1>4 DEF Typed

\* A client that is at a bucket: the key, what it read, when.
LEMMA AtBucket ==
  ASSUME Typed, NEW c \in Clients, call[c].at > 0
  PROVE  /\ Key(c) \in Keys /\ Got(c) \in Reads /\ call[c].now \in 1..MaxTime
         /\ call[c].at \in 1..Len(Buckets)
<1>1. call[c] \in CallsOf
  BY DEF Typed, ClientsTyped
<1>2. call[c].at \in 1..Len(Buckets)
  BY <1>1, ConstantsTyped DEF CallsOf
<1>3. call[c].now \in 1..MaxTime
  BY <1>1, ConstantsTyped DEF CallsOf, Typed, ClientsTyped
<1>4. Got(c) \in Reads
  BY <1>1 DEF CallsOf, Got
<1> QED
  BY <1>2, <1>3, <1>4, BucketIsKey DEF Key

LEMMA SetTyped ==
  ASSUME CacheTyped, NEW k \in Keys, NEW n \in Nat \ {0}, NEW from \in 1..MaxTime,
         NEW seconds \in Nat, Set(k, n, from, seconds)
  PROVE  cache' \in [Keys -> Reads]
<1> DEFINE to == IF seconds = 0 THEN Missed
                 ELSE [count |-> n, start |-> from, expires |-> time + 2 * seconds]
<1>1. time + 2 * seconds \in Nat
  BY ConstantsTyped DEF CacheTyped
<1>2. to \in Reads
  BY <1>1, MissedTyped DEF Reads, Live
<1>3. cache' = [cache EXCEPT ![k] = to]
  BY DEF Set
<1> QED
  BY <1>2, <1>3 DEF CacheTyped

LEMMA BucketReadTyped ==
  ASSUME CacheTyped, NEW i \in 1..Len(Buckets)
  PROVE  /\ Read(i) \in CallsOf /\ Read(i).at = i /\ Read(i).now = time /\ ~Read(i).late
         /\ Read(i).got = Get(Buckets[i])
<1>1. Get(Buckets[i]) \in Reads
  BY BucketIsKey, GetTyped
<1>2. i \in 0..Len(Buckets) /\ time \in 0..MaxTime
  BY ConstantsTyped DEF CacheTyped
<1> QED
  BY <1>1, <1>2 DEF Read, CallsOf

\* After a write a client rests or reads the next bucket, and those that had read this one
\* are late; the others are where they were.
LEMMA Moves ==
  ASSUME Typed, NEW c \in Clients, call[c].at > 0, NextBucket(c)
  PROVE  /\ call' \in [Clients -> CallsOf]
         /\ \/ call'[c] = Idle
            \/ call[c].at + 1 \in 1..Len(Buckets) /\ call'[c] = Read(call[c].at + 1)
         /\ \A d \in Clients \ {c} :
              /\ call'[d].at = call[d].at /\ call'[d].got = call[d].got
              /\ call'[d].now = call[d].now
              /\ ~call'[d].late => ~call[d].late /\ call[d].at # call[c].at
<1>1. call[c].at \in 1..Len(Buckets)
  BY AtBucket
<1> DEFINE moved == IF call[c].at = Len(Buckets) THEN Idle ELSE Read(call[c].at + 1)
           left(d) == [call[d] EXCEPT !.late = @ \/ call[d].at = call[c].at]
<1>2. call' = [d \in Clients |-> IF d = c THEN moved ELSE left(d)]
  BY DEF NextBucket
<1>3. \/ moved = Idle
      \/ call[c].at + 1 \in 1..Len(Buckets) /\ moved = Read(call[c].at + 1)
  BY <1>1, ConstantsTyped
<1>4. moved \in CallsOf
  <2>1. Idle \in CallsOf
    BY ConstantsTyped, MissedTyped DEF Idle, CallsOf
  <2> QED
    BY <1>3, <2>1, BucketReadTyped DEF Typed
<1>5. ASSUME NEW d \in Clients
      PROVE  /\ left(d) \in CallsOf
             /\ left(d).at = call[d].at /\ left(d).got = call[d].got
             /\ left(d).now = call[d].now
             /\ ~left(d).late => ~call[d].late /\ call[d].at # call[c].at
  <2>1. call[d] \in CallsOf
    BY DEF Typed, ClientsTyped
  <2> QED
    BY <2>1 DEF CallsOf
<1>6. call'[c] = moved
  BY <1>2
<1>7. \A d \in Clients \ {c} : call'[d] = left(d)
  BY <1>2
<1>8. call' \in [Clients -> CallsOf]
  BY <1>2, <1>4, <1>5
<1> HIDE DEF moved, left
<1> QED
  BY <1>3, <1>5, <1>6, <1>7, <1>8

LEMMA NextBucketTyped ==
  ASSUME Typed, NEW c \in Clients, call[c].at > 0, NextBucket(c)
  PROVE  ClientsTyped'
<1>1. /\ call' \in [Clients -> CallsOf]
      /\ \A d \in Clients \ {c} : call'[d].at > 0 => call'[d].now > 0
  BY Moves DEF Typed, ClientsTyped
<1>2. call'[c].at > 0 => call'[c].now > 0
  <2>1. CASE call'[c] = Idle
    BY <2>1 DEF Idle
  <2>2. CASE call'[c] # Idle
    <3>1. call'[c].now = time
      BY <2>2, Moves, BucketReadTyped DEF Typed
    <3> QED
      BY <3>1, ConstantsTyped DEF Typed, CacheTyped
  <2> QED
    BY <2>1, <2>2
<1> QED
  BY <1>1, <1>2 DEF ClientsTyped

\* What a token does to the window before.
LEMMA GiveTyped ==
  ASSUME Typed, NEW c \in Clients, NEW w \in Windows
  PROVE  /\ Give(c, w) \in Windows
         /\ Give(c, w).start = w.start /\ Give(c, w).given = w.given + 1
         /\ call[c].late => Give(c, w).late = w.late + 1
         /\ ~call[c].late => Give(c, w).late = w.late
BY DEF Give, Lates, Windows

LEMMA PreviousTyped ==
  ASSUME Typed, NEW c \in Clients, call[c].at > 0, NEW w \in Windows, GiveInPrevious(c, w)
  PROVE  /\ previous' \in [Keys -> Windows]
         /\ \A k \in Keys \ {Key(c)} : previous'[k] = previous[k]
         /\ \/ previous'[Key(c)] = w
            \/ w # NoWindow /\ previous'[Key(c)] = Give(c, w)
<1>1. PICK to \in Windows : /\ to = w \/ (w # NoWindow /\ to = Give(c, w))
                            /\ previous' = [previous EXCEPT ![Key(c)] = to]
  BY GiveTyped DEF GiveInPrevious
<1>2. previous \in [Keys -> Windows] /\ Key(c) \in Keys
  BY AtBucket DEF Typed, CountsTyped
<1> QED
  BY <1>1, <1>2

\* The seconds a bucket has left, rounded down, are a timeout.
LEMMA TimeLeft ==
  ASSUME Typed, NEW c \in Clients, call[c].at > 0, ~NewWindow(c)
  PROVE  /\ (WindowEnd(c) - call[c].now) \div 2 \in Nat
         /\ Got(c) \in Live
<1>1. Got(c) \in Live
  BY AtBucket DEF NewWindow, Reads
<1>2. Got(c).start \in Nat /\ Window[Key(c)] \in Nat /\ call[c].now \in Nat
  BY <1>1, AtBucket, ConstantsTyped DEF Live
<1>3. WindowEnd(c) \in Nat /\ call[c].now <= WindowEnd(c)
  BY <1>2 DEF NewWindow, WindowEnd
<1>4. WindowEnd(c) - call[c].now \in Nat
  BY <1>2, <1>3
<1>5. \A n \in Nat : n \div 2 \in Nat
  OBVIOUS
<1> QED
  BY <1>1, <1>4, <1>5

LEMMA TypedStep == Typed /\ [LimitNext]_limitVars => Typed'
<1> SUFFICES ASSUME Typed, [LimitNext]_limitVars PROVE Typed'
  OBVIOUS
<1>1. CASE TimePasses
  <2>1. time' \in 1..MaxTime
    BY <1>1, ConstantsTyped DEF TimePasses, Typed, CacheTyped
  <2>2. cache' \in [Keys -> Reads]
    BY <1>1, MissedTyped DEF TimePasses, Typed, CacheTyped
  <2> QED
    BY <1>1, <2>1, <2>2 DEF TimePasses, Typed, CacheTyped, ClientsTyped, CountsTyped
<1>2. ASSUME NEW c \in Clients, AskToDeploy(c) PROVE Typed'
  <2>1. 1 \in 1..Len(Buckets)
    BY ConstantsTyped
  <2>2. Read(1) \in CallsOf /\ Read(1).now > 0
    BY <2>1, BucketReadTyped, ConstantsTyped DEF Typed, CacheTyped
  <2>3. call' = [call EXCEPT ![c] = Read(1)] /\ UNCHANGED <<time, cache, window, previous>>
    BY <1>2 DEF AskToDeploy
  <2>4. ClientsTyped'
    BY <2>2, <2>3 DEF Typed, ClientsTyped
  <2>5. calls' \in 0..MaxCalls
    BY <1>2, ConstantsTyped DEF AskToDeploy, Typed, CountsTyped
  <2> QED
    BY <2>3, <2>4, <2>5 DEF Typed, CacheTyped, CountsTyped
<1>3. ASSUME NEW c \in Clients, ConsumeNew(c) PROVE Typed'
  <2>1. call[c].at > 0 /\ Key(c) \in Keys /\ call[c].now \in 1..MaxTime
    BY <1>3, AtBucket DEF ConsumeNew
  <2>2. cache' \in [Keys -> Reads]
    <3>1. Window[Key(c)] \in Nat /\ Set(Key(c), 1, call[c].now, Window[Key(c)])
      BY <1>3, <2>1, ConstantsTyped DEF ConsumeNew
    <3>2. CacheTyped /\ 1 \in Nat \ {0}
      BY DEF Typed
    <3> QED
      BY ONLY <2>1, <3>1, <3>2, SetTyped
  <2>3. ClientsTyped'
    BY <1>3, <2>1, NextBucketTyped DEF ConsumeNew
  <2>4. window' \in [Keys -> Windows] /\ previous' \in [Keys -> Windows]
    <3>1. Give(c, [start |-> call[c].now, given |-> 0, late |-> 0]) \in Windows
      <4>1. [start |-> call[c].now, given |-> 0, late |-> 0] \in Windows
        BY <2>1, ConstantsTyped DEF Windows
      <4> QED
        BY <4>1, GiveTyped
    <3>2. window[Key(c)] \in Windows /\ GiveInPrevious(c, window[Key(c)])
      BY <1>3, <2>1 DEF ConsumeNew, Typed, CountsTyped
    <3>3. previous' \in [Keys -> Windows]
      BY ONLY <2>1, <3>2, Typed, PreviousTyped
    <3> QED
      BY <1>3, <3>1, <3>3 DEF ConsumeNew, Typed, CountsTyped
  <2> QED
    BY <1>3, <2>2, <2>3, <2>4 DEF ConsumeNew, Typed, CacheTyped, CountsTyped
<1>4. ASSUME NEW c \in Clients, ConsumeRefused(c) PROVE Typed'
  <2>1. Idle \in CallsOf /\ Idle.at = 0
    BY ConstantsTyped, MissedTyped DEF Idle, CallsOf
  <2> QED
    BY <1>4, <2>1 DEF ConsumeRefused, Typed, CacheTyped, ClientsTyped, CountsTyped
<1>5. ASSUME NEW c \in Clients, ConsumeToken(c) PROVE Typed'
  <2>1. call[c].at > 0 /\ ~NewWindow(c) /\ Key(c) \in Keys
    BY <1>5, AtBucket DEF ConsumeToken
  <2>2. Got(c).count + 1 \in Nat \ {0} /\ Got(c).start \in 1..MaxTime
    BY <2>1, TimeLeft DEF Live
  <2>3. cache' \in [Keys -> Reads]
    <3> DEFINE seconds == (WindowEnd(c) - call[c].now) \div 2
    <3>1. seconds \in Nat
      BY <2>1, TimeLeft
    <3>2. Set(Key(c), Got(c).count + 1, Got(c).start, seconds)
      BY <1>5 DEF ConsumeToken
    <3> HIDE DEF seconds
    <3> QED
      BY <2>1, <2>2, <3>1, <3>2, SetTyped DEF Typed
  <2>4. ClientsTyped'
    BY <1>5, <2>1, NextBucketTyped DEF ConsumeToken
  <2>5. window' \in [Keys -> Windows] /\ previous' \in [Keys -> Windows]
    <3>1. window[Key(c)] \in Windows /\ previous[Key(c)] \in Windows
      BY <2>1 DEF Typed, CountsTyped
    <3>2. previous[Key(c)] \in Windows /\ GiveInPrevious(c, previous[Key(c)])
      BY <1>5, <3>1 DEF ConsumeToken
    <3>3. previous' \in [Keys -> Windows]
      BY ONLY <2>1, <3>2, Typed, PreviousTyped
    <3>4. Give(c, window[Key(c)]) \in Windows
      BY <3>1, GiveTyped
    <3> QED
      BY <1>5, <3>3, <3>4 DEF ConsumeToken, Typed, CountsTyped
  <2> QED
    BY <1>5, <2>3, <2>4, <2>5 DEF ConsumeToken, Typed, CacheTyped, CountsTyped
<1>6. CASE UNCHANGED limitVars
  BY <1>6 DEF limitVars, Typed, CacheTyped, ClientsTyped, CountsTyped
<1> QED
  BY <1>1, <1>2, <1>3, <1>4, <1>5, <1>6 DEF LimitNext

\* What is cached at a whole time is cached after the clock started.
LEMMA LimitTyped == Typed => LimitTypeOK
<1> SUFFICES ASSUME Typed PROVE LimitTypeOK
  OBVIOUS
<1>1. \A c \in Clients : call[c].at \in 0..Len(Buckets)
  BY DEF Typed, ClientsTyped, CallsOf
<1>2. \A k \in Keys : cache[k] = Missed \/ (cache[k].count > 0 /\ cache[k].start \in 1..MaxTime)
  BY DEF Typed, CacheTyped, Reads, Live
<1> QED
  BY <1>1, <1>2 DEF LimitTypeOK, Typed, CacheTyped, CountsTyped

\* Type correctness of the limiter: the cache holds whole counts made at times that have
\* been, and a client is at one of the buckets or at none.
THEOREM LimitTypeCorrect == LimitSpec => []LimitTypeOK
BY LimitTyped, TypedInit, TypedStep, PTL DEF LimitSpec

-----------------------------------------------------------------------------
(* The strengthening.  What the cache holds, and what a client that is not *)
(* late has read of it, is the count of the window up to the tokens of     *)
(* late writers; without one it is of this window, lasts to its last       *)
(* second, and once it is gone that second has come.                       *)

Fresh(c, k) == call[c].at > 0 /\ Key(c) = k /\ ~call[c].late
LastSecond(k) == window[k].start + 2 * Window[k] - 1

CountHolds(k) ==
  /\ window[k].given <= Limit[k] * (1 + window[k].late)
  /\ cache[k] # Missed => window[k].given <= cache[k].count + Limit[k] * window[k].late
  /\ \A c \in Clients : Fresh(c, k) /\ Got(c) # Missed =>
       window[k].given <= Got(c).count + Limit[k] * window[k].late

CacheHolds(k) ==
  /\ window[k].given = 0 => window[k] = NoWindow /\ cache[k] = Missed
  /\ window[k].given > 0 /\ window[k].late = 0 =>
       IF cache[k] = Missed THEN time >= LastSecond(k)
       ELSE cache[k].start = window[k].start /\ cache[k].expires >= LastSecond(k)

ReadHolds(k) ==
  \A c \in Clients : Fresh(c, k) =>
    /\ window[k].given = 0 => Got(c) = Missed
    /\ window[k].given > 0 /\ window[k].late = 0 =>
         IF Got(c) = Missed THEN call[c].now >= LastSecond(k)
         ELSE Got(c).start = window[k].start

PreviousHolds(k) ==
  /\ previous[k].given = 0 => previous[k] = NoWindow
  /\ previous[k].late = 0 => previous[k].given <= Limit[k] + window[k].given
  /\ previous[k].late = 0 /\ window[k].late = 0 /\ previous[k].given > 0 =>
       window[k].start >= previous[k].start + 2 * Window[k] - 1

Held ==
  /\ \A c \in Clients : call[c].at > 0 => call[c].now <= time
  /\ \A k \in Keys : CountHolds(k) /\ CacheHolds(k) /\ ReadHolds(k) /\ PreviousHolds(k)

LEMMA HeldInit == LimitInit => Held
BY ConstantsTyped
   DEF LimitInit, Held, CountHolds, CacheHolds, ReadHolds, PreviousHolds, NoWindow, Idle, Fresh

\* What a get returns now would do for a client that is not late.
LEMMA ReadGood ==
  ASSUME Typed, Held, NEW k \in Keys
  PROVE  /\ Get(k) # Missed =>
              window[k].given <= Get(k).count + Limit[k] * window[k].late
         /\ window[k].given = 0 => Get(k) = Missed
         /\ window[k].given > 0 /\ window[k].late = 0 =>
              IF Get(k) = Missed THEN time >= LastSecond(k)
              ELSE Get(k).start = window[k].start
<1>1. CountHolds(k) /\ CacheHolds(k)
  BY DEF Held
<1>2. window[k] \in Windows /\ Window[k] \in Nat /\ time \in Nat /\ cache[k] \in Reads
  BY ConstantsTyped DEF Typed, CacheTyped, CountsTyped
<1>3. LastSecond(k) \in Int
  BY <1>2 DEF LastSecond, Windows
<1>4. CASE Get(k) # Missed
  <2>1. Get(k) = cache[k] /\ cache[k] # Missed
    BY <1>4 DEF Get
  <2> QED
    BY <1>1, <1>4, <2>1 DEF CountHolds, CacheHolds
<1>5. CASE Get(k) = Missed
  <2>1. cache[k] # Missed => cache[k].expires <= time /\ cache[k].expires \in Nat
    BY <1>2, <1>5 DEF Get, Reads, Live
  <2>2. ASSUME window[k].given > 0, window[k].late = 0 PROVE time >= LastSecond(k)
    BY <1>1, <1>2, <1>3, <2>1, <2>2 DEF CacheHolds
  <2> QED
    BY <1>5, <2>2
<1> QED
  BY <1>4, <1>5

\* Nobody is fresh at a bucket that was just written; elsewhere a client is as fresh as it
\* was, or has just read.
LEMMA FreshAfter ==
  ASSUME Typed, NEW c \in Clients, call[c].at > 0, NextBucket(c),
         NEW d \in Clients, NEW k \in Keys, Fresh(d, k)'
  PROVE  /\ k # Key(c)
         /\ \/ Fresh(d, k) /\ Got(d)' = Got(d) /\ call'[d].now = call[d].now
            \/ Got(d)' = Get(k) /\ call'[d].now = time
<1>1. \A e \in Clients : call[e] \in CallsOf
  BY DEF Typed, ClientsTyped
<1>2. call[c].at \in 1..Len(Buckets) /\ call'[d].at > 0 /\ Buckets[call'[d].at] = k
      /\ ~call'[d].late
  BY AtBucket DEF Fresh, Key
<1>3. CASE d = c
  <2>1. call'[c] # Idle
    BY <1>2, <1>3 DEF Idle
  <2>2. call[c].at + 1 \in 1..Len(Buckets) /\ call'[c] = Read(call[c].at + 1)
    BY <2>1, Moves
  <2>3. call'[c].at = call[c].at + 1 /\ call'[c].now = time
        /\ call'[c].got = Get(Buckets[call[c].at + 1])
    BY <2>2, BucketReadTyped DEF Typed
  <2>4. k = Buckets[call[c].at + 1] /\ Got(d)' = Get(k)
    BY <1>2, <1>3, <2>3 DEF Got
  <2>5. k # Key(c)
    <3>1. call[c].at # call[c].at + 1
      BY <1>2
    <3>2. DOMAIN Buckets = 1..Len(Buckets)
      BY LimitAssumption
    <3> QED
      BY <1>2, <2>2, <2>4, <3>1, <3>2, LimitAssumption DEF Key
  <2> QED
    BY <1>3, <2>3, <2>4, <2>5
<1>4. CASE d # c
  <2>1. call'[d].at = call[d].at /\ call'[d].got = call[d].got /\ call'[d].now = call[d].now
        /\ ~call[d].late /\ call[d].at # call[c].at
    BY <1>2, <1>4, Moves
  <2>2. Fresh(d, k) /\ Got(d)' = Got(d)
    BY <1>2, <2>1 DEF Fresh, Key, Got
  <2>3. k # Key(c)
    <3>1. call[d].at \in 1..Len(Buckets)
      BY <1>2, <2>1, AtBucket
    <3>2. DOMAIN Buckets = 1..Len(Buckets)
      BY LimitAssumption
    <3> QED
      BY <1>2, <2>1, <3>1, <3>2, LimitAssumption DEF Key
  <2> QED
    BY <2>1, <2>2, <2>3
<1> QED
  BY <1>3, <1>4

\* A client that has read a bucket nobody has written stays right about it, and so does one
\* that reads it.
LEMMA BucketStays ==
  ASSUME Typed, Held, NEW k \in Keys, UNCHANGED time,
         cache'[k] = cache[k], window'[k] = window[k], previous'[k] = previous[k],
         \A d \in Clients : Fresh(d, k)' =>
           \/ Fresh(d, k) /\ Got(d)' = Got(d) /\ call'[d].now = call[d].now
           \/ Got(d)' = Get(k) /\ call'[d].now = time
  PROVE  CountHolds(k)' /\ CacheHolds(k)' /\ ReadHolds(k)' /\ PreviousHolds(k)'
<1>1. CountHolds(k) /\ CacheHolds(k) /\ ReadHolds(k) /\ PreviousHolds(k)
  BY DEF Held
<1>2. CountHolds(k)'
  BY <1>1, ReadGood DEF CountHolds
<1>3. CacheHolds(k)'
  BY <1>1 DEF CacheHolds, LastSecond
<1>4. ReadHolds(k)'
  BY <1>1, ReadGood DEF ReadHolds, LastSecond
<1>5. PreviousHolds(k)'
  BY <1>1 DEF PreviousHolds
<1> QED
  BY <1>2, <1>3, <1>4, <1>5

LEMMA TimesStay ==
  ASSUME Typed, Held, NEW c \in Clients, call[c].at > 0, NextBucket(c), UNCHANGED time
  PROVE  \A d \in Clients : call'[d].at > 0 => call'[d].now <= time'
<1>1. time \in Nat
  BY ConstantsTyped DEF Typed, CacheTyped
<1>2. \A d \in Clients \ {c} : call'[d].at > 0 => call'[d].now <= time'
  BY Moves DEF Held
<1>3. call'[c].at > 0 => call'[c].now = time
  BY Moves, BucketReadTyped DEF Typed, Idle
<1> QED
  BY <1>1, <1>2, <1>3

\* A write: the other buckets stay; of this one the cache and the windows are to be shown.
LEMMA WriteHolds ==
  ASSUME Typed, Held, NEW c \in Clients, call[c].at > 0, NextBucket(c), UNCHANGED time,
         NEW q \in Keys, q = Key(c),
         \A k \in Keys \ {q} : /\ cache'[k] = cache[k] /\ window'[k] = window[k]
                               /\ previous'[k] = previous[k],
         window'[q].given <= Limit[q] * (1 + window'[q].late),
         cache'[q] # Missed =>
           window'[q].given <= cache'[q].count + Limit[q] * window'[q].late,
         CacheHolds(q)', PreviousHolds(q)'
  PROVE  Held'
<1>1. ASSUME NEW k \in Keys
      PROVE  CountHolds(k)' /\ CacheHolds(k)' /\ ReadHolds(k)' /\ PreviousHolds(k)'
  <2>1. CASE k # q
    BY <2>1, FreshAfter, BucketStays
  <2>2. CASE k = q
    <3>1. \A d \in Clients : ~Fresh(d, k)'
      BY <2>2, FreshAfter
    <3>2. CountHolds(k)'
      BY <2>2, <3>1 DEF CountHolds
    <3>3. ReadHolds(k)'
      BY <3>1 DEF ReadHolds
    <3> QED
      BY <2>2, <3>2, <3>3
  <2> QED
    BY <2>1, <2>2
<1>2. (\A k \in Keys : CountHolds(k) /\ CacheHolds(k) /\ ReadHolds(k) /\ PreviousHolds(k))'
  BY <1>1 DEF Keys
<1> QED
  BY <1>2, TimesStay DEF Held

\* What the clients, the clock and the two windows of a bucket are when it is written.
LEMMA AtWrite ==
  ASSUME Typed, Held, NEW c \in Clients, call[c].at > 0
  PROVE  /\ Key(c) \in Keys /\ Limit[Key(c)] \in Nat \ {0} /\ Window[Key(c)] \in Nat \ {0, 1}
         /\ window[Key(c)] \in Windows /\ previous[Key(c)] \in Windows
         /\ call[c].now \in 1..MaxTime /\ time \in Nat /\ call[c].now <= time
         /\ ~call[c].late => Fresh(c, Key(c))
         /\ CountHolds(Key(c)) /\ CacheHolds(Key(c)) /\ ReadHolds(Key(c)) /\ PreviousHolds(Key(c))
BY AtBucket, ConstantsTyped DEF Typed, CountsTyped, CacheTyped, Held, Fresh

LEMMA NewHolds ==
  ASSUME Typed, Held, NEW c \in Clients, ConsumeNew(c) PROVE Held'
<1> SUFFICES ASSUME NEW q \in Keys, q = Key(c), NEW n \in 1..MaxTime, n = call[c].now
             PROVE  Held'
  BY AtBucket DEF ConsumeNew
<1> DEFINE opened == [start |-> n, given |-> 0, late |-> 0]
<1>1. /\ call[c].at > 0 /\ NewWindow(c) /\ NextBucket(c) /\ UNCHANGED time
      /\ Set(q, 1, n, Window[q]) /\ window' = [window EXCEPT ![q] = Give(c, opened)]
      /\ GiveInPrevious(c, window[q])
  BY DEF ConsumeNew
<1>2. /\ q \in Keys /\ Limit[q] \in Nat \ {0} /\ Window[q] \in Nat \ {0, 1}
      /\ window[q] \in Windows /\ n \in 1..MaxTime /\ time \in Nat /\ n <= time
      /\ ~call[c].late => Fresh(c, q)
      /\ CountHolds(q) /\ CacheHolds(q) /\ ReadHolds(q)
  BY <1>1, AtWrite
<1>3. opened \in Windows /\ opened.start = n /\ opened.given = 0 /\ opened.late = 0
  BY <1>2, ConstantsTyped DEF Windows
<1>4. /\ window'[q] \in Windows /\ window'[q].start = n /\ window'[q].given = 1
      /\ call[c].late => window'[q].late = 1
      /\ ~call[c].late => window'[q].late = 0
  BY <1>1, <1>2, <1>3, GiveTyped DEF Typed, CountsTyped
<1>5. cache'[q] = [count |-> 1, start |-> n, expires |-> time + 2 * Window[q]]
  BY <1>1, <1>2 DEF Set, Typed, CacheTyped
<1>6. \A k \in Keys \ {q} : /\ cache'[k] = cache[k] /\ window'[k] = window[k]
                            /\ previous'[k] = previous[k]
  BY <1>1, <1>2, PreviousTyped DEF Set, Typed, CacheTyped, CountsTyped
<1>7. \/ previous'[q] = window[q]
      \/ window[q] # NoWindow /\ previous'[q] = Give(c, window[q])
  BY <1>1, <1>2, PreviousTyped
<1>8. /\ previous'[q].start = window[q].start
      /\ previous'[q].late = 0 => window[q].late = 0
      /\ previous'[q].given <= window[q].given + 1
      /\ previous'[q].given > 0 => window[q].given > 0
  <2>1. /\ Give(c, window[q]).start = window[q].start
        /\ Give(c, window[q]).given = window[q].given + 1
        /\ Give(c, window[q]).late = 0 => window[q].late = 0
    <3>1. window[q].late \in Nat
      BY <1>2 DEF Windows
    <3> QED
      BY <1>2, <3>1, GiveTyped
  <2>2. window[q] # NoWindow => window[q].given > 0
    BY <1>2 DEF CacheHolds, Windows
  <2>3. window[q].given \in Nat
    BY <1>2 DEF Windows
  <2> QED
    BY <1>7, <2>1, <2>2, <2>3
<1>9. ASSUME ~call[c].late, window[q].late = 0, window[q].given > 0
      PROVE  n >= window[q].start + 2 * Window[q] - 1
  <2>1. window[q].start \in Nat /\ LastSecond(q) = window[q].start + 2 * Window[q] - 1
    BY <1>2, ConstantsTyped DEF Windows, LastSecond
  <2>2. CASE Got(c) = Missed
    BY <1>2, <1>9, <2>1, <2>2 DEF ReadHolds
  <2>3. CASE Got(c) # Missed
    <3>1. Got(c).start = window[q].start
      BY <1>2, <1>9, <2>3 DEF ReadHolds
    <3>2. n > Got(c).start + 2 * Window[q]
      BY <1>1, <2>3 DEF NewWindow, WindowEnd
    <3> QED
      BY <1>2, <2>1, <3>1, <3>2
  <2> QED
    BY <2>2, <2>3
<1>10. window'[q].late \in Nat /\ window[q].late \in Nat /\ window[q].given \in Nat
       /\ window[q].start \in Nat
  BY <1>2, <1>4, ConstantsTyped DEF Windows
<1> HIDE DEF opened
<1>11. window'[q].given <= Limit[q] * (1 + window'[q].late)
  BY <1>2, <1>4
<1>12. cache'[q] # Missed =>
         window'[q].given <= cache'[q].count + Limit[q] * window'[q].late
  BY <1>2, <1>4, <1>5
<1>13. CacheHolds(q)'
  <2>1. cache'[q] # Missed
    BY <1>5 DEF Missed
  <2>2. cache'[q].start = n /\ cache'[q].expires >= n + 2 * Window[q] - 1
    BY <1>1, <1>2, <1>5
  <2> QED
    BY <1>2, <1>4, <2>1, <2>2 DEF CacheHolds, LastSecond
<1>14. PreviousHolds(q)'
  <2>1. ASSUME previous'[q].late = 0
        PROVE  previous'[q].given <= Limit[q] + window'[q].given
    <3>1. window[q].given <= Limit[q]
      BY <1>2, <1>8, <2>1 DEF CountHolds
    <3>2. previous'[q].given \in Nat
      <4>1. previous' \in [Keys -> Windows]
        BY <1>1, <1>2, PreviousTyped
      <4> QED
        BY <1>2, <4>1 DEF Windows
    <3> QED
      BY <1>2, <1>4, <1>8, <1>10, <3>1, <3>2
  <2>2. ASSUME previous'[q].late = 0, window'[q].late = 0, previous'[q].given > 0
        PROVE  window'[q].start >= previous'[q].start + 2 * Window[q] - 1
    BY <1>4, <1>8, <1>9, <2>2
  <2>3. previous'[q].given = 0 => previous'[q] = NoWindow
    <3>1. Give(c, window[q]).given = window[q].given + 1
      BY <1>2, GiveTyped
    <3>2. window[q].given = 0 => window[q] = NoWindow
      BY <1>2 DEF CacheHolds
    <3> QED
      BY <1>7, <1>10, <3>1, <3>2
  <2> QED
    BY <2>1, <2>2, <2>3 DEF PreviousHolds
<1> QED
  BY <1>1, <1>2, <1>6, <1>11, <1>12, <1>13, <1>14, WriteHolds

LEMMA TokenHolds ==
  ASSUME Typed, Held, NEW c \in Clients, ConsumeToken(c) PROVE Held'
<1> SUFFICES ASSUME NEW q \in Keys, q = Key(c), NEW n \in 1..MaxTime, n = call[c].now
             PROVE  Held'
  BY AtBucket DEF ConsumeToken
<1> DEFINE e == Got(c).start + 2 * Window[q]
           seconds == (e - n) \div 2
<1>1. /\ call[c].at > 0 /\ ~NewWindow(c) /\ ~UsedUp(c) /\ NextBucket(c) /\ UNCHANGED time
      /\ Set(q, Got(c).count + 1, Got(c).start, seconds)
      /\ window' = [window EXCEPT ![q] = Give(c, @)]
      /\ GiveInPrevious(c, previous[q])
  BY DEF ConsumeToken, WindowEnd
<1>2. /\ q \in Keys /\ Limit[q] \in Nat \ {0} /\ Window[q] \in Nat \ {0, 1}
      /\ window[q] \in Windows /\ previous[q] \in Windows
      /\ n \in 1..MaxTime /\ time \in Nat /\ n <= time
      /\ ~call[c].late => Fresh(c, q)
      /\ CountHolds(q) /\ CacheHolds(q) /\ ReadHolds(q) /\ PreviousHolds(q)
  BY <1>1, AtWrite
<1>3. /\ Got(c) \in Live /\ Got(c) # Missed /\ Got(c).count < Limit[q] /\ n <= e
      /\ Got(c).count \in Nat /\ Got(c).start \in 1..MaxTime
  <2>1. Got(c) \in Live
    BY <1>1, TimeLeft
  <2>2. Got(c) # Missed /\ ~(n > e) /\ ~(Got(c).count >= Limit[q])
    BY <1>1 DEF NewWindow, UsedUp, WindowEnd
  <2>3. Got(c).count \in Nat /\ Got(c).start \in 1..MaxTime
    BY <2>1 DEF Live
  <2>4. e \in Nat /\ n \in Nat
    BY <1>2, <2>3, ConstantsTyped
  <2> HIDE DEF e
  <2> QED
    BY <1>2, <2>1, <2>2, <2>3, <2>4
<1>4. e \in Nat /\ n \in Nat /\ seconds \in Nat /\ 2 * seconds >= e - n - 1
      /\ 2 * seconds <= e - n
  <2>1. e \in Nat /\ n \in Nat /\ e - n \in Nat
    <3>1. e \in Nat /\ n \in Nat
      BY <1>2, <1>3, ConstantsTyped
    <3> HIDE DEF e
    <3> QED
      BY <1>3, <3>1
  <2>2. \A x \in Nat : x \div 2 \in Nat /\ 2 * (x \div 2) >= x - 1 /\ 2 * (x \div 2) <= x
    OBVIOUS
  <2> HIDE DEF e
  <2> QED
    BY <2>1, <2>2
<1>5. /\ window'[q] = Give(c, window[q])
      /\ window'[q].start = window[q].start /\ window'[q].given = window[q].given + 1
      /\ call[c].late => window'[q].late = window[q].late + 1
      /\ ~call[c].late => window'[q].late = window[q].late
  BY <1>1, <1>2, GiveTyped DEF Typed, CountsTyped
<1>6. cache'[q] = IF seconds = 0 THEN Missed
                  ELSE [count |-> Got(c).count + 1, start |-> Got(c).start,
                        expires |-> time + 2 * seconds]
  BY <1>1, <1>2 DEF Set, Typed, CacheTyped
<1>7. \A k \in Keys \ {q} : /\ cache'[k] = cache[k] /\ window'[k] = window[k]
                            /\ previous'[k] = previous[k]
  BY <1>1, <1>2, PreviousTyped DEF Set, Typed, CacheTyped, CountsTyped
<1>8. \/ previous'[q] = previous[q]
      \/ previous[q] # NoWindow /\ previous'[q] = Give(c, previous[q])
  BY <1>1, <1>2, PreviousTyped
<1>9. /\ window[q].late \in Nat /\ window[q].given \in Nat /\ window[q].start \in Nat
      /\ previous[q].late \in Nat /\ previous[q].given \in Nat /\ previous[q].start \in Nat
  BY <1>2, ConstantsTyped DEF Windows
<1>10. /\ window[q].given > 0 \/ call[c].late
       /\ ~call[c].late => window[q].given <= Got(c).count + Limit[q] * window[q].late
       /\ ~call[c].late /\ window[q].late = 0 => Got(c).start = window[q].start
  <2>1. ASSUME ~call[c].late
        PROVE  /\ window[q].given > 0
               /\ window[q].given <= Got(c).count + Limit[q] * window[q].late
               /\ window[q].late = 0 => Got(c).start = window[q].start
    <3>1. Fresh(c, q)
      BY <1>2, <2>1
    <3>2. window[q].given > 0
      BY <1>2, <1>3, <1>9, <3>1 DEF ReadHolds
    <3> QED
      BY <1>2, <1>3, <3>1, <3>2 DEF CountHolds, ReadHolds
  <2> QED
    BY <2>1
<1> HIDE DEF e, seconds
<1>11. /\ window'[q].given <= Got(c).count + 1 + Limit[q] * window'[q].late
       /\ window'[q].given <= Limit[q] * (1 + window'[q].late)
  <2> DEFINE L == Limit[q]  g == window[q].given  l == window[q].late  h == Got(c).count
  <2>1. L \in Nat /\ g \in Nat /\ l \in Nat /\ h \in Nat /\ h + 1 <= L
    BY <1>2, <1>3, <1>9
  <2>2. g <= L * (1 + l)
    BY <1>2 DEF CountHolds
  <2>3. L * (1 + l) = L * l + L /\ L * (1 + (l + 1)) = L * l + L + L /\ L * l \in Nat
    BY <2>1
  <2>4. CASE call[c].late
    <3>1. window'[q].given = g + 1 /\ window'[q].late = l + 1
      BY <1>5, <2>4
    <3>2. L * (l + 1) = L * l + L
      BY <2>1
    <3>3. g + 1 <= h + 1 + (L * l + L) /\ g + 1 <= L * l + L + L
      <4> HIDE DEF L, g, l, h
      <4> QED
        BY <2>1, <2>2, <2>3
    <3> QED
      BY <2>3, <3>1, <3>2, <3>3
  <2>5. CASE ~call[c].late
    <3>1. window'[q].given = g + 1 /\ window'[q].late = l /\ g <= h + L * l
      BY <1>5, <1>10, <2>5
    <3> HIDE DEF L, g, l, h
    <3> QED
      BY <2>1, <2>2, <2>3, <3>1 DEF h, L
  <2> QED
    BY <2>4, <2>5
<1>12. cache'[q] # Missed =>
         window'[q].given <= cache'[q].count + Limit[q] * window'[q].late
  BY <1>6, <1>11
<1>13. CacheHolds(q)'
  <2>1. window'[q].given > 0
    BY <1>5, <1>9
  <2>2. ASSUME window'[q].late = 0
        PROVE  IF cache'[q] = Missed THEN time >= window[q].start + 2 * Window[q] - 1
               ELSE /\ cache'[q].start = window[q].start
                    /\ cache'[q].expires >= window[q].start + 2 * Window[q] - 1
    <3>1. ~call[c].late /\ window[q].late = 0
      BY <1>5, <1>9, <2>2
    <3>2. e = window[q].start + 2 * Window[q] /\ Got(c).start = window[q].start
      BY <1>10, <3>1 DEF e
    <3>3. time + 2 * seconds >= e - 1
      BY <1>2, <1>4
    <3>4. CASE seconds = 0
      <4>1. cache'[q] = Missed
        BY <1>6, <3>4
      <4>2. time >= e - 1
        BY <1>2, <1>4, <3>3, <3>4
      <4> QED
        BY <1>2, <1>4, <1>9, <3>2, <4>1, <4>2
    <3>5. CASE seconds # 0
      <4>1. cache'[q] = [count |-> Got(c).count + 1, start |-> Got(c).start,
                         expires |-> time + 2 * seconds]
        BY <1>6, <3>5
      <4>2. cache'[q].start = Got(c).start /\ cache'[q].expires = time + 2 * seconds
        BY <4>1
      <4>3. cache'[q] # Missed
        BY <1>3, <4>2 DEF Missed
      <4>4. cache'[q].expires >= e - 1
        BY <3>3, <4>2
      <4> QED
        BY <1>2, <1>4, <1>9, <3>2, <4>2, <4>3, <4>4
    <3> QED
      BY <3>4, <3>5
  <2>3. LastSecond(q)' = window[q].start + 2 * Window[q] - 1 /\ time' = time
    BY <1>1, <1>5 DEF LastSecond
  <2>4. window'[q].given \in Nat /\ window'[q].given # 0
    BY <1>5, <1>9, <2>1
  <2> QED
    BY <1>5, <2>1, <2>2, <2>3, <2>4 DEF CacheHolds
<1>14. PreviousHolds(q)'
  <2>1. previous[q].given = 0 => previous[q] = NoWindow
    BY <1>2 DEF PreviousHolds
  <2>2. CASE previous'[q] = previous[q]
    BY <1>2, <1>5, <1>9, <2>1, <2>2 DEF PreviousHolds
  <2>3. CASE previous'[q] # previous[q]
    <3>1. previous'[q] = Give(c, previous[q]) /\ previous[q].given > 0
      BY <1>8, <1>9, <2>1, <2>3
    <3>2. /\ previous'[q].start = previous[q].start
          /\ previous'[q].given = previous[q].given + 1
          /\ previous'[q].late = 0 => previous[q].late = 0
      BY <1>2, <1>9, <3>1, GiveTyped
    <3>3. window'[q].late = 0 => window[q].late = 0
      BY <1>5, <1>9
    <3>4. previous'[q].given # 0
      BY <1>9, <3>2
    <3>5. previous'[q].late = 0 => previous'[q].given <= Limit[q] + window'[q].given
      BY <1>2, <1>5, <1>9, <3>2 DEF PreviousHolds
    <3>6. previous'[q].late = 0 /\ window'[q].late = 0 =>
            window'[q].start >= previous'[q].start + 2 * Window[q] - 1
      BY <1>2, <1>5, <3>1, <3>2, <3>3 DEF PreviousHolds
    <3> QED
      BY <3>4, <3>5, <3>6 DEF PreviousHolds
  <2> QED
    BY <2>2, <2>3
<1> QED
  BY <1>1, <1>2, <1>7, <1>11, <1>12, <1>13, <1>14, WriteHolds

LEMMA HeldStep == Typed /\ Held /\ [LimitNext]_limitVars => Held'
<1> SUFFICES ASSUME Typed, Held, [LimitNext]_limitVars PROVE Held'
  OBVIOUS
<1>1. CASE TimePasses
  <2>1. /\ time' = time + 1 /\ UNCHANGED <<call, window, previous>> /\ time \in Nat
        /\ \A k \in Keys : \/ cache'[k] = cache[k]
                           \/ cache'[k] = Missed /\ cache[k].expires <= time'
    BY <1>1, ConstantsTyped DEF TimePasses, Typed, CacheTyped, Missed, Reads, Live
  <2>2. \A c \in Clients : call'[c].at > 0 => call'[c].now <= time'
    BY <2>1 DEF Held, Typed, ClientsTyped, CallsOf
  <2>3. ASSUME NEW k \in Keys
        PROVE  CountHolds(k)' /\ CacheHolds(k)' /\ ReadHolds(k)' /\ PreviousHolds(k)'
    <3>1. CountHolds(k) /\ CacheHolds(k) /\ ReadHolds(k) /\ PreviousHolds(k)
      BY DEF Held
    <3>2. CountHolds(k)'
      BY <2>1, <3>1 DEF CountHolds, Fresh, Key, Got
    <3>3. ReadHolds(k)' /\ PreviousHolds(k)'
      BY <2>1, <3>1 DEF ReadHolds, PreviousHolds, Fresh, Key, Got, LastSecond
    <3>4. CacheHolds(k)'
      <4>1. cache[k] # Missed => cache[k].expires \in Nat
        BY DEF Typed, CacheTyped, Reads, Live
      <4>2. LastSecond(k) \in Int /\ LastSecond(k)' = LastSecond(k)
        BY <2>1, ConstantsTyped DEF LastSecond, Typed, CountsTyped, Windows
      <4> QED
        BY <2>1, <3>1, <4>1, <4>2 DEF CacheHolds
    <3> QED
      BY <3>2, <3>3, <3>4
  <2>4. (\A k \in Keys : CountHolds(k) /\ CacheHolds(k) /\ ReadHolds(k) /\ PreviousHolds(k))'
    BY <2>3 DEF Keys
  <2> QED
    BY <2>2, <2>4 DEF Held
<1>2. ASSUME UNCHANGED <<time, cache, window, previous>>, NEW c \in Clients,
             \A d \in Clients \ {c} : call'[d] = call[d],
             call'[c] = Idle \/ call'[c] = Read(1)
      PROVE  Held'
  <2>1. 1 \in 1..Len(Buckets) /\ time \in Nat
    BY ConstantsTyped DEF Typed, CacheTyped
  <2>2. \A d \in Clients : call'[d].at > 0 => call'[d].now <= time'
    BY <1>2, <2>1, BucketReadTyped DEF Held, Typed, Idle
  <2>3. ASSUME NEW k \in Keys
        PROVE  CountHolds(k)' /\ CacheHolds(k)' /\ ReadHolds(k)' /\ PreviousHolds(k)'
    <3>1. ASSUME NEW d \in Clients, Fresh(d, k)'
          PROVE  \/ Fresh(d, k) /\ Got(d)' = Got(d) /\ call'[d].now = call[d].now
                 \/ Got(d)' = Get(k) /\ call'[d].now = time
      <4>1. CASE d = c
        <5>1. call'[c] = Read(1)
          BY <1>2, <3>1, <4>1 DEF Fresh, Idle
        <5> QED
          BY <2>1, <3>1, <4>1, <5>1, BucketReadTyped DEF Fresh, Key, Got, Typed
      <4>2. CASE d # c
        BY <1>2, <3>1, <4>2 DEF Fresh, Key, Got
      <4> QED
        BY <4>1, <4>2
    <3> QED
      BY <1>2, <3>1, BucketStays
  <2>4. (\A k \in Keys : CountHolds(k) /\ CacheHolds(k) /\ ReadHolds(k) /\ PreviousHolds(k))'
    BY <2>3 DEF Keys
  <2> QED
    BY <2>2, <2>4 DEF Held
<1>3. ASSUME NEW c \in Clients, AskToDeploy(c) PROVE Held'
  BY <1>2, <1>3 DEF AskToDeploy, Typed, ClientsTyped
<1>4. ASSUME NEW c \in Clients, ConsumeRefused(c) PROVE Held'
  BY <1>2, <1>4 DEF ConsumeRefused, Typed, ClientsTyped
<1>5. CASE UNCHANGED limitVars
  BY <1>5 DEF limitVars, Held, CountHolds, CacheHolds, ReadHolds, PreviousHolds, Fresh, Key, Got,
              LastSecond
<1> QED
  BY <1>1, <1>3, <1>4, <1>5, NewHolds, TokenHolds DEF LimitNext

\* RateLimiter.consume for any clients, limits and windows of two seconds or more: a bucket
\* gives out its limit and at most as much again for each client that wrote late; with none
\* it is not made new before the last second of its window, and a window gives out at most
\* twice the limit.
THEOREM LimitHolds == LimitSpec => []BucketHoldsItsLimit
<1>1. LimitInit => Typed /\ Held
  BY TypedInit, HeldInit
<1>2. Typed /\ Held /\ [LimitNext]_limitVars => (Typed /\ Held)'
  BY TypedStep, HeldStep
<1>3. Typed /\ Held => BucketHoldsItsLimit
  <2> SUFFICES ASSUME Typed, Held, NEW k \in Keys
               PROVE  /\ window[k].given <= Limit[k] * (1 + window[k].late)
                      /\ window[k].late = 0 /\ previous[k].late = 0 =>
                           /\ previous[k].given <= 2 * Limit[k]
                           /\ previous[k].given > 0 =>
                                window[k].start > previous[k].start + 2 * Window[k] - 2
    BY DEF BucketHoldsItsLimit
  <2>1. CountHolds(k) /\ PreviousHolds(k)
    BY DEF Held
  <2>2. /\ Limit[k] \in Nat /\ Window[k] \in Nat
        /\ window[k].given \in Nat /\ window[k].start \in Nat
        /\ previous[k].given \in Nat /\ previous[k].start \in Nat
    BY ConstantsTyped DEF Typed, CountsTyped, Windows
  <2>3. window[k].late = 0 => window[k].given <= Limit[k]
    BY <2>1, <2>2 DEF CountHolds
  <2> QED
    BY <2>1, <2>2, <2>3 DEF CountHolds, PreviousHolds
<1> QED
  BY <1>1, <1>2, <1>3, PTL DEF LimitSpec

-----------------------------------------------------------------------------
(***************************************************************************)
(* RemoteCommands.                                                         *)
(* For every set of tasks, any number of polls and any faults: what rc     *)
(* reports of a remote command is what happened in the container.  The     *)
(* invariant follows the process: where the command stands decides whether *)
(* a process can exist, and an end rc did not hear is marked as unheard.   *)
(***************************************************************************)

\* The places of a call before the process it is about can exist.
Unstarted == {"start", "list", "describe", "clock", "session"}
\* The states of a process that rc rightly calls not successful.
Failing == {"none", "exit 1", "killed"}

\* Whether an exit code other than 0 of w, or none, is the truth or what rc made of it.
Told(w) == process[w].state \in Failing \/ w \in unheard

\* What rc believes of the two processes, the probe and the command, at each step:
\* a result exists when the call is over, only a process that has ended is read, the
\* command starts after the probe, and a wrong verdict is about an end nobody heard.
CommandSound ==
  /\ callAt = "over" <=> result # "none"
  /\ callAt \in Unstarted => process[doing].state = "none"
  /\ callAt = "read" => process[doing].state \in Ended
  /\ doing = "probe" => process["command"].state = "none"
  /\ doing = "command" => Told("probe")
  /\ process["probe"].state = "exit 0" => effect
  /\ result = "ok" => process["command"].state = "exit 0"
  /\ result = "failed" => Told("command")
  /\ result = "skipped" => effect

\* The types of the call, of the two processes, and of what they run on.
CallTyped ==
  /\ given \in Commands /\ doing \in Parts
  /\ callAt \in {"start", "list", "describe", "clock", "session", "attached", "waiter",
                 "read", "over"}
  /\ listed \subseteq ServiceTasks /\ onTask \subseteq ServiceTasks /\ polls \in 0..MaxPolls
  /\ result \in {"none", "ok", "failed", "skipped", "raised", "submitted"}
Processes == [state : {"none", "placing", "running"} \cup Ended, on : SUBSET ServiceTasks]
ProcessTyped == process \in [Parts -> Processes]
PlaceTyped ==
  /\ hook \in [mode : {"exec", "task"}, once : BOOLEAN] /\ withStateful \in BOOLEAN
  /\ unheard \subseteq Parts /\ commandFaults \in 0..MaxCommandFaults /\ effect \in BOOLEAN
  /\ taskIs \in [ServiceTasks -> DOMAIN NextLife \cup {"ready", "gone"}]

\* The inductive invariant of a remote command.
CommandInv == CallTyped /\ ProcessTyped /\ PlaceTyped /\ CommandSound

LEMMA CommandTyped == CommandInv => RemoteTypeOK
BY DEF CommandInv, CallTyped, ProcessTyped, PlaceTyped, Processes, RemoteTypeOK

LEMMA CommandInit == RemoteInit => CommandInv
<1> SUFFICES ASSUME RemoteInit PROVE CommandInv
  OBVIOUS
<1>1. doing \in Parts /\ (doing = "probe" \/ doing = "command")
  BY DEF RemoteInit, Parts
<1>2. CallTyped
  BY <1>1, RemoteAssumption DEF RemoteInit, CallTyped
<1>3. ProcessTyped
  BY DEF RemoteInit, ProcessTyped, Processes, NoProcess
<1>4. PlaceTyped
  <2>1. "unborn" \in DOMAIN NextLife
    BY DEF NextLife
  <2>2. taskIs \in [ServiceTasks -> DOMAIN NextLife \cup {"ready", "gone"}]
    BY <2>1 DEF RemoteInit
  <2>3. hook \in [mode : {"exec", "task"}, once : BOOLEAN] /\ withStateful \in BOOLEAN
    BY DEF RemoteInit
  <2>4. unheard \subseteq Parts /\ commandFaults \in 0..MaxCommandFaults
    BY RemoteAssumption DEF RemoteInit
  <2>5. effect \in BOOLEAN
    BY DEF RemoteInit
  <2> QED
    BY <2>2, <2>3, <2>4, <2>5 DEF PlaceTyped
<1>5. \A w \in Parts : process[w].state = "none"
  BY DEF RemoteInit, NoProcess
<1>6. CommandSound
  BY <1>1, <1>5 DEF RemoteInit, CommandSound, Told, Failing, Parts
<1> QED
  BY <1>2, <1>3, <1>4, <1>6 DEF CommandInv

-----------------------------------------------------------------------------
(* The ways a step of the call ends *)

LEMMA ReturnCases ==
  ASSUME doing \in Parts, NEW code, Return(code)
  PROVE  /\ listed' = {} /\ onTask' = {} /\ polls' = 0
         /\ \/ /\ callAt' = "start" /\ doing = "probe" /\ doing' = "command" /\ code # 0
               /\ UNCHANGED result
            \/ /\ callAt' = "over" /\ doing' = doing
               /\ \/ code = 0 /\ doing = "probe" /\ result' = "skipped"
                  \/ code = 0 /\ doing = "command" /\ result' = "ok"
                  \/ code # 0 /\ doing = "command" /\ result' = "failed"
BY DEF Return, End, Reach, Parts

LEMMA ReturnTyped ==
  ASSUME CallTyped, NEW code, Return(code), UNCHANGED given
  PROVE  CallTyped'
<1>1. doing' \in Parts
  BY ReturnCases DEF CallTyped, Parts
<1> QED
  BY <1>1, ReturnCases, RemoteAssumption DEF CallTyped

\* The command learns how the part it is at has ended.
LEMMA ReturnSound ==
  ASSUME CommandSound, callAt # "over", doing \in Parts, NEW code, Return(code),
         UNCHANGED effect,
         \A w \in Parts : \/ process'[w].state = process[w].state
                          \/ w = doing /\ process'[w].state = "killed",
         unheard \subseteq unheard',
         code # 0 => process'[doing].state \in Failing \/ doing \in unheard',
         code = 0 => process'[doing].state = "exit 0"
  PROVE  CommandSound'
<1>1. CASE callAt' = "start"
  BY <1>1, ReturnCases DEF CommandSound, Parts, Told
<1>2. CASE callAt' = "over"
  BY <1>2, ReturnCases DEF CommandSound, Parts, Told, Unstarted
<1> QED
  BY <1>1, <1>2, ReturnCases

\* It heard the truth.
LEMMA ReturnHeard ==
  ASSUME CommandSound, doing \in Parts, callAt # "over", NEW code, Return(code),
         UNCHANGED <<process, unheard, effect>>,
         IF code = 0 THEN process[doing].state = "exit 0" ELSE process[doing].state \in Failing
  PROVE  CommandSound'
<1>1. \A w \in Parts : \/ process'[w].state = process[w].state
                       \/ w = doing /\ process'[w].state = "killed"
  OBVIOUS
<1>2. /\ code # 0 => process'[doing].state \in Failing \/ doing \in unheard'
      /\ code = 0 => process'[doing].state = "exit 0"
      /\ unheard \subseteq unheard'
      /\ UNCHANGED effect
  OBVIOUS
<1> QED
  BY <1>1, <1>2, ReturnSound

LEMMA RaiseTyped ==
  ASSUME CallTyped, Raise, UNCHANGED given
  PROVE  CallTyped'
BY RemoteAssumption DEF CallTyped, Raise, End, Reach

LEMMA RaiseSound ==
  ASSUME CommandSound, callAt # "over", Raise, UNCHANGED <<effect, process>>,
         unheard \subseteq unheard'
  PROVE  CommandSound'
BY DEF CommandSound, Told, Unstarted, Raise, End, Reach

LEMMA PlaceKept ==
  ASSUME PlaceTyped, Elsewhere, NoFault \/ Fault, unheard' = unheard \/ Unheard, doing \in Parts
  PROVE  PlaceTyped'
BY RemoteAssumption DEF PlaceTyped, Elsewhere, NoFault, Fault, Unheard

\* A step of a container, of ECS or of another operator.
LEMMA OutsideSound ==
  ASSUME CommandSound, CallTyped, Outside,
         \A w \in Parts : \/ process'[w].state = process[w].state
                          \/ /\ process[w].state \in {"placing", "running"}
                             /\ process'[w].state \in {"running"} \cup Ended,
         effect => effect',
         process'["probe"].state = "exit 0" => process["probe"].state = "exit 0" \/ effect'
  PROVE  CommandSound'
<1>1. \A w \in Parts : Told(w) => Told(w)'
  BY DEF Told, Failing, Outside
<1> QED
  BY <1>1 DEF CommandSound, CallTyped, Outside, callVars, Parts, Ended

-----------------------------------------------------------------------------
(* The steps *)

LEMMA CommandStep == CommandInv /\ [RemoteNext]_remoteVars => CommandInv'
<1> SUFFICES ASSUME CommandInv, [RemoteNext]_remoteVars PROVE CommandInv'
  OBVIOUS
<1> USE RemoteAssumption
<1>0. CallTyped /\ ProcessTyped /\ PlaceTyped /\ CommandSound /\ doing \in Parts
  BY DEF CommandInv, CallTyped
<1>1. CASE StartExec
  <2>1. CommandSound'
    BY <1>0, <1>1 DEF StartExec, Reach, Elsewhere, CommandSound, Told, Unstarted
  <2>2. CallTyped'
    BY <1>0, <1>1 DEF StartExec, Reach, Elsewhere, CallTyped
  <2>3. ProcessTyped'
    BY <1>0, <1>1 DEF StartExec, ProcessTyped
  <2>4. PlaceTyped'
    BY <1>0, <1>1, PlaceKept DEF StartExec
  <2> QED
    BY <2>1, <2>2, <2>3, <2>4 DEF CommandInv
<1>2. CASE ListTasks
  <2>1. CommandSound'
    BY <1>0, <1>2 DEF ListTasks, Reach, Elsewhere, CommandSound, Told, Unstarted
  <2>2. CallTyped'
    BY <1>0, <1>2 DEF ListTasks, Reach, Elsewhere, CallTyped, Listable
  <2>3. ProcessTyped'
    BY <1>0, <1>2 DEF ListTasks, ProcessTyped
  <2>4. PlaceTyped'
    BY <1>0, <1>2, PlaceKept DEF ListTasks
  <2> QED
    BY <2>1, <2>2, <2>3, <2>4 DEF CommandInv
<1>3. CASE ListFails
  <2>1. CommandSound'
    BY <1>0, <1>3, RaiseSound DEF ListFails, Elsewhere
  <2>2. CallTyped'
    BY <1>0, <1>3, RaiseTyped DEF ListFails, Elsewhere
  <2>3. ProcessTyped'
    BY <1>0, <1>3 DEF ListFails, ProcessTyped
  <2>4. PlaceTyped'
    BY <1>0, <1>3, PlaceKept DEF ListFails
  <2> QED
    BY <2>1, <2>2, <2>3, <2>4 DEF CommandInv
<1>4. CASE Describe
  <2>1. CommandSound'
    BY <1>0, <1>4 DEF Describe, Reach, Elsewhere, CommandSound, Told, Unstarted
  <2>2. CallTyped'
    BY <1>0, <1>4 DEF Describe, Reach, Elsewhere, CallTyped, Chosen, Attachable
  <2>3. ProcessTyped'
    BY <1>0, <1>4 DEF Describe, ProcessTyped
  <2>4. PlaceTyped'
    BY <1>0, <1>4, PlaceKept DEF Describe
  <2> QED
    BY <2>1, <2>2, <2>3, <2>4 DEF CommandInv
<1>5. CASE WatchClock
  <2>a. Return(1) \/ (PollAgain /\ polls > 0)
    BY <1>0, <1>5 DEF WatchClock
  <2>b. ASSUME PollAgain PROVE CommandSound'
    BY <1>0, <1>5, <2>b DEF WatchClock, PollAgain, Reach, Elsewhere, CommandSound, Told,
           Unstarted
  <2>c. ASSUME Return(1) PROVE CommandSound'
    <3>1. process[doing].state \in Failing
      BY <1>0, <1>5 DEF WatchClock, CommandSound, Unstarted, Failing
    <3>2. UNCHANGED <<process, unheard, effect>> /\ callAt # "over"
      BY <1>5 DEF WatchClock, Elsewhere
    <3>3. 1 # 0
      OBVIOUS
    <3> QED
      BY <1>0, <2>c, <3>1, <3>2, <3>3, ReturnHeard
  <2>1. CommandSound'
    BY <1>0, <1>5, <2>a, <2>b, <2>c DEF PollAgain
  <2>2. CallTyped'
    BY <1>0, <1>5, <2>a, ReturnTyped DEF WatchClock, PollAgain, Reach, Elsewhere, CallTyped
  <2>3. ProcessTyped'
    BY <1>0, <1>5 DEF WatchClock, ProcessTyped
  <2>4. PlaceTyped'
    BY <1>0, <1>5, PlaceKept DEF WatchClock
  <2> QED
    BY <2>1, <2>2, <2>3, <2>4 DEF CommandInv
<1>6. CASE OpenSession
  <2>a. \A w \in Parts : process'[w].state = IF w = doing THEN "running" ELSE process[w].state
    BY <1>0, <1>6 DEF OpenSession, ProcessTyped
  <2>1. CommandSound'
    <3>1. /\ doing = "probe" => process'["command"].state = "none"
          /\ doing = "command" => process'["probe"].state = process["probe"].state
          /\ process'["probe"].state = "exit 0" => process["probe"].state = "exit 0"
      BY <1>0, <2>a DEF CommandSound, Parts
    <3>2. /\ UNCHANGED <<doing, effect, unheard, result>> /\ result = "none"
          /\ callAt' = "attached"
      BY <1>0, <1>6 DEF OpenSession, Reach, Elsewhere, CommandSound
    <3> QED
      BY <1>0, <3>1, <3>2 DEF CommandSound, Told, Unstarted
  <2>2. CallTyped'
    BY <1>0, <1>6 DEF OpenSession, Reach, Elsewhere, CallTyped
  <2>3. ProcessTyped'
    BY <1>0, <1>6 DEF OpenSession, ProcessTyped, Processes, CallTyped
  <2>4. PlaceTyped'
    BY <1>0, <1>6, PlaceKept DEF OpenSession
  <2> QED
    BY <2>1, <2>2, <2>3, <2>4 DEF CommandInv
<1>7. CASE SessionRefused
  <2>a. Return(1)
    BY <1>0, <1>7 DEF SessionRefused, ExitWithoutSentinels
  <2>b. process[doing].state \in Failing
    BY <1>0, <1>7 DEF SessionRefused, CommandSound, Unstarted, Failing
  <2>1. CommandSound'
    <3>1. UNCHANGED <<process, unheard, effect>> /\ callAt # "over"
      BY <1>7 DEF SessionRefused, Elsewhere
    <3>2. 1 # 0
      OBVIOUS
    <3> QED
      BY <1>0, <2>a, <2>b, <3>1, <3>2, ReturnHeard
  <2>2. CallTyped'
    BY <1>0, <1>7, <2>a, ReturnTyped DEF SessionRefused, Elsewhere
  <2>3. ProcessTyped'
    BY <1>0, <1>7 DEF SessionRefused, ProcessTyped
  <2>4. PlaceTyped'
    BY <1>0, <1>7, PlaceKept DEF SessionRefused
  <2> QED
    BY <2>1, <2>2, <2>3, <2>4 DEF CommandInv
<1>8. CASE SessionReturns
  <2>1. CommandSound'
    <3>1. UNCHANGED <<process, unheard, effect>> /\ callAt # "over"
      BY <1>8 DEF SessionReturns, Elsewhere
    <3>2. CASE State = "exit 0"
      <4>1. Return(0)
        BY <1>8, <3>2 DEF SessionReturns
      <4> QED
        BY <1>0, <3>1, <3>2, <4>1, ReturnHeard DEF State
    <3>3. CASE State = "exit 1"
      <4>1. Return(1)
        BY <1>8, <3>3 DEF SessionReturns
      <4>0. 1 # 0
        OBVIOUS
      <4> QED
        BY <1>0, <3>1, <3>3, <4>0, <4>1, ReturnHeard DEF State, Failing
    <3> QED
      BY <1>8, <3>2, <3>3 DEF SessionReturns
  <2>2. CallTyped'
    BY <1>0, <1>8, ReturnTyped DEF SessionReturns, Elsewhere
  <2>3. ProcessTyped'
    BY <1>0, <1>8 DEF SessionReturns, ProcessTyped
  <2>4. PlaceTyped'
    BY <1>0, <1>8, PlaceKept DEF SessionReturns
  <2> QED
    BY <2>1, <2>2, <2>3, <2>4 DEF CommandInv
<1>9. CASE SessionDrops
  <2>a. Return(1)
    BY <1>0, <1>9 DEF SessionDrops, ExitWithoutSentinels
  <2>b. \A w \in Parts : \/ process'[w].state = process[w].state
                         \/ w = doing /\ process'[w].state = "killed"
    BY <1>0, <1>9 DEF SessionDrops, ProcessTyped, Processes
  <2>1. CommandSound'
    <3>1. /\ UNCHANGED effect /\ callAt # "over"
          /\ unheard \subseteq unheard' /\ doing \in unheard' /\ 1 # 0
      BY <1>9 DEF SessionDrops, Elsewhere, Unheard
    <3> QED
      BY <1>0, <2>a, <2>b, <3>1, ReturnSound
  <2>2. CallTyped'
    BY <1>0, <1>9, <2>a, ReturnTyped DEF SessionDrops, Elsewhere
  <2>3. ProcessTyped'
    <3>1. process[doing] \in Processes
      BY <1>0 DEF ProcessTyped
    <3>2. [process[doing] EXCEPT !.state = IF @ = "running" THEN "killed" ELSE @] \in Processes
      BY <3>1 DEF Processes, Ended
    <3>3. CASE process' = process
      BY <1>0, <3>3 DEF ProcessTyped
    <3>4. CASE process' = [process EXCEPT ![doing].state = IF @ = "running" THEN "killed" ELSE @]
      BY <1>0, <3>2, <3>4 DEF ProcessTyped
    <3> QED
      BY <1>9, <3>3, <3>4 DEF SessionDrops
  <2>4. PlaceTyped'
    BY <1>0, <1>9, PlaceKept DEF SessionDrops
  <2> QED
    BY <2>1, <2>2, <2>3, <2>4 DEF CommandInv
<1>10. CASE SessionTimesOut
  <2>1. CommandSound'
    <3>1. /\ UNCHANGED effect /\ callAt # "over" /\ Return(124)
          /\ unheard \subseteq unheard' /\ doing \in unheard' /\ 124 # 0
      BY <1>10 DEF SessionTimesOut, Elsewhere, Unheard
    <3>2. \A w \in Parts : \/ process'[w].state = process[w].state
                           \/ w = doing /\ process'[w].state = "killed"
      BY <1>10 DEF SessionTimesOut
    <3> QED
      BY <1>0, <3>1, <3>2, ReturnSound
  <2>2. CallTyped'
    BY <1>0, <1>10, ReturnTyped DEF SessionTimesOut, Elsewhere
  <2>3. ProcessTyped'
    BY <1>0, <1>10 DEF SessionTimesOut, ProcessTyped
  <2>4. PlaceTyped'
    BY <1>0, <1>10, PlaceKept DEF SessionTimesOut
  <2> QED
    BY <2>1, <2>2, <2>3, <2>4 DEF CommandInv
<1>11. CASE RunTask
  <2>a. \A w \in Parts : process'[w].state = IF w = doing THEN "placing" ELSE process[w].state
    BY <1>0, <1>11 DEF RunTask, ProcessTyped
  <2>1. CommandSound'
    <3>1. /\ doing = "probe" => process'["command"].state = "none"
          /\ doing = "command" => process'["probe"].state = process["probe"].state
          /\ process'["probe"].state = "exit 0" => process["probe"].state = "exit 0"
      BY <1>0, <2>a DEF CommandSound, Parts
    <3>2. UNCHANGED <<doing, effect, unheard>> /\ result = "none"
      BY <1>0, <1>11 DEF RunTask, End, Elsewhere, CommandSound
    <3>3. \/ callAt' = "over" /\ result' = "submitted"
          \/ callAt' = "waiter" /\ result' = result
      BY <1>11 DEF RunTask, End, Reach
    <3> QED
      BY <1>0, <3>1, <3>2, <3>3 DEF CommandSound, Told, Unstarted
  <2>2. CallTyped'
    <3>1. /\ UNCHANGED given
          /\ \/ End("submitted")
             \/ Reach("waiter") /\ polls' = MaxPolls /\ UNCHANGED <<doing, listed, onTask, result>>
      BY <1>11 DEF RunTask, Elsewhere
    <3> QED
      BY <1>0, <3>1 DEF End, Reach, CallTyped
  <2>3. ProcessTyped'
    BY <1>0, <1>11 DEF RunTask, ProcessTyped, Processes
  <2>4. PlaceTyped'
    BY <1>0, <1>11, PlaceKept DEF RunTask
  <2> QED
    BY <2>1, <2>2, <2>3, <2>4 DEF CommandInv
<1>12. CASE RunTaskFails
  <2>1. CommandSound'
    BY <1>0, <1>12, RaiseSound DEF RunTaskFails, Elsewhere
  <2>2. CallTyped'
    BY <1>0, <1>12, RaiseTyped DEF RunTaskFails, Elsewhere
  <2>3. ProcessTyped'
    BY <1>0, <1>12 DEF RunTaskFails, ProcessTyped
  <2>4. PlaceTyped'
    BY <1>0, <1>12, PlaceKept DEF RunTaskFails
  <2> QED
    BY <2>1, <2>2, <2>3, <2>4 DEF CommandInv
<1>13. CASE WaiterPolls
  <2>1. CommandSound'
    BY <1>0, <1>13, RaiseSound DEF WaiterPolls, Reach, State, Unheard, Elsewhere,
           CommandSound, Told, Unstarted
  <2>2. CallTyped'
    BY <1>0, <1>13, RaiseTyped DEF WaiterPolls, Reach, Elsewhere, CallTyped
  <2>3. ProcessTyped'
    BY <1>0, <1>13 DEF WaiterPolls, ProcessTyped
  <2>4. PlaceTyped'
    BY <1>0, <1>13, PlaceKept DEF WaiterPolls
  <2> QED
    BY <2>1, <2>2, <2>3, <2>4 DEF CommandInv
<1>14. CASE ReadExit
  <2>1. CommandSound'
    <3>1. UNCHANGED <<process, unheard, effect>> /\ callAt # "over" /\ State \in Ended
      BY <1>0, <1>14 DEF ReadExit, Elsewhere, CommandSound, State
    <3>2. CASE State = "exit 0"
      <4>1. Return(0)
        BY <1>14, <3>2 DEF ReadExit
      <4> QED
        BY <1>0, <3>1, <3>2, <4>1, ReturnHeard DEF State
    <3>3. CASE State # "exit 0"
      <4>1. Return(1)
        BY <1>14, <3>3 DEF ReadExit
      <4>0. 1 # 0
        OBVIOUS
      <4>2. State \in Failing
        BY <3>1, <3>3 DEF Ended, Failing
      <4> QED
        BY <1>0, <3>1, <4>0, <4>1, <4>2, ReturnHeard DEF State
    <3> QED
      BY <3>2, <3>3
  <2>2. CallTyped'
    BY <1>0, <1>14, ReturnTyped DEF ReadExit, Elsewhere
  <2>3. ProcessTyped'
    BY <1>0, <1>14 DEF ReadExit, ProcessTyped
  <2>4. PlaceTyped'
    BY <1>0, <1>14, PlaceKept DEF ReadExit
  <2> QED
    BY <2>1, <2>2, <2>3, <2>4 DEF CommandInv
<1>15. CASE Interrupted
  <2>1. CommandSound'
    BY <1>0, <1>15, RaiseSound DEF Interrupted, Unheard, Elsewhere
  <2>2. CallTyped'
    BY <1>0, <1>15, RaiseTyped DEF Interrupted, Elsewhere
  <2>3. ProcessTyped'
    BY <1>0, <1>15 DEF Interrupted, ProcessTyped
  <2>4. PlaceTyped'
    BY <1>0, <1>15, PlaceKept DEF Interrupted
  <2> QED
    BY <2>1, <2>2, <2>3, <2>4 DEF CommandInv
<1>16. CASE ProbeEnds
  <2>a. \A w \in Parts : \/ process'[w].state = process[w].state
                         \/ /\ process[w].state \in {"placing", "running"}
                            /\ process'[w].state \in {"running"} \cup Ended
    BY <1>0, <1>16 DEF ProbeEnds, ProcessTyped, Processes, Becomes, Ended
  <2>b. process'["probe"].state = "exit 0" => process["probe"].state = "exit 0" \/ effect'
    BY <1>0, <1>16 DEF ProbeEnds, ProcessTyped, Processes, Becomes
  <2>1. CommandSound'
    BY <1>0, <1>16, <2>a, <2>b, OutsideSound DEF ProbeEnds
  <2>2. CallTyped'
    BY <1>0, <1>16 DEF ProbeEnds, Outside, callVars, CallTyped
  <2>3. ProcessTyped'
    BY <1>0, <1>16 DEF ProbeEnds, ProcessTyped, Processes, Becomes, Ended
  <2>4. PlaceTyped'
    BY <1>0, <1>16 DEF ProbeEnds, Outside, PlaceTyped
  <2> QED
    BY <2>1, <2>2, <2>3, <2>4 DEF CommandInv
<1>17. CASE CommandRunsToItsEnd
  <2>a. \A w \in Parts : \/ process'[w].state = process[w].state
                         \/ /\ process[w].state \in {"placing", "running"}
                            /\ process'[w].state \in {"running"} \cup Ended
    BY <1>0, <1>17 DEF CommandRunsToItsEnd, ProcessTyped, Processes, Becomes, Ended
  <2>b. process'["probe"].state = "exit 0" => process["probe"].state = "exit 0" \/ effect'
    BY <1>0, <1>17 DEF CommandRunsToItsEnd, ProcessTyped, Becomes, Parts
  <2>1. CommandSound'
    <3>1. Outside
      BY <1>17 DEF CommandRunsToItsEnd
    <3>2. effect => effect'
      BY <1>17 DEF CommandRunsToItsEnd
    <3> QED
      BY <1>0, <2>a, <2>b, <3>1, <3>2, OutsideSound
  <2>2. CallTyped'
    BY <1>0, <1>17 DEF CommandRunsToItsEnd, Outside, callVars, CallTyped
  <2>3. ProcessTyped'
    <3>1. Becomes("command", "exit 0") \/ Becomes("command", "exit 1")
      BY <1>17 DEF CommandRunsToItsEnd
    <3> QED
      BY <1>0, <3>1 DEF ProcessTyped, Processes, Becomes, Ended
  <2>4. PlaceTyped'
    BY <1>0, <1>17 DEF CommandRunsToItsEnd, Outside, PlaceTyped
  <2> QED
    BY <2>1, <2>2, <2>3, <2>4 DEF CommandInv
<1>18. CASE EffectElsewhere
  <2>a. \A w \in Parts : \/ process'[w].state = process[w].state
                         \/ /\ process[w].state \in {"placing", "running"}
                            /\ process'[w].state \in {"running"} \cup Ended
    BY <1>0, <1>18 DEF EffectElsewhere
  <2>b. process'["probe"].state = "exit 0" => process["probe"].state = "exit 0" \/ effect'
    BY <1>0, <1>18 DEF EffectElsewhere
  <2>1. CommandSound'
    BY <1>0, <1>18, <2>a, <2>b, OutsideSound DEF EffectElsewhere
  <2>2. CallTyped'
    BY <1>0, <1>18 DEF EffectElsewhere, Outside, callVars, CallTyped
  <2>3. ProcessTyped'
    BY <1>0, <1>18 DEF EffectElsewhere, ProcessTyped
  <2>4. PlaceTyped'
    BY <1>0, <1>18 DEF EffectElsewhere, Outside, PlaceTyped
  <2> QED
    BY <2>1, <2>2, <2>3, <2>4 DEF CommandInv
<1>19. ASSUME NEW v \in Parts, PlaceOneOff(v) PROVE CommandInv'
  <2>a. \A w \in Parts : \/ process'[w].state = process[w].state
                         \/ /\ process[w].state \in {"placing", "running"}
                            /\ process'[w].state \in {"running"} \cup Ended
    BY <1>0, <1>19 DEF PlaceOneOff, ProcessTyped, Processes, Becomes
  <2>b. process'["probe"].state = "exit 0" => process["probe"].state = "exit 0" \/ effect'
    BY <1>0, <1>19 DEF PlaceOneOff, ProcessTyped, Processes, Becomes, Parts
  <2>1. CommandSound'
    BY <1>0, <1>19, <2>a, <2>b, OutsideSound DEF PlaceOneOff
  <2>2. CallTyped'
    BY <1>0, <1>19 DEF PlaceOneOff, Outside, callVars, CallTyped
  <2>3. ProcessTyped'
    BY <1>0, <1>19 DEF PlaceOneOff, ProcessTyped, Processes, Becomes
  <2>4. PlaceTyped'
    BY <1>0, <1>19 DEF PlaceOneOff, Outside, PlaceTyped
  <2> QED
    BY <2>1, <2>2, <2>3, <2>4 DEF CommandInv
<1>20. ASSUME NEW v \in Parts, OneOffStops(v) PROVE CommandInv'
  <2>a. \A w \in Parts : \/ process'[w].state = process[w].state
                         \/ /\ process[w].state \in {"placing", "running"}
                            /\ process'[w].state \in {"running"} \cup Ended
    BY <1>0, <1>20 DEF OneOffStops, ProcessTyped, Processes, Becomes, Ended
  <2>b. process'["probe"].state = "exit 0" => process["probe"].state = "exit 0" \/ effect'
    BY <1>0, <1>20 DEF OneOffStops, ProcessTyped, Processes, Becomes, Parts
  <2>1. CommandSound'
    BY <1>0, <1>20, <2>a, <2>b, OutsideSound DEF OneOffStops
  <2>2. CallTyped'
    BY <1>0, <1>20 DEF OneOffStops, Outside, callVars, CallTyped
  <2>3. ProcessTyped'
    BY <1>0, <1>20 DEF OneOffStops, ProcessTyped, Processes, Becomes, Ended
  <2>4. PlaceTyped'
    BY <1>0, <1>20 DEF OneOffStops, Outside, PlaceTyped
  <2> QED
    BY <2>1, <2>2, <2>3, <2>4 DEF CommandInv
<1>21. ASSUME NEW t \in ServiceTasks, TaskComesUp(t) PROVE CommandInv'
  <2>a. \A w \in Parts : \/ process'[w].state = process[w].state
                         \/ /\ process[w].state \in {"placing", "running"}
                            /\ process'[w].state \in {"running"} \cup Ended
    BY <1>0, <1>21 DEF TaskComesUp
  <2>b. process'["probe"].state = "exit 0" => process["probe"].state = "exit 0" \/ effect'
    BY <1>0, <1>21 DEF TaskComesUp
  <2>1. CommandSound'
    BY <1>0, <1>21, <2>a, <2>b, OutsideSound DEF TaskComesUp
  <2>2. CallTyped'
    BY <1>0, <1>21 DEF TaskComesUp, Outside, callVars, CallTyped
  <2>3. ProcessTyped'
    BY <1>0, <1>21 DEF TaskComesUp, ProcessTyped
  <2>4. PlaceTyped'
    BY <1>0, <1>21 DEF TaskComesUp, Outside, PlaceTyped, NextLife
  <2> QED
    BY <2>1, <2>2, <2>3, <2>4 DEF CommandInv
<1>22. ASSUME NEW t \in ServiceTasks, StopTask(t) PROVE CommandInv'
  <2>a. \A w \in Parts : \/ process'[w].state = process[w].state
                         \/ /\ process[w].state \in {"placing", "running"}
                            /\ process'[w].state \in {"running"} \cup Ended
    BY <1>0, <1>22 DEF StopTask, ProcessTyped, Processes, Ended
  <2>b. process'["probe"].state = "exit 0" => process["probe"].state = "exit 0" \/ effect'
    BY <1>0, <1>22 DEF StopTask, ProcessTyped, Processes, Parts
  <2>1. CommandSound'
    BY <1>0, <1>22, <2>a, <2>b, OutsideSound DEF StopTask
  <2>2. CallTyped'
    BY <1>0, <1>22 DEF StopTask, Outside, callVars, CallTyped
  <2>3. ProcessTyped'
    BY <1>0, <1>22 DEF StopTask, ProcessTyped, Processes, Ended
  <2>4. PlaceTyped'
    BY <1>0, <1>22 DEF StopTask, Outside, PlaceTyped
  <2> QED
    BY <2>1, <2>2, <2>3, <2>4 DEF CommandInv
<1>23. CASE UNCHANGED remoteVars
  <2>1. CommandSound'
    BY <1>0, <1>23 DEF remoteVars, callVars, CommandSound, Told
  <2>2. CallTyped'
    BY <1>0, <1>23 DEF remoteVars, callVars, CallTyped
  <2>3. ProcessTyped' /\ PlaceTyped'
    BY <1>0, <1>23 DEF remoteVars, ProcessTyped, PlaceTyped
  <2> QED
    BY <2>1, <2>2, <2>3 DEF CommandInv
<1> QED
  BY <1>1, <1>2, <1>3, <1>4, <1>5, <1>6, <1>7, <1>8, <1>9, <1>10, <1>11, <1>12, <1>13,
     <1>14, <1>15, <1>16, <1>17, <1>18, <1>19, <1>20, <1>21, <1>22, <1>23
     DEF RemoteNext, CallStep

\* The invariant holds of every behaviour of a command, through refused, broken and timed
\* out sessions, replaced tasks and polls that never see the end.
THEOREM CommandInductive == RemoteSpec => []CommandInv
BY CommandInit, CommandStep, PTL DEF RemoteSpec

\* Type correctness of exec, one-off tasks and hooks for any tasks and faults.
THEOREM CommandTypeCorrect == RemoteSpec => []RemoteTypeOK
BY CommandTyped, CommandInductive, PTL

\* exec, run_one_off and the hooks for any tasks, polls and faults: "ok" only of a command
\* that ran to its end, "failed" of such a one only if its end was not heard, "skipped" only
\* if the effect is there (provider.py 6114-6147, 6484-6523, cli_v2.py 1328-1345).
THEOREM ReportsAreTrue == RemoteSpec => []ReportIsTrue
<1>1. CommandInv => ReportIsTrue
  BY DEF CommandInv, CommandSound, CallTyped, ReportIsTrue, Parts, Told, Failing
<1> QED
  BY <1>1, CommandInductive, PTL

-----------------------------------------------------------------------------
(***************************************************************************)
(* Orchestration.                                                          *)
(* For every dependency graph, every strategy, any number of projects,     *)
(* retries, deaths and cancels: a run with errors rolls back everything of *)
(* it that had succeeded.  The invariant is about who may write a row: a   *)
(* row has one thread, a rollback that succeeded marked its target before, *)
(* and the target cannot succeed again.                                    *)
(***************************************************************************)

\* The states of a thread that has a row, of one that is at work, and the types.
Active == {"pending", "running", "hung"}
Working == {"check", "create"} \cup Active
Rows == [project : Projects, status : Statuses, of : Nat]
Slot == [step : {"idle", "done", "raised"} \cup Working, row : Nat]

\* A rollback is made from an older row, and a thread knows only rows there are.
RowsTyped == rows \in Seq(Rows) /\ \A r \in DOMAIN rows : rows[r].of < r
ThreadsTyped ==
  /\ thread \in [Threads -> Slot] /\ \A t \in Threads : thread[t].row <= Len(rows)
  /\ deployments \in Seq(Nat) /\ \A i \in DOMAIN deployments : deployments[i] \in DOMAIN rows
OrchestrationTyped ==
  /\ phase \in {"start", "deploying", "rolling back", "ended", "refused", "killed"}
  /\ errors \in BOOLEAN /\ orphans \subseteq DOMAIN rows
  /\ cancelling \in 0..Len(rows) /\ retries \in 0..MaxRetries

\* A thread that is at a deployment has a row of its own, which nothing was made from.
RowsOwned ==
  /\ \A t \in Threads : thread[t].step \in Active =>
       /\ Row(t) \in DOMAIN rows
       /\ \A i \in DOMAIN deployments : deployments[i] # Row(t)
       /\ \A r \in DOMAIN rows : rows[r].of # Row(t)
  /\ \A t, u \in Threads : t # u /\ thread[t].step \in Active /\ thread[u].step \in Active =>
       Row(t) # Row(u)

\* A rollback that succeeded has marked the deployment it was made from for good.
RollbackMarks ==
  \A r \in DOMAIN rows : rows[r].of # 0 /\ rows[r].status = "SUCCESS" =>
    rows[rows[r].of].status # "SUCCESS"

\* Only the batch under way runs.
OnlyTheBatchRuns ==
  /\ \A p \in Projects : thread[p].step \in Working => phase = "deploying" /\ p \in batches[1]
  /\ thread["main"].step \in {"idle"} \cup Active

\* What has succeeded is still to be rolled back, or is being.
NoneForgotten ==
  /\ \A p \in Projects : thread[p].step = "done" =>
       /\ Row(p) \in DOMAIN rows
       /\ \/ \E i \in DOMAIN deployments : deployments[i] = Row(p)
          \/ \E r \in DOMAIN rows : rows[r].of = Row(p)
  /\ phase = "ended" /\ errors /\ rollbackOn => deployments = <<>>

\* The inductive invariant of the orchestration.
OrchInv ==
  /\ RowsTyped /\ ThreadsTyped /\ OrchestrationTyped
  /\ RowsOwned /\ RollbackMarks /\ OnlyTheBatchRuns /\ NoneForgotten

LEMMA OrchTyped == OrchInv => OrchTypeOK
<1> SUFFICES ASSUME OrchInv PROVE OrchTypeOK
  OBVIOUS
<1>1. ASSUME NEW r \in DOMAIN rows
      PROVE  /\ rows[r].project \in Projects /\ rows[r].status \in Statuses
             /\ rows[r].of \in 0..(r - 1)
  <2>1. rows[r] \in Rows /\ r \in Nat /\ rows[r].of < r
    BY DEF OrchInv, RowsTyped
  <2> QED
    BY <2>1 DEF Rows
<1>2. ASSUME NEW t \in Threads PROVE thread[t].row \in 0..Len(rows)
  <2>1. thread[t] \in Slot /\ thread[t].row <= Len(rows)
    BY DEF OrchInv, ThreadsTyped
  <2> QED
    BY <2>1 DEF Slot
<1> QED
  BY <1>1, <1>2 DEF OrchInv, OrchestrationTyped, OrchTypeOK

LEMMA OrchInitial == OrchInit => OrchInv
<1> SUFFICES ASSUME OrchInit PROVE OrchInv
  OBVIOUS
<1>1. rows = <<>> /\ deployments = <<>> /\ phase = "start" /\ errors = FALSE /\ orphans = {}
      /\ cancelling = 0 /\ retries = 0
  BY DEF OrchInit
<1>2. ASSUME NEW t \in Threads
      PROVE  thread[t] = IF t = "task" THEN [step |-> "check", row |-> 0]
                         ELSE [step |-> "idle", row |-> 0]
  BY DEF OrchInit, NoJob
<1>3. RowsTyped
  BY <1>1 DEF RowsTyped
<1>4. ThreadsTyped
  <2>1. thread \in [Threads -> Slot]
    BY DEF OrchInit, NoJob, Slot, Working, Active
  <2> QED
    BY <1>1, <1>2, <2>1 DEF ThreadsTyped
<1>5. OrchestrationTyped
  <2>1. errors \in BOOLEAN
    BY DEF OrchInit
  <2>2. MaxRetries \in Nat
    BY OrchAssumption
  <2>3. cancelling \in 0..Len(rows) /\ retries \in 0..MaxRetries
    BY <1>1, <2>2
  <2> QED
    BY <1>1, <2>1, <2>3 DEF OrchestrationTyped
<1>6. RowsOwned
  BY <1>2 DEF RowsOwned, Active
<1>7. RollbackMarks
  BY <1>1 DEF RollbackMarks
<1>8. OnlyTheBatchRuns
  <2>1. \A p \in Projects : p \in Threads /\ p # "task"
    BY OrchAssumption DEF Threads
  <2>2. "main" \in Threads
    BY DEF Threads
  <2> QED
    BY <1>2, <2>1, <2>2 DEF OnlyTheBatchRuns, Working, Active
<1>9. NoneForgotten
  <2>1. \A p \in Projects : p \in Threads
    BY DEF Threads
  <2> QED
    BY <1>1, <1>2, <2>1 DEF NoneForgotten
<1> QED
  BY <1>3, <1>4, <1>5, <1>6, <1>7, <1>8, <1>9 DEF OrchInv

LEMMA ThreadTyped ==
  ASSUME OrchInv, NEW t \in Threads
  PROVE  thread[t] \in Slot /\ thread[t].row \in 0..Len(rows) /\ thread[t].row \in Nat
BY DEF OrchInv, ThreadsTyped, Slot

LEMMA Pool ==
  /\ \A p \in Projects : p \in Threads /\ p # "task" /\ p # "main"
  /\ "task" \in Threads /\ "main" \in Threads
  /\ \A t \in Threads : t \in Projects \/ t = "task" \/ t = "main"
BY OrchAssumption DEF Threads

-----------------------------------------------------------------------------
(* The table keeps its rows, and who is at one stays at it or leaves. *)

SameRows ==
  /\ rows' \in Seq(Rows) /\ DOMAIN rows' = DOMAIN rows /\ Len(rows') = Len(rows)
  /\ \A r \in DOMAIN rows : rows'[r].of = rows[r].of
NoNewOwner ==
  \A t \in Threads : thread'[t].step \in Active =>
    thread[t].step \in Active /\ thread'[t].row = thread[t].row

LEMMA OwnedStays ==
  ASSUME OrchInv, SameRows, NoNewOwner, deployments' = deployments
  PROVE  RowsOwned'
<1>1. ASSUME NEW t \in Threads, thread'[t].step \in Active
      PROVE  /\ thread'[t].row \in DOMAIN rows'
             /\ \A i \in DOMAIN deployments' : deployments'[i] # thread'[t].row
             /\ \A r \in DOMAIN rows' : rows'[r].of # thread'[t].row
  BY <1>1 DEF OrchInv, RowsOwned, SameRows, NoNewOwner, Row
<1>2. ASSUME NEW t \in Threads, NEW u \in Threads, t # u, thread'[t].step \in Active,
             thread'[u].step \in Active
      PROVE  thread'[t].row # thread'[u].row
  BY <1>2 DEF OrchInv, RowsOwned, NoNewOwner, Row
<1> QED
  BY <1>1, <1>2 DEF RowsOwned, Row

LEMMA StatusWritten ==
  ASSUME OrchInv, NEW r \in DOMAIN rows, NEW s \in Statuses, SetStatus(r, s), s # "SUCCESS"
  PROVE  SameRows /\ RowsTyped' /\ RollbackMarks'
<1>1. rows \in Seq(Rows) /\ rows[r] \in Rows /\ r \in 1..Len(rows)
  BY DEF OrchInv, RowsTyped
<1>2. rows' = [rows EXCEPT ![r].status = s]
  BY DEF SetStatus
<1>3. [rows[r] EXCEPT !.status = s] \in Rows
  BY <1>1 DEF Rows
<1>4. rows' \in Seq(Rows) /\ DOMAIN rows' = DOMAIN rows /\ Len(rows') = Len(rows)
  BY <1>1, <1>2, <1>3
<1>5. ASSUME NEW q \in DOMAIN rows
      PROVE  /\ rows'[q].of = rows[q].of
             /\ rows'[q].status = IF q = r THEN s ELSE rows[q].status
  <2>1. rows[q] \in Rows
    BY DEF OrchInv, RowsTyped
  <2> QED
    BY <1>1, <1>2, <2>1 DEF Rows
<1>6. SameRows
  BY <1>4, <1>5 DEF SameRows
<1>7. RowsTyped'
  BY <1>4, <1>5 DEF OrchInv, RowsTyped
<1>8. RollbackMarks'
  <2> SUFFICES ASSUME NEW q \in DOMAIN rows, rows'[q].of # 0, rows'[q].status = "SUCCESS"
               PROVE  rows'[rows'[q].of].status # "SUCCESS"
    BY <1>4 DEF RollbackMarks
  <2>1. rows[q].of # 0 /\ rows[q].status = "SUCCESS" /\ rows[q].of < q /\ rows[q] \in Rows
        /\ q \in 1..Len(rows)
    BY <1>5 DEF OrchInv, RowsTyped
  <2>2. rows[q].of \in Nat
    BY <2>1 DEF Rows
  <2>3. rows[q].of \in DOMAIN rows
    BY <1>1, <2>1, <2>2
  <2>4. rows[rows[q].of].status # "SUCCESS"
    BY <2>1 DEF OrchInv, RollbackMarks
  <2> QED
    BY <1>5, <2>3, <2>4
<1> QED
  BY <1>6, <1>7, <1>8

LEMMA RowsAlone ==
  ASSUME OrchInv, rows' = rows
  PROVE  SameRows /\ RowsTyped' /\ RollbackMarks'
BY DEF OrchInv, SameRows, RowsTyped, RollbackMarks

\* What a step of one thread leaves alone.
OtherThreadsStay(t) ==
  /\ thread' \in [Threads -> Slot]
  /\ \A u \in Threads \ {t} : thread'[u] = thread[u]

LEMMA BatchStays ==
  ASSUME OrchInv, NEW t \in Threads, OtherThreadsStay(t), UNCHANGED <<phase, batches>>,
         thread'[t].step \in Working => thread[t].step \in Working,
         t = "main" => thread'[t].step \in {"idle"} \cup Active
  PROVE  OnlyTheBatchRuns'
<1>1. ASSUME NEW p \in Projects, thread'[p].step \in Working
      PROVE  phase' = "deploying" /\ p \in batches'[1]
  <2>1. p \in Threads
    BY Pool
  <2>2. thread[p].step \in Working
    BY <1>1, <2>1 DEF OtherThreadsStay
  <2> QED
    BY <2>2 DEF OrchInv, OnlyTheBatchRuns
<1>2. thread'["main"].step \in {"idle"} \cup Active
  BY Pool DEF OrchInv, OnlyTheBatchRuns, OtherThreadsStay
<1> QED
  BY <1>1, <1>2 DEF OnlyTheBatchRuns

LEMMA ForgottenStays ==
  ASSUME OrchInv, SameRows, UNCHANGED <<errors, rollbackOn, deployments>>,
         \A p \in Projects : thread'[p].step = "done" => thread'[p] = thread[p],
         phase' = "ended" /\ errors /\ rollbackOn => phase = "ended" \/ deployments = <<>>
  PROVE  NoneForgotten'
<1>1. ASSUME NEW p \in Projects, thread'[p].step = "done"
      PROVE  /\ thread'[p].row \in DOMAIN rows'
             /\ \/ \E i \in DOMAIN deployments' : deployments'[i] = thread'[p].row
                \/ \E r \in DOMAIN rows' : rows'[r].of = thread'[p].row
  BY <1>1 DEF OrchInv, NoneForgotten, SameRows, Row
<1>2. phase' = "ended" /\ errors' /\ rollbackOn' => deployments' = <<>>
  BY DEF OrchInv, NoneForgotten
<1> QED
  BY <1>1, <1>2 DEF NoneForgotten, Row

-----------------------------------------------------------------------------
(* The steps of the run *)

LEMMA SubmitTyped ==
  ASSUME OrchInv, NEW batch, Submit(batch), rows' = rows, deployments' = deployments
  PROVE  /\ ThreadsTyped' /\ NoNewOwner
         /\ thread'["main"] = thread["main"]
         /\ \A p \in Projects : thread'[p].step = "done" => thread'[p] = thread[p]
         /\ \A p \in Projects : p \in batch \/ thread'[p] = thread[p]
<1>1. ASSUME NEW t \in Threads
      PROVE  /\ thread'[t] \in Slot /\ thread'[t].row <= Len(rows)
             /\ thread'[t].step \in Active => thread'[t] = thread[t]
             /\ thread'[t].step = "done" => thread'[t] = thread[t]
  <2>1. thread[t] \in Slot /\ thread[t].row <= Len(rows)
    BY DEF OrchInv, ThreadsTyped
  <2>2. CASE t \in Projects /\ t \in batch
    <3>1. thread'[t] = [step |-> "check", row |-> 0]
      BY <2>2 DEF Submit
    <3>2. 0 <= Len(rows)
      BY DEF OrchInv, RowsTyped
    <3>3. [step |-> "check", row |-> 0] \in Slot
      BY DEF Slot, Working
    <3> QED
      BY <3>1, <3>2, <3>3 DEF Active
  <2>3. CASE ~(t \in Projects /\ t \in batch)
    <3>1. thread'[t] = thread[t]
      BY <2>3 DEF Submit
    <3> QED
      BY <2>1, <3>1
  <2> QED
    BY <2>2, <2>3
<1>2. thread' \in [Threads -> Slot]
  <2>1. thread' = [t \in Threads |-> thread'[t]]
    BY DEF Submit
  <2> QED
    BY <1>1, <2>1
<1>3. ThreadsTyped'
  BY <1>1, <1>2 DEF OrchInv, ThreadsTyped
<1>4. NoNewOwner
  BY <1>1 DEF NoNewOwner
<1>5. thread'["main"] = thread["main"]
  BY Pool DEF Submit
<1>6. \A p \in Projects : thread'[p].step = "done" => thread'[p] = thread[p]
  BY <1>1, Pool
<1>7. \A p \in Projects : p \in batch \/ thread'[p] = thread[p]
  BY Pool DEF Submit
<1> QED
  BY <1>3, <1>4, <1>5, <1>6, <1>7

\* Threads that rest keep what the run knows of them.
LEMMA ThreadsRest ==
  ASSUME OrchInv, UNCHANGED <<thread, rows, deployments>>
  PROVE  ThreadsTyped' /\ NoNewOwner
BY DEF OrchInv, ThreadsTyped, NoNewOwner

LEMMA StartRunKeeps == OrchInv /\ StartRun => OrchInv'
<1> SUFFICES ASSUME OrchInv, StartRun PROVE OrchInv'
  OBVIOUS
<1>1. phase = "start" /\ rows' = rows /\ deployments' = deployments /\ errors' = errors
      /\ rollbackOn' = rollbackOn /\ orphans' = orphans /\ cancelling' = cancelling
      /\ retries' = retries /\ phase' \in {"refused", "deploying"}
  BY DEF StartRun, run, counters
<1>2. SameRows /\ RowsTyped' /\ RollbackMarks'
  BY <1>1, RowsAlone
<1>3. OrchestrationTyped'
  BY <1>1 DEF OrchInv, OrchestrationTyped
<1>4. \A p \in Projects : thread[p].step \notin Working
  BY <1>1 DEF OrchInv, OnlyTheBatchRuns
<1>5. /\ ThreadsTyped' /\ NoNewOwner /\ thread'["main"] = thread["main"]
      /\ \A p \in Projects : thread'[p].step = "done" => thread'[p] = thread[p]
      /\ \A p \in Projects : thread'[p].step \in Working =>
           phase' = "deploying" /\ p \in batches'[1]
  <2>1. CASE phase' = "refused" /\ UNCHANGED <<batches, thread>>
    BY <1>1, <1>4, <2>1, ThreadsRest
  <2>2. CASE phase' = "deploying" /\ Submit(batches'[1])
    BY <1>1, <1>4, <2>2, SubmitTyped
  <2> QED
    BY <2>1, <2>2 DEF StartRun
<1>6. RowsOwned'
  BY <1>1, <1>2, <1>5, OwnedStays
<1>7. OnlyTheBatchRuns'
  BY <1>5 DEF OrchInv, OnlyTheBatchRuns
<1>8. NoneForgotten'
  BY <1>1, <1>2, <1>5, ForgottenStays
<1> QED
  BY <1>2, <1>3, <1>5, <1>6, <1>7, <1>8 DEF OrchInv

LEMMA CollectBatchKeeps == OrchInv /\ CollectBatch => OrchInv'
<1> SUFFICES ASSUME OrchInv, CollectBatch PROVE OrchInv'
  OBVIOUS
<1>1. phase = "deploying" /\ rows' = rows /\ deployments' = deployments
      /\ rollbackOn' = rollbackOn /\ orphans' = orphans /\ cancelling' = cancelling
      /\ retries' = retries
  BY DEF CollectBatch, OfAllBatches, run, counters
<1>2. errors' \in BOOLEAN
  <2>1. errors' = (\E p \in batches[1] : thread[p].step = "raised")
    BY DEF CollectBatch
  <2> QED
    BY <2>1
<1>3. /\ phase' \in {"deploying", "rolling back", "ended"}
      /\ phase' = "ended" => ~(errors' /\ rollbackOn)
  BY <1>1 DEF CollectBatch
<1>4. SameRows /\ RowsTyped' /\ RollbackMarks'
  BY <1>1, RowsAlone
<1>5. OrchestrationTyped'
  BY <1>1, <1>2, <1>3 DEF OrchInv, OrchestrationTyped
<1>6. \A p \in Projects : thread[p].step \notin Working
  <2> SUFFICES ASSUME NEW p \in Projects, thread[p].step \in Working PROVE FALSE
    OBVIOUS
  <2>1. p \in batches[1]
    BY DEF OrchInv, OnlyTheBatchRuns
  <2>2. thread[p].step \in {"done", "raised"}
    BY <2>1 DEF CollectBatch, BatchOver
  <2> QED
    BY <2>2 DEF Working, Active
<1>7. /\ ThreadsTyped' /\ NoNewOwner /\ thread'["main"] = thread["main"]
      /\ \A p \in Projects : thread'[p].step = "done" => thread'[p] = thread[p]
      /\ \A p \in Projects : thread'[p].step \in Working =>
           phase' = "deploying" /\ p \in batches'[1]
  <2>1. CASE UNCHANGED thread
    BY <1>1, <1>6, <2>1, ThreadsRest
  <2>2. CASE phase' = "deploying" /\ Submit(batches'[1])
    BY <1>1, <1>6, <2>2, SubmitTyped
  <2> QED
    BY <1>1, <2>1, <2>2 DEF CollectBatch
<1>8. RowsOwned'
  BY <1>1, <1>4, <1>7, OwnedStays
<1>9. OnlyTheBatchRuns'
  BY <1>7 DEF OrchInv, OnlyTheBatchRuns
<1>10. NoneForgotten'
  <2>1. ASSUME NEW p \in Projects, thread'[p].step = "done"
        PROVE  /\ thread'[p].row \in DOMAIN rows'
               /\ \/ \E i \in DOMAIN deployments' : deployments'[i] = thread'[p].row
                  \/ \E r \in DOMAIN rows' : rows'[r].of = thread'[p].row
    BY <1>1, <1>7, <2>1 DEF OrchInv, NoneForgotten, Row
  <2>2. ~(phase' = "ended" /\ errors' /\ rollbackOn')
    BY <1>1, <1>3
  <2> QED
    BY <2>1, <2>2 DEF NoneForgotten, Row
<1> QED
  BY <1>4, <1>5, <1>7, <1>8, <1>9, <1>10 DEF OrchInv

-----------------------------------------------------------------------------
(* The steps of a deployment *)

\* A thread that goes on, gives up or starts again, at the row it has or at none.
LEMMA ThreadMoves ==
  ASSUME OrchInv, NEW t \in Threads, NEW nxt \in Slot, nxt.row <= Len(rows),
         thread' = [thread EXCEPT ![t] = nxt], SameRows, deployments' = deployments,
         nxt.step \in Active => thread[t].step \in Active /\ nxt.row = thread[t].row
  PROVE  ThreadsTyped' /\ OtherThreadsStay(t) /\ thread'[t] = nxt /\ RowsOwned'
<1>1. thread \in [Threads -> Slot]
  BY DEF OrchInv, ThreadsTyped
<1>2. OtherThreadsStay(t) /\ thread'[t] = nxt
  BY <1>1 DEF OtherThreadsStay
<1>3. \A u \in Threads : thread'[u].row <= Len(rows)
  BY <1>2 DEF OrchInv, ThreadsTyped, OtherThreadsStay
<1>4. ThreadsTyped'
  BY <1>2, <1>3 DEF OrchInv, ThreadsTyped, OtherThreadsStay, SameRows
<1>5. NoNewOwner
  BY <1>2 DEF NoNewOwner, OtherThreadsStay
<1>6. RowsOwned'
  BY <1>5, OwnedStays
<1> QED
  BY <1>2, <1>4, <1>6

LEMMA StepIs ==
  ASSUME OrchInv, NEW t \in Threads, NEW s \in {"idle", "done", "raised"} \cup Working,
         Step(t, s)
  PROVE  /\ [step |-> s, row |-> thread[t].row] \in Slot
         /\ thread' = [thread EXCEPT ![t] = [step |-> s, row |-> thread[t].row]]
<1>1. thread[t] \in Slot
  BY ThreadTyped
<1>2. [thread[t] EXCEPT !.step = s] = [step |-> s, row |-> thread[t].row]
  BY <1>1 DEF Slot
<1>3. thread' = [thread EXCEPT ![t] = [thread[t] EXCEPT !.step = s]]
  BY DEF Step
<1> QED
  BY <1>1, <1>2, <1>3 DEF Slot

LEMMA CheckKeeps == \A t \in Threads : OrchInv /\ CheckDeploymentLock(t) => OrchInv'
<1> SUFFICES ASSUME NEW t \in Threads, OrchInv, CheckDeploymentLock(t) PROVE OrchInv'
  OBVIOUS
<1>1. thread[t].step = "check" /\ rows' = rows /\ deployments' = deployments /\ errors' = errors
      /\ phase' = phase /\ batches' = batches /\ retries' = retries
      /\ rollbackOn' = rollbackOn /\ orphans' = orphans /\ cancelling' = cancelling
  BY DEF CheckDeploymentLock, Raised, run
<1>2. SameRows /\ RowsTyped' /\ RollbackMarks'
  BY <1>1, RowsAlone
<1>3. OrchestrationTyped'
  BY <1>1 DEF OrchInv, OrchestrationTyped
<1>4. PICK nxt \in Slot : /\ thread' = [thread EXCEPT ![t] = nxt] /\ nxt.row <= Len(rows)
                          /\ nxt.step \in {"raised", "create"}
  <2>1. CASE Raised(t)
    <3>1. [step |-> "raised", row |-> 0] \in Slot
      BY DEF Slot
    <3>2. 0 <= Len(rows)
      BY DEF OrchInv, RowsTyped
    <3> QED
      BY <2>1, <3>1, <3>2 DEF Raised
  <2>2. CASE Step(t, "create")
    <3>1. "create" \in Working
      BY DEF Working
    <3>2. /\ [step |-> "create", row |-> thread[t].row] \in Slot
          /\ thread' = [thread EXCEPT ![t] = [step |-> "create", row |-> thread[t].row]]
      BY <2>2, <3>1, StepIs
    <3>3. thread[t].row <= Len(rows)
      BY DEF OrchInv, ThreadsTyped
    <3> QED
      BY <3>2, <3>3
  <2> QED
    BY <2>1, <2>2 DEF CheckDeploymentLock
<1>5. ThreadsTyped' /\ OtherThreadsStay(t) /\ thread'[t] = nxt /\ RowsOwned'
  BY <1>1, <1>2, <1>4, ThreadMoves DEF Active
<1>6. t # "main" /\ thread[t].step \in Working
  BY <1>1 DEF OrchInv, OnlyTheBatchRuns, Working, Active
<1>7. OnlyTheBatchRuns'
  BY <1>1, <1>5, <1>6, BatchStays
<1>8. NoneForgotten'
  <2>1. \A p \in Projects : thread'[p].step = "done" => thread'[p] = thread[p]
    BY <1>4, <1>5, Pool DEF OtherThreadsStay
  <2> QED
    BY <1>1, <1>2, <2>1, ForgottenStays
<1> QED
  BY <1>2, <1>3, <1>5, <1>7, <1>8 DEF OrchInv

LEMMA StartKeeps == \A t \in Threads : OrchInv /\ StartDeployment(t) => OrchInv'
<1> SUFFICES ASSUME NEW t \in Threads, OrchInv, StartDeployment(t) PROVE OrchInv'
  OBVIOUS
<1>1. thread[t].step = "pending" /\ deployments' = deployments /\ errors' = errors
      /\ phase' = phase /\ batches' = batches /\ retries' = retries
      /\ rollbackOn' = rollbackOn /\ orphans' = orphans /\ cancelling' = cancelling
  BY DEF StartDeployment, run, counters
<1>2. thread[t].step \in Active /\ thread[t].step \in Working
  BY <1>1 DEF Active, Working
<1>3. SameRows /\ RowsTyped' /\ RollbackMarks'
  <2>1. Row(t) \in DOMAIN rows
    BY <1>2 DEF OrchInv, RowsOwned
  <2>2. "RUNNING" \in Statuses
    BY DEF Statuses, InProgress
  <2> QED
    BY <2>1, <2>2, StatusWritten DEF StartDeployment
<1>4. OrchestrationTyped'
  BY <1>1, <1>3 DEF OrchInv, OrchestrationTyped, SameRows
<1>5. "running" \in Active /\ "running" \in Working
  BY DEF Active, Working
<1>6. PICK nxt \in Slot : /\ thread' = [thread EXCEPT ![t] = nxt]
                          /\ nxt = [step |-> "running", row |-> thread[t].row]
  BY <1>5, StepIs DEF StartDeployment
<1>7. ThreadsTyped' /\ OtherThreadsStay(t) /\ thread'[t] = nxt /\ RowsOwned'
  <2>1. nxt.step \in Active /\ nxt.row = thread[t].row
    BY <1>5, <1>6
  <2>2. nxt.row <= Len(rows)
    BY <2>1 DEF OrchInv, ThreadsTyped
  <2> QED
    BY <1>1, <1>2, <1>3, <1>6, <2>1, <2>2, ThreadMoves
<1>8. OnlyTheBatchRuns'
  BY <1>1, <1>2, <1>5, <1>6, <1>7, BatchStays
<1>9. NoneForgotten'
  <2>1. \A p \in Projects : thread'[p].step = "done" => thread'[p] = thread[p]
    BY <1>6, <1>7, Pool DEF OtherThreadsStay
  <2> QED
    BY <1>1, <1>3, <2>1, ForgottenStays
<1> QED
  BY <1>3, <1>4, <1>7, <1>8, <1>9 DEF OrchInv

LEMMA HangKeeps == \A t \in Threads : OrchInv /\ CommandHangs(t) => OrchInv'
<1> SUFFICES ASSUME NEW t \in Threads, OrchInv, CommandHangs(t) PROVE OrchInv'
  OBVIOUS
<1>1. thread[t].step = "running" /\ deployments' = deployments /\ errors' = errors
      /\ phase' = phase /\ batches' = batches /\ retries' = retries /\ rows' = rows
      /\ rollbackOn' = rollbackOn /\ orphans' = orphans /\ cancelling' = cancelling
  BY DEF CommandHangs, run
<1>2. thread[t].step \in Active /\ thread[t].step \in Working
  BY <1>1 DEF Active, Working
<1>3. SameRows /\ RowsTyped' /\ RollbackMarks'
  BY <1>1, RowsAlone
<1>4. OrchestrationTyped'
  BY <1>1 DEF OrchInv, OrchestrationTyped
<1>5. "hung" \in Active /\ "hung" \in Working
  BY DEF Active, Working
<1>6. PICK nxt \in Slot : /\ thread' = [thread EXCEPT ![t] = nxt]
                          /\ nxt = [step |-> "hung", row |-> thread[t].row]
  BY <1>5, StepIs DEF CommandHangs
<1>7. ThreadsTyped' /\ OtherThreadsStay(t) /\ thread'[t] = nxt /\ RowsOwned'
  <2>1. nxt.step \in Active /\ nxt.row = thread[t].row
    BY <1>5, <1>6
  <2>2. nxt.row <= Len(rows)
    BY <2>1 DEF OrchInv, ThreadsTyped
  <2> QED
    BY <1>1, <1>2, <1>3, <1>6, <2>1, <2>2, ThreadMoves
<1>8. OnlyTheBatchRuns'
  BY <1>1, <1>2, <1>5, <1>6, <1>7, BatchStays
<1>9. NoneForgotten'
  <2>1. \A p \in Projects : thread'[p].step = "done" => thread'[p] = thread[p]
    BY <1>6, <1>7, Pool DEF OtherThreadsStay
  <2> QED
    BY <1>1, <1>3, <2>1, ForgottenStays
<1> QED
  BY <1>3, <1>4, <1>7, <1>8, <1>9 DEF OrchInv

LEMMA FailsKeeps == \A t \in Threads : OrchInv /\ DeploymentFails(t) => OrchInv'
<1> SUFFICES ASSUME NEW t \in Threads, OrchInv, DeploymentFails(t) PROVE OrchInv'
  OBVIOUS
<1>1. thread[t].step = "running" /\ deployments' = deployments /\ errors' = errors
      /\ phase' = phase /\ batches' = batches
      /\ rollbackOn' = rollbackOn /\ orphans' = orphans /\ cancelling' = cancelling
  BY DEF DeploymentFails, run
<1>2. thread[t].step \in Active /\ thread[t].step \in Working
  BY <1>1 DEF Active, Working
<1>3. SameRows /\ RowsTyped' /\ RollbackMarks'
  <2>1. Row(t) \in DOMAIN rows
    BY <1>2 DEF OrchInv, RowsOwned
  <2>2. "FAILED" \in Statuses
    BY DEF Statuses
  <2> QED
    BY <2>1, <2>2, StatusWritten DEF DeploymentFails, MarkFailed
<1>4. PICK nxt \in Slot : /\ thread' = [thread EXCEPT ![t] = nxt] /\ nxt.row = 0
                          /\ nxt.step \in {"idle", "raised", "check"}
                          /\ nxt.step = "check" => t = "task"
                          /\ t = "main" => nxt.step = "idle"
                          /\ retries' \in 0..MaxRetries
  <2>1. /\ [step |-> "raised", row |-> 0] \in Slot /\ [step |-> "check", row |-> 0] \in Slot
        /\ NoJob \in Slot
    BY DEF Slot, NoJob, Working
  <2>2. retries \in 0..MaxRetries /\ MaxRetries \in Nat
    BY OrchAssumption DEF OrchInv, OrchestrationTyped
  <2>3. CASE t = "main" /\ thread' = [thread EXCEPT ![t] = NoJob] /\ UNCHANGED retries
    BY <2>1, <2>2, <2>3 DEF NoJob
  <2>4. CASE t # "main" /\ Raised(t)
    BY <2>1, <2>2, <2>4 DEF Raised
  <2>5. CASE t # "main" /\ Retried(t)
    <3>1. retries' = retries + 1 /\ retries < MaxRetries /\ t = "task"
      BY <2>5 DEF Retried
    <3>2. retries' \in 0..MaxRetries
      BY <2>2, <3>1
    <3> QED
      BY <2>1, <2>5, <3>1, <3>2 DEF Retried
  <2> QED
    BY <2>3, <2>4, <2>5 DEF DeploymentFails
<1>5. OrchestrationTyped'
  BY <1>1, <1>3, <1>4 DEF OrchInv, OrchestrationTyped, SameRows
<1>6. nxt.row <= Len(rows)
  BY <1>4 DEF OrchInv, RowsTyped
<1>7. ThreadsTyped' /\ OtherThreadsStay(t) /\ thread'[t] = nxt /\ RowsOwned'
  BY <1>1, <1>3, <1>4, <1>6, ThreadMoves DEF Active
<1>8. OnlyTheBatchRuns'
  BY <1>1, <1>2, <1>4, <1>7, BatchStays
<1>9. NoneForgotten'
  <2>1. \A p \in Projects : thread'[p].step = "done" => thread'[p] = thread[p]
    BY <1>4, <1>7, Pool DEF OtherThreadsStay
  <2> QED
    BY <1>1, <1>3, <2>1, ForgottenStays
<1> QED
  BY <1>3, <1>5, <1>7, <1>8, <1>9 DEF OrchInv

-----------------------------------------------------------------------------
(* A deployment that succeeds *)

\* The row of t becomes SUCCESS, the one it was made from ROLLED_BACK.
LEMMA SucceedRows ==
  ASSUME OrchInv, NEW t \in Threads, Succeed(t)
  PROVE  SameRows /\ RowsTyped' /\ RollbackMarks'
<1>1. thread[t].step \in Active
  BY DEF Succeed, Active
<1> DEFINE own == thread[t].row
<1>2. own \in DOMAIN rows /\ own \in 1..Len(rows) /\ \A q \in DOMAIN rows : rows[q].of # own
  BY <1>1 DEF OrchInv, RowsOwned, RowsTyped, Row
<1>3. rows \in Seq(Rows) /\ \A q \in DOMAIN rows : rows[q] \in Rows
  BY DEF OrchInv, RowsTyped
<1>4. \A q \in DOMAIN rows :
        rows'[q] = IF q = own THEN [rows[q] EXCEPT !.status = "SUCCESS"]
                   ELSE IF q = rows[own].of THEN [rows[q] EXCEPT !.status = "ROLLED_BACK"]
                   ELSE rows[q]
  BY DEF Succeed, Row
<1>5. ASSUME NEW q \in DOMAIN rows
      PROVE  /\ rows'[q] \in Rows /\ rows'[q].of = rows[q].of
             /\ rows'[q].status = IF q = own THEN "SUCCESS"
                                  ELSE IF q = rows[own].of THEN "ROLLED_BACK"
                                  ELSE rows[q].status
  BY <1>3, <1>4 DEF Rows, Statuses
<1>6. DOMAIN rows' = DOMAIN rows /\ rows' = [q \in 1..Len(rows) |-> rows'[q]]
  BY <1>3 DEF Succeed
<1>7. rows' \in Seq(Rows) /\ Len(rows') = Len(rows)
  <2>1. rows' \in [1..Len(rows) -> Rows] /\ Len(rows) \in Nat
    BY <1>3, <1>5, <1>6
  <2> QED
    BY <1>3, <1>6, <2>1, SeqDef
<1>8. SameRows
  BY <1>5, <1>6, <1>7 DEF SameRows
<1>9. RowsTyped'
  BY <1>5, <1>6, <1>7 DEF OrchInv, RowsTyped
<1>10. RollbackMarks'
  <2> SUFFICES ASSUME NEW q \in DOMAIN rows, rows[q].of # 0, rows'[q].status = "SUCCESS"
               PROVE  rows'[rows[q].of].status # "SUCCESS"
    BY <1>5, <1>6 DEF RollbackMarks
  <2>1. rows[q].of \in DOMAIN rows /\ rows[q].of < q
    <3>1. rows[q].of \in Nat /\ rows[q].of < q /\ q \in 1..Len(rows)
      BY <1>3 DEF OrchInv, RowsTyped, Rows
    <3> QED
      BY <1>3, <3>1
  <2>2. rows[q].of # own
    BY <1>2
  <2>3. CASE q = own
    BY <1>5, <2>1, <2>2, <2>3
  <2>4. CASE q # own
    <3>1. rows[q].status = "SUCCESS"
      BY <1>5, <2>4
    <3>2. rows[rows[q].of].status # "SUCCESS"
      BY <3>1 DEF OrchInv, RollbackMarks
    <3> QED
      BY <1>5, <2>1, <2>2, <3>2
  <2> QED
    BY <2>3, <2>4
<1> QED
  BY <1>8, <1>9, <1>10

LEMMA SucceedKeeps == \A t \in Threads : OrchInv /\ Succeed(t) => OrchInv'
<1> SUFFICES ASSUME NEW t \in Threads, OrchInv, Succeed(t) PROVE OrchInv'
  OBVIOUS
<1>1. thread[t].step = "running" /\ errors' = errors
      /\ phase' = phase /\ batches' = batches /\ retries' = retries
      /\ rollbackOn' = rollbackOn /\ orphans' = orphans /\ cancelling' = cancelling
  BY DEF Succeed, run, counters
<1>2. thread[t].step \in Active /\ thread[t].step \in Working
  BY <1>1 DEF Active, Working
<1>3. SameRows /\ RowsTyped' /\ RollbackMarks'
  BY SucceedRows
<1>4. OrchestrationTyped'
  BY <1>1, <1>3 DEF OrchInv, OrchestrationTyped, SameRows
<1>5. thread[t].row \in DOMAIN rows /\ thread[t].row \in Nat /\ thread[t].row <= Len(rows)
  BY <1>2, ThreadTyped DEF OrchInv, RowsOwned, ThreadsTyped, Row
<1>6. CASE t \notin Projects
  <2>1. deployments' = deployments
    BY <1>6 DEF Succeed
  <2>2. PICK nxt \in Slot : /\ thread' = [thread EXCEPT ![t] = nxt] /\ nxt.row <= Len(rows)
                            /\ nxt.step \in {"idle", "done"}
                            /\ t = "main" => nxt.step = "idle"
    <3>1. CASE t = "main"
      <4>1. NoJob \in Slot /\ 0 <= Len(rows) /\ NoJob.row = 0 /\ NoJob.step = "idle"
        BY DEF OrchInv, RowsTyped, NoJob, Slot
      <4> QED
        BY <3>1, <4>1 DEF Succeed
    <3>2. CASE t # "main"
      <4>1. /\ [step |-> "done", row |-> thread[t].row] \in Slot
            /\ thread' = [thread EXCEPT ![t] = [step |-> "done", row |-> thread[t].row]]
        BY <3>2, StepIs DEF Succeed
      <4> QED
        BY <1>5, <3>2, <4>1
    <3> QED
      BY <3>1, <3>2
  <2>3. ThreadsTyped' /\ OtherThreadsStay(t) /\ thread'[t] = nxt /\ RowsOwned'
    BY <1>3, <2>1, <2>2, ThreadMoves DEF Active
  <2>4. OnlyTheBatchRuns'
    BY <1>1, <1>2, <2>2, <2>3, BatchStays
  <2>5. NoneForgotten'
    <3>1. \A p \in Projects : thread'[p].step = "done" => thread'[p] = thread[p]
      BY <1>6, <2>3, Pool DEF OtherThreadsStay
    <3> QED
      BY <1>1, <1>3, <2>1, <3>1, ForgottenStays
  <2> QED
    BY <1>3, <1>4, <2>3, <2>4, <2>5 DEF OrchInv
<1>7. CASE t \in Projects
  <2>1. deployments' = Append(deployments, thread[t].row)
    BY <1>7 DEF Succeed, Row
  <2>2. deployments \in Seq(Nat)
    BY DEF OrchInv, ThreadsTyped
  <2>3. /\ deployments' \in Seq(Nat)
        /\ \A i \in DOMAIN deployments' :
             (i \in DOMAIN deployments /\ deployments'[i] = deployments[i])
               \/ deployments'[i] = thread[t].row
        /\ \A i \in DOMAIN deployments : i \in DOMAIN deployments'
                                         /\ deployments'[i] = deployments[i]
        /\ \E i \in DOMAIN deployments' : deployments'[i] = thread[t].row
    <3>1. /\ deployments' \in Seq(Nat) /\ Len(deployments') = Len(deployments) + 1
          /\ \A i \in 1..Len(deployments) : deployments'[i] = deployments[i]
          /\ deployments'[Len(deployments) + 1] = thread[t].row
      BY <1>5, <2>1, <2>2
    <3>2. DOMAIN deployments = 1..Len(deployments) /\ Len(deployments) \in Nat
          /\ DOMAIN deployments' = 1..(Len(deployments) + 1)
      BY <2>2, <3>1
    <3> QED
      BY <3>1, <3>2
  <2>4. /\ [step |-> "done", row |-> thread[t].row] \in Slot
        /\ thread' = [thread EXCEPT ![t] = [step |-> "done", row |-> thread[t].row]]
    BY <1>7, Pool, StepIs DEF Succeed
  <2>5. thread \in [Threads -> Slot]
    BY DEF OrchInv, ThreadsTyped
  <2>6. /\ OtherThreadsStay(t) /\ thread'[t] = [step |-> "done", row |-> thread[t].row]
        /\ thread' \in [Threads -> Slot]
    BY <2>4, <2>5 DEF OtherThreadsStay
  <2>7. thread'[t].step = "done" /\ thread'[t].row = thread[t].row
    BY <2>6
  <2>8. ThreadsTyped'
    <3>1. \A u \in Threads : thread'[u].row <= Len(rows')
      BY <1>3, <1>5, <2>6, <2>7 DEF OrchInv, ThreadsTyped, OtherThreadsStay, SameRows
    <3>2. \A i \in DOMAIN deployments' : deployments'[i] \in DOMAIN rows'
      BY <1>3, <1>5, <2>3 DEF OrchInv, ThreadsTyped, SameRows
    <3> QED
      BY <2>3, <2>6, <3>1, <3>2 DEF ThreadsTyped
  <2>9. RowsOwned'
    <3>1. ASSUME NEW u \in Threads, thread'[u].step \in Active
          PROVE  /\ u # t /\ thread'[u] = thread[u] /\ thread[u].row # thread[t].row
                 /\ thread[u].row \in DOMAIN rows
                 /\ \A i \in DOMAIN deployments : deployments[i] # thread[u].row
                 /\ \A r \in DOMAIN rows : rows[r].of # thread[u].row
      <4>1. u # t
        BY <2>7, <3>1 DEF Active
      <4>2. thread'[u] = thread[u] /\ thread[u].step \in Active
        BY <2>6, <3>1, <4>1 DEF OtherThreadsStay
      <4> QED
        BY <1>2, <4>1, <4>2 DEF OrchInv, RowsOwned, Row
    <3>2. \A u \in Threads : thread'[u].step \in Active =>
            /\ thread'[u].row \in DOMAIN rows'
            /\ \A i \in DOMAIN deployments' : deployments'[i] # thread'[u].row
            /\ \A r \in DOMAIN rows' : rows'[r].of # thread'[u].row
      BY <1>3, <2>3, <3>1 DEF SameRows
    <3>3. \A u, v \in Threads :
            u # v /\ thread'[u].step \in Active /\ thread'[v].step \in Active =>
              thread'[u].row # thread'[v].row
      BY <3>1, <2>6 DEF OrchInv, RowsOwned, OtherThreadsStay, Row
    <3> QED
      BY <3>2, <3>3 DEF RowsOwned, Row
  <2>10. OnlyTheBatchRuns'
    BY <1>1, <1>2, <1>7, <2>6, <2>7, Pool, BatchStays DEF Working, Active
  <2>11. NoneForgotten'
    <3>1. ASSUME NEW p \in Projects, thread'[p].step = "done"
          PROVE  /\ thread'[p].row \in DOMAIN rows'
                 /\ \/ \E i \in DOMAIN deployments' : deployments'[i] = thread'[p].row
                    \/ \E r \in DOMAIN rows' : rows'[r].of = thread'[p].row
      <4>1. CASE p = t
        BY <1>3, <1>5, <2>3, <2>7, <4>1 DEF SameRows
      <4>2. CASE p # t
        <5>1. thread'[p] = thread[p]
          BY <2>6, <4>2, Pool DEF OtherThreadsStay
        <5>2. /\ thread[p].row \in DOMAIN rows
              /\ \/ \E i \in DOMAIN deployments : deployments[i] = thread[p].row
                 \/ \E r \in DOMAIN rows : rows[r].of = thread[p].row
          BY <3>1, <5>1 DEF OrchInv, NoneForgotten, Row
        <5>3. DOMAIN rows' = DOMAIN rows /\ \A r \in DOMAIN rows : rows'[r].of = rows[r].of
          BY <1>3 DEF SameRows
        <5>4. CASE \E i \in DOMAIN deployments : deployments[i] = thread[p].row
          BY <2>3, <5>1, <5>2, <5>3, <5>4
        <5>5. CASE \E r \in DOMAIN rows : rows[r].of = thread[p].row
          BY <5>1, <5>2, <5>3, <5>5
        <5> QED
          BY <5>2, <5>4, <5>5
      <4> QED
        BY <4>1, <4>2
    <3>2. phase' # "ended"
      BY <1>1, <1>2, <1>7 DEF OrchInv, OnlyTheBatchRuns
    <3> QED
      BY <3>1, <3>2 DEF NoneForgotten, Row
  <2> QED
    BY <1>3, <1>4, <2>8, <2>9, <2>10, <2>11 DEF OrchInv
<1> QED
  BY <1>6, <1>7

-----------------------------------------------------------------------------
(* New rows: of a deployment and of a rollback *)

LEMMA RowAdded ==
  ASSUME OrchInv, NEW project \in Projects, NEW of \in Nat, of <= Len(rows),
         rows' = NewRow(project, of)
  PROVE  /\ RowsTyped' /\ RollbackMarks'
         /\ Len(rows') = Len(rows) + 1 /\ Len(rows) \in Nat
         /\ DOMAIN rows' = DOMAIN rows \cup {Len(rows) + 1} /\ DOMAIN rows = 1..Len(rows)
         /\ \A r \in DOMAIN rows : rows'[r] = rows[r]
         /\ rows'[Len(rows) + 1] = [project |-> project, status |-> "PENDING", of |-> of]
<1> DEFINE new == [project |-> project, status |-> "PENDING", of |-> of]
           n == Len(rows)
<1>1. new \in Rows
  BY DEF Rows, Statuses, InProgress
<1>2. rows \in Seq(Rows) /\ n \in Nat /\ DOMAIN rows = 1..n
  BY DEF OrchInv, RowsTyped
<1>3. /\ rows' \in Seq(Rows) /\ Len(rows') = n + 1
      /\ \A r \in 1..n : rows'[r] = rows[r]
      /\ rows'[n + 1] = new
  BY <1>1, <1>2 DEF NewRow
<1>4. DOMAIN rows' = DOMAIN rows \cup {n + 1}
  BY <1>2, <1>3
<1>5. RowsTyped'
  <2>1. \A r \in DOMAIN rows' : rows'[r].of < r
    <3>1. \A r \in DOMAIN rows : rows[r].of < r
      BY DEF OrchInv, RowsTyped
    <3>2. new.of = of /\ of < n + 1
      BY <1>2
    <3> QED
      BY <1>2, <1>3, <1>4, <3>1, <3>2
  <2> QED
    BY <1>3, <2>1 DEF RowsTyped
<1>6. RollbackMarks'
  <2> SUFFICES ASSUME NEW r \in DOMAIN rows', rows'[r].of # 0, rows'[r].status = "SUCCESS"
               PROVE  rows'[rows'[r].of].status # "SUCCESS"
    BY DEF RollbackMarks
  <2>1. new.status # "SUCCESS"
    OBVIOUS
  <2>2. r \in DOMAIN rows /\ rows'[r] = rows[r]
    BY <1>2, <1>3, <1>4, <2>1
  <2>3. rows[rows[r].of].status # "SUCCESS"
    BY <2>2 DEF OrchInv, RollbackMarks
  <2>4. rows[r].of \in 1..n
    <3>1. rows[r] \in Rows /\ rows[r].of < r /\ r \in 1..n
      BY <1>2, <2>2 DEF OrchInv, RowsTyped
    <3>2. rows[r].of \in Nat
      BY <3>1 DEF Rows
    <3> QED
      BY <1>2, <2>2, <3>1, <3>2
  <2> QED
    BY <1>3, <2>2, <2>3, <2>4
<1> QED
  BY <1>2, <1>3, <1>4, <1>5, <1>6

\* The thread that made the row owns it: it is new to everything that names rows.
LEMMA NewOwner ==
  ASSUME OrchInv, NEW t \in Threads, NEW project \in Projects, NEW of \in Nat,
         rows' = NewRow(project, of),
         thread' = [thread EXCEPT ![t] = [step |-> "pending", row |-> Len(rows')]],
         deployments' \in Seq(Nat),
         \A i \in DOMAIN deployments' : \E j \in DOMAIN deployments :
           deployments'[i] = deployments[j],
         of = 0 \/ \E j \in DOMAIN deployments : deployments[j] = of
  PROVE  /\ RowsTyped' /\ ThreadsTyped' /\ RowsOwned' /\ RollbackMarks'
         /\ OtherThreadsStay(t) /\ thread'[t].step = "pending"
<1> DEFINE n == Len(rows)
<1>1. of <= Len(rows) /\ of \in 0..n
  <2>1. rows \in Seq(Rows)
    BY DEF OrchInv, RowsTyped
  <2>2. of = 0 \/ of \in DOMAIN rows
    BY DEF OrchInv, ThreadsTyped
  <2> QED
    BY <2>1, <2>2
<1>2. /\ RowsTyped' /\ RollbackMarks'
      /\ Len(rows') = n + 1 /\ n \in Nat
      /\ DOMAIN rows' = DOMAIN rows \cup {n + 1} /\ DOMAIN rows = 1..n
      /\ \A r \in DOMAIN rows : rows'[r] = rows[r]
      /\ rows'[n + 1] = [project |-> project, status |-> "PENDING", of |-> of]
  BY <1>1, RowAdded
<1>3. rows'[n + 1].of = of
  BY <1>2
<1>4. thread \in [Threads -> Slot]
  BY DEF OrchInv, ThreadsTyped
<1>5. [step |-> "pending", row |-> n + 1] \in Slot
  BY <1>2 DEF Slot, Working, Active
<1>6. thread'[t] = [step |-> "pending", row |-> n + 1] /\ OtherThreadsStay(t)
  BY <1>2, <1>4, <1>5 DEF OtherThreadsStay
<1>7. thread'[t].step = "pending" /\ thread'[t].row = n + 1
  BY <1>6
<1>8. \A i \in DOMAIN deployments' : deployments'[i] \in 1..n
  BY <1>2 DEF OrchInv, ThreadsTyped
<1>9. ThreadsTyped'
  <2>1. ASSUME NEW u \in Threads PROVE thread'[u].row <= n + 1
    <3>1. thread[u].row \in 0..n
      BY ThreadTyped
    <3>2. u # t => thread'[u] = thread[u]
      BY <1>6 DEF OtherThreadsStay
    <3> QED
      BY <1>2, <1>7, <3>1, <3>2
  <2>2. \A i \in DOMAIN deployments' : deployments'[i] \in DOMAIN rows'
    BY <1>2, <1>8
  <2> QED
    BY <1>2, <1>6, <2>1, <2>2 DEF ThreadsTyped, OtherThreadsStay
<1>10. ASSUME NEW u \in Threads, u # t, thread'[u].step \in Active
       PROVE  /\ thread'[u].row \in 1..n
              /\ \A i \in DOMAIN deployments' : deployments'[i] # thread'[u].row
              /\ \A r \in DOMAIN rows' : rows'[r].of # thread'[u].row
  <2>1. thread'[u] = thread[u]
    BY <1>6, <1>10 DEF OtherThreadsStay
  <2>2. /\ thread[u].row \in 1..n
        /\ \A i \in DOMAIN deployments : deployments[i] # thread[u].row
        /\ \A r \in DOMAIN rows : rows[r].of # thread[u].row
    BY <1>2, <1>10, <2>1 DEF OrchInv, RowsOwned, Row
  <2>3. of # thread[u].row
    BY <2>2
  <2> QED
    BY <1>2, <1>3, <2>1, <2>2, <2>3
<1>11. /\ \A i \in DOMAIN deployments' : deployments'[i] # n + 1
       /\ \A r \in DOMAIN rows' : rows'[r].of # n + 1
  <2>1. \A i \in DOMAIN deployments' : deployments'[i] # n + 1
    BY <1>2, <1>8
  <2>2. ASSUME NEW r \in DOMAIN rows PROVE rows'[r].of # n + 1
    <3>1. rows'[r] = rows[r] /\ rows[r].of < r /\ r \in 1..n /\ rows[r] \in Rows
      BY <1>2 DEF OrchInv, RowsTyped
    <3>2. rows[r].of \in Nat
      BY <3>1 DEF Rows
    <3> QED
      BY <1>2, <3>1, <3>2
  <2>3. of # n + 1
    BY <1>1, <1>2
  <2> QED
    BY <1>2, <1>3, <2>1, <2>2, <2>3
<1>12. RowsOwned'
  <2>1. \A u \in Threads : thread'[u].step \in Active =>
          /\ thread'[u].row \in DOMAIN rows'
          /\ \A i \in DOMAIN deployments' : deployments'[i] # thread'[u].row
          /\ \A r \in DOMAIN rows' : rows'[r].of # thread'[u].row
    BY <1>2, <1>7, <1>10, <1>11
  <2>2. ASSUME NEW u \in Threads, NEW v \in Threads, u # v, thread'[u].step \in Active,
               thread'[v].step \in Active
        PROVE  thread'[u].row # thread'[v].row
    <3>1. CASE u # t /\ v # t
      <4>1. thread'[u] = thread[u] /\ thread'[v] = thread[v]
        BY <1>6, <3>1 DEF OtherThreadsStay
      <4> QED
        BY <2>2, <4>1 DEF OrchInv, RowsOwned, Row
    <3>2. CASE u = t
      <4>1. thread'[v].row \in 1..n
        BY <1>10, <2>2, <3>2
      <4> QED
        BY <1>2, <1>7, <3>2, <4>1
    <3>3. CASE v = t
      <4>1. thread'[u].row \in 1..n
        BY <1>10, <2>2, <3>3
      <4> QED
        BY <1>2, <1>7, <3>3, <4>1
    <3> QED
      BY <3>1, <3>2, <3>3
  <2> QED
    BY <2>1, <2>2 DEF RowsOwned, Row
<1> QED
  BY <1>2, <1>6, <1>7, <1>9, <1>12

LEMMA CreateKeeps == \A t \in Threads : OrchInv /\ CreateDeployment(t) => OrchInv'
<1> SUFFICES ASSUME NEW t \in Threads, OrchInv, CreateDeployment(t) PROVE OrchInv'
  OBVIOUS
<1>1. thread[t].step = "create" /\ deployments' = deployments /\ errors' = errors
      /\ phase' = phase /\ batches' = batches /\ retries' = retries
      /\ rollbackOn' = rollbackOn /\ orphans' = orphans /\ cancelling' = cancelling
      /\ rows' = NewRow(Project(t), 0)
      /\ thread' = [thread EXCEPT ![t] = [step |-> "pending", row |-> Len(rows')]]
  BY DEF CreateDeployment, run, counters
<1>2. t # "main"
  BY <1>1 DEF OrchInv, OnlyTheBatchRuns, Active
<1>3. Project(t) \in Projects
  <2>1. TaskProject \in Projects
    BY OrchAssumption
  <2> QED
    BY <1>2, <2>1, Pool DEF Project
<1>4. deployments \in Seq(Nat)
  BY DEF OrchInv, ThreadsTyped
<1>5. /\ RowsTyped' /\ ThreadsTyped' /\ RowsOwned' /\ RollbackMarks'
      /\ OtherThreadsStay(t) /\ thread'[t].step = "pending"
  BY <1>1, <1>3, <1>4, NewOwner
<1>6. /\ Len(rows') = Len(rows) + 1 /\ Len(rows) \in Nat
      /\ DOMAIN rows' = DOMAIN rows \cup {Len(rows) + 1}
      /\ \A r \in DOMAIN rows : rows'[r] = rows[r]
  <2>1. 0 \in Nat /\ 0 <= Len(rows)
    BY DEF OrchInv, RowsTyped
  <2> QED
    BY <1>1, <1>3, <2>1, RowAdded
<1>7. OrchestrationTyped'
  <2>1. cancelling \in 0..Len(rows')
    <3>1. cancelling \in 0..Len(rows)
      BY DEF OrchInv, OrchestrationTyped
    <3>2. Len(rows) \in Nat /\ Len(rows') = Len(rows) + 1
      BY <1>6
    <3> QED
      BY <3>1, <3>2
  <2>2. orphans \subseteq DOMAIN rows'
    BY <1>6 DEF OrchInv, OrchestrationTyped
  <2> QED
    BY <1>1, <2>1, <2>2 DEF OrchInv, OrchestrationTyped
<1>8. OnlyTheBatchRuns'
  BY <1>1, <1>2, <1>5, BatchStays DEF Working
<1>9. NoneForgotten'
  <2>1. ASSUME NEW p \in Projects, thread'[p].step = "done"
        PROVE  /\ thread'[p].row \in DOMAIN rows'
               /\ \/ \E i \in DOMAIN deployments' : deployments'[i] = thread'[p].row
                  \/ \E r \in DOMAIN rows' : rows'[r].of = thread'[p].row
    <3>1. p # t /\ thread'[p] = thread[p]
      BY <1>5, <2>1, Pool DEF OtherThreadsStay
    <3>2. /\ thread[p].row \in DOMAIN rows
          /\ \/ \E i \in DOMAIN deployments : deployments[i] = thread[p].row
             \/ \E r \in DOMAIN rows : rows[r].of = thread[p].row
      BY <2>1, <3>1 DEF OrchInv, NoneForgotten, Row
    <3> QED
      BY <1>1, <1>6, <3>1, <3>2
  <2>2. phase' = "ended" /\ errors' /\ rollbackOn' => deployments' = <<>>
    BY <1>1 DEF OrchInv, NoneForgotten
  <2> QED
    BY <2>1, <2>2 DEF NoneForgotten, Row
<1> QED
  BY <1>5, <1>7, <1>8, <1>9 DEF OrchInv

LEMMA RollBackKeeps == OrchInv /\ RollBackNext => OrchInv'
<1> SUFFICES ASSUME OrchInv, RollBackNext PROVE OrchInv'
  OBVIOUS
<1>1. phase = "rolling back" /\ thread["main"] = NoJob /\ errors' = errors
      /\ batches' = batches /\ retries' = retries
      /\ rollbackOn' = rollbackOn /\ orphans' = orphans /\ cancelling' = cancelling
  BY DEF RollBackNext, run, counters
<1>2. "main" \in Threads /\ \A p \in Projects : p \in Threads /\ p # "main"
  BY Pool
<1>3. \A p \in Projects : thread[p].step \notin Working
  BY <1>1 DEF OrchInv, OnlyTheBatchRuns
<1>4. CASE deployments = <<>>
  <2>1. phase' = "ended" /\ deployments' = deployments /\ rows' = rows /\ thread' = thread
    BY <1>4 DEF RollBackNext
  <2>2. SameRows /\ RowsTyped' /\ RollbackMarks'
    BY <2>1, RowsAlone
  <2>3. ThreadsTyped' /\ NoNewOwner
    BY <2>1, ThreadsRest
  <2>4. RowsOwned'
    BY <2>1, <2>2, <2>3, OwnedStays
  <2>5. OrchestrationTyped'
    BY <1>1, <2>1 DEF OrchInv, OrchestrationTyped
  <2>6. OnlyTheBatchRuns'
    BY <1>3, <2>1 DEF OrchInv, OnlyTheBatchRuns
  <2>7. NoneForgotten'
    BY <1>1, <1>4, <2>1, <2>2, ForgottenStays
  <2> QED
    BY <2>2, <2>3, <2>4, <2>5, <2>6, <2>7 DEF OrchInv
<1>5. CASE deployments # <<>>
  <2> DEFINE d == Len(deployments)
             last == deployments[d]
  <2>1. /\ rows' = NewRow(rows[last].project, last)
        /\ thread' = [thread EXCEPT !["main"] = [step |-> "pending", row |-> Len(rows')]]
        /\ deployments' = SubSeq(deployments, 1, d - 1)
        /\ phase' = phase
    BY <1>5 DEF RollBackNext
  <2>2. deployments \in Seq(Nat) /\ d \in Nat /\ d # 0 /\ DOMAIN deployments = 1..d
    BY <1>5 DEF OrchInv, ThreadsTyped
  <2>3. d \in DOMAIN deployments /\ last \in DOMAIN rows
    <3>1. d \in 1..d
      BY <2>2
    <3> QED
      BY <2>2, <3>1 DEF OrchInv, ThreadsTyped
  <2>4. rows[last].project \in Projects /\ last \in Nat /\ last <= Len(rows)
    <3>1. rows \in Seq(Rows) /\ rows[last] \in Rows
      BY <2>3 DEF OrchInv, RowsTyped
    <3> QED
      BY <2>3, <3>1 DEF Rows
  <2>5. /\ deployments' \in Seq(Nat) /\ DOMAIN deployments' = 1..(d - 1)
        /\ \A i \in 1..(d - 1) : deployments'[i] = deployments[i]
    BY <2>1, <2>2
  <2>6. \A i \in DOMAIN deployments' : \E j \in DOMAIN deployments :
          deployments'[i] = deployments[j]
    BY <2>2, <2>5
  <2>7. /\ RowsTyped' /\ ThreadsTyped' /\ RowsOwned' /\ RollbackMarks'
        /\ OtherThreadsStay("main") /\ thread'["main"].step = "pending"
    BY <1>2, <2>1, <2>3, <2>4, <2>5, <2>6, NewOwner
  <2>8. /\ Len(rows') = Len(rows) + 1 /\ Len(rows) \in Nat
        /\ DOMAIN rows' = DOMAIN rows \cup {Len(rows) + 1}
        /\ \A r \in DOMAIN rows : rows'[r] = rows[r]
        /\ rows'[Len(rows) + 1]
             = [project |-> rows[last].project, status |-> "PENDING", of |-> last]
    BY <2>1, <2>4, RowAdded
  <2>9. rows'[Len(rows) + 1].of = last
    BY <2>8
  <2>10. OrchestrationTyped'
    <3>1. cancelling \in 0..Len(rows')
      <4>1. cancelling \in 0..Len(rows)
        BY DEF OrchInv, OrchestrationTyped
      <4>2. Len(rows) \in Nat /\ Len(rows') = Len(rows) + 1
        BY <2>8
      <4> QED
        BY <4>1, <4>2
    <3>2. orphans \subseteq DOMAIN rows'
      BY <2>8 DEF OrchInv, OrchestrationTyped
    <3> QED
      BY <1>1, <2>1, <3>1, <3>2 DEF OrchInv, OrchestrationTyped
  <2>11. OnlyTheBatchRuns'
    <3>1. \A p \in Projects : thread'[p] = thread[p]
      BY <1>2, <2>7 DEF OtherThreadsStay
    <3> QED
      BY <1>3, <2>7, <3>1 DEF OnlyTheBatchRuns, Active
  <2>12. NoneForgotten'
    <3>1. ASSUME NEW p \in Projects, thread'[p].step = "done"
          PROVE  /\ thread'[p].row \in DOMAIN rows'
                 /\ \/ \E i \in DOMAIN deployments' : deployments'[i] = thread'[p].row
                    \/ \E r \in DOMAIN rows' : rows'[r].of = thread'[p].row
      <4>1. thread'[p] = thread[p]
        BY <1>2, <2>7 DEF OtherThreadsStay
      <4>2. /\ thread[p].row \in DOMAIN rows
            /\ \/ \E i \in DOMAIN deployments : deployments[i] = thread[p].row
               \/ \E r \in DOMAIN rows : rows[r].of = thread[p].row
        BY <3>1, <4>1 DEF OrchInv, NoneForgotten, Row
      <4>3. CASE \E r \in DOMAIN rows : rows[r].of = thread[p].row
        BY <2>8, <4>1, <4>2, <4>3
      <4>4. CASE \E i \in DOMAIN deployments : deployments[i] = thread[p].row
        <5>1. PICK i \in 1..d : deployments[i] = thread[p].row
          BY <2>2, <4>4
        <5>2. CASE i = d
          BY <2>8, <2>9, <4>1, <4>2, <5>1, <5>2
        <5>3. CASE i # d
          <6>1. i \in 1..(d - 1)
            <7>1. d \in Nat
              BY <2>2
            <7>2. i <= d /\ i \in Int /\ 1 <= i
              BY <5>1, <7>1
            <7> QED
              BY <5>3, <7>1, <7>2
          <6> QED
            BY <2>5, <2>8, <4>1, <4>2, <5>1, <6>1
        <5> QED
          BY <5>2, <5>3
      <4> QED
        BY <4>2, <4>3, <4>4
    <3>2. phase' # "ended"
      BY <1>1, <2>1
    <3> QED
      BY <3>1, <3>2 DEF NoneForgotten, Row
  <2> QED
    BY <2>7, <2>10, <2>11, <2>12 DEF OrchInv
<1> QED
  BY <1>4, <1>5

-----------------------------------------------------------------------------
(* The operator and the deaths *)

LEMMA CancelKeeps == OrchInv /\ CancelDeployment => OrchInv'
<1> SUFFICES ASSUME OrchInv, CancelDeployment PROVE OrchInv'
  OBVIOUS
<1>1. cancelling # 0 /\ cancelling' = 0 /\ deployments' = deployments /\ errors' = errors
      /\ phase' = phase /\ batches' = batches /\ retries' = retries /\ thread' = thread
      /\ rollbackOn' = rollbackOn /\ orphans' = orphans
      /\ SetStatus(cancelling, "CANCELLED")
  BY DEF CancelDeployment, run
<1>2. SameRows /\ RowsTyped' /\ RollbackMarks'
  <2>1. cancelling \in DOMAIN rows
    <3>1. rows \in Seq(Rows) /\ cancelling \in 0..Len(rows)
      BY DEF OrchInv, RowsTyped, OrchestrationTyped
    <3> QED
      BY <1>1, <3>1
  <2>2. "CANCELLED" \in Statuses
    BY DEF Statuses
  <2> QED
    BY <1>1, <2>1, <2>2, StatusWritten
<1>3. 0 \in 0..Len(rows)
  BY DEF OrchInv, RowsTyped
<1>4. OrchestrationTyped'
  BY <1>1, <1>2, <1>3 DEF OrchInv, OrchestrationTyped, SameRows
<1>5. ThreadsTyped' /\ NoNewOwner
  BY <1>1, <1>2 DEF OrchInv, ThreadsTyped, NoNewOwner, SameRows
<1>6. RowsOwned'
  BY <1>1, <1>2, <1>5, OwnedStays
<1>7. OnlyTheBatchRuns'
  BY <1>1 DEF OrchInv, OnlyTheBatchRuns
<1>8. NoneForgotten'
  BY <1>1, <1>2, ForgottenStays
<1> QED
  BY <1>2, <1>4, <1>5, <1>6, <1>7, <1>8 DEF OrchInv

LEMMA LoadKeeps == OrchInv /\ LoadToCancel => OrchInv'
<1> SUFFICES ASSUME OrchInv, LoadToCancel PROVE OrchInv'
  OBVIOUS
<1>1. deployments' = deployments /\ errors' = errors
      /\ phase' = phase /\ batches' = batches /\ retries' = retries /\ thread' = thread
      /\ rollbackOn' = rollbackOn /\ orphans' = orphans /\ rows' = rows
      /\ cancelling' \in DOMAIN rows
  BY DEF LoadToCancel, run
<1>2. SameRows /\ RowsTyped' /\ RollbackMarks'
  BY <1>1, RowsAlone
<1>3. cancelling' \in 0..Len(rows)
  BY <1>1 DEF OrchInv, RowsTyped
<1>4. OrchestrationTyped'
  BY <1>1, <1>3 DEF OrchInv, OrchestrationTyped
<1>5. ThreadsTyped' /\ NoNewOwner
  BY <1>1, ThreadsRest
<1>6. RowsOwned'
  BY <1>1, <1>2, <1>5, OwnedStays
<1>7. OnlyTheBatchRuns'
  BY <1>1 DEF OrchInv, OnlyTheBatchRuns
<1>8. NoneForgotten'
  BY <1>1, <1>2, ForgottenStays
<1> QED
  BY <1>2, <1>4, <1>5, <1>6, <1>7, <1>8 DEF OrchInv

LEMMA RowOfThread ==
  ASSUME OrchInv, NEW t \in Threads PROVE {Row(t)} \ {0} \subseteq DOMAIN rows
<1>1. thread[t].row \in 0..Len(rows) /\ rows \in Seq(Rows)
  BY ThreadTyped DEF OrchInv, RowsTyped
<1> QED
  BY <1>1 DEF Row

LEMMA TaskDiesKeeps == OrchInv /\ TaskWorkerDies => OrchInv'
<1> SUFFICES ASSUME OrchInv, TaskWorkerDies PROVE OrchInv'
  OBVIOUS
<1>1. deployments' = deployments /\ errors' = errors
      /\ phase' = phase /\ batches' = batches /\ retries' = retries
      /\ rollbackOn' = rollbackOn /\ rows' = rows /\ cancelling' = cancelling
      /\ orphans' = orphans \cup ({Row("task")} \ {0})
  BY DEF TaskWorkerDies, run
<1>2. SameRows /\ RowsTyped' /\ RollbackMarks'
  BY <1>1, RowsAlone
<1>3. OrchestrationTyped'
  BY <1>1, RowOfThread, Pool DEF OrchInv, OrchestrationTyped
<1>4. PICK nxt \in Slot : /\ thread' = [thread EXCEPT !["task"] = nxt] /\ nxt.row = 0
                          /\ nxt.step \in {"check", "idle"}
  <2>1. [step |-> "check", row |-> 0] \in Slot /\ NoJob \in Slot
    BY DEF Slot, NoJob, Working
  <2> QED
    BY <2>1 DEF TaskWorkerDies, NoJob
<1>5. nxt.row <= Len(rows)
  BY <1>4 DEF OrchInv, RowsTyped
<1>6. ThreadsTyped' /\ OtherThreadsStay("task") /\ thread'["task"] = nxt /\ RowsOwned'
  BY <1>1, <1>2, <1>4, <1>5, Pool, ThreadMoves DEF Active
<1>7. /\ \A p \in Projects : thread'[p] = thread[p]
      /\ thread'["main"] = thread["main"]
  BY <1>6, Pool DEF OtherThreadsStay
<1>8. OnlyTheBatchRuns'
  BY <1>1, <1>7 DEF OrchInv, OnlyTheBatchRuns
<1>9. NoneForgotten'
  BY <1>1, <1>2, <1>7, ForgottenStays
<1> QED
  BY <1>2, <1>3, <1>6, <1>8, <1>9 DEF OrchInv

LEMMA RunDiesKeeps == OrchInv /\ RunDies => OrchInv'
<1> SUFFICES ASSUME OrchInv, RunDies PROVE OrchInv'
  OBVIOUS
<1>1. deployments' = deployments /\ errors' = errors
      /\ phase' = "killed" /\ batches' = batches /\ retries' = retries
      /\ rollbackOn' = rollbackOn /\ rows' = rows /\ cancelling' = cancelling
      /\ orphans' = orphans \cup ({Row(t) : t \in Threads \ {"task"}} \ {0})
      /\ thread' = [t \in Threads |-> IF t = "task" THEN thread[t] ELSE NoJob]
  BY DEF RunDies, run
<1>2. SameRows /\ RowsTyped' /\ RollbackMarks'
  BY <1>1, RowsAlone
<1>3. OrchestrationTyped'
  <2>1. {Row(t) : t \in Threads \ {"task"}} \ {0} \subseteq DOMAIN rows
    BY RowOfThread
  <2> QED
    BY <1>1, <2>1 DEF OrchInv, OrchestrationTyped
<1>4. NoJob \in Slot /\ NoJob.row = 0 /\ NoJob.step = "idle" /\ 0 <= Len(rows)
  BY DEF OrchInv, RowsTyped, Slot, NoJob
<1>5. \A t \in Threads : thread'[t] = thread[t] \/ thread'[t] = NoJob
  BY <1>1
<1>6. ThreadsTyped'
  <2>1. \A t \in Threads : thread'[t] \in Slot /\ thread'[t].row <= Len(rows)
    BY <1>4, <1>5 DEF OrchInv, ThreadsTyped
  <2>2. thread' \in [Threads -> Slot]
    BY <1>1, <2>1
  <2> QED
    BY <1>1, <2>1, <2>2 DEF OrchInv, ThreadsTyped
<1>7. NoNewOwner
  BY <1>4, <1>5 DEF NoNewOwner, Active
<1>8. RowsOwned'
  BY <1>1, <1>2, <1>7, OwnedStays
<1>9. \A p \in Projects \cup {"main"} : thread'[p].step = "idle"
  BY <1>1, <1>4, Pool
<1>10. OnlyTheBatchRuns'
  BY <1>9 DEF OnlyTheBatchRuns, Working, Active
<1>11. NoneForgotten'
  BY <1>1, <1>2, <1>9, ForgottenStays
<1> QED
  BY <1>2, <1>3, <1>6, <1>8, <1>10, <1>11 DEF OrchInv

-----------------------------------------------------------------------------
(* The theorems *)

\* Every step keeps the invariant.
LEMMA OrchStep == OrchInv /\ [OrchNext]_orchVars => OrchInv'
<1> SUFFICES ASSUME OrchInv, [OrchNext]_orchVars PROVE OrchInv'
  OBVIOUS
<1>1. CASE DeploymentSteps
  BY <1>1, CheckKeeps, CreateKeeps, StartKeeps, SucceedKeeps, FailsKeeps
     DEF DeploymentSteps
<1>2. CASE RunSteps
  BY <1>2, StartRunKeeps, CollectBatchKeeps, RollBackKeeps DEF RunSteps
<1>3. CASE Others
  BY <1>3, LoadKeeps, CancelKeeps, TaskDiesKeeps, RunDiesKeeps, HangKeeps DEF Others
<1>4. CASE UNCHANGED orchVars
  <2>1. rows' = rows /\ thread' = thread /\ deployments' = deployments /\ phase' = phase
        /\ errors' = errors /\ orphans' = orphans /\ cancelling' = cancelling
        /\ retries' = retries /\ batches' = batches /\ rollbackOn' = rollbackOn
    BY <1>4 DEF orchVars
  <2>2. SameRows /\ RowsTyped' /\ RollbackMarks'
    BY <2>1, RowsAlone
  <2>3. ThreadsTyped' /\ OrchestrationTyped'
    BY <2>1 DEF OrchInv, ThreadsTyped, OrchestrationTyped
  <2>4. RowsOwned' /\ OnlyTheBatchRuns' /\ NoneForgotten'
    BY <2>1 DEF OrchInv, RowsOwned, OnlyTheBatchRuns, NoneForgotten, Row
  <2> QED
    BY <2>2, <2>3, <2>4 DEF OrchInv
<1> QED
  BY <1>1, <1>2, <1>3, <1>4 DEF OrchNext

\* The invariant holds of every run of deploy_multiple, beside a Celery deployment that is
\* retried, with dying workers, hanging commands and cancels that save late.
THEOREM OrchInductive == OrchSpec => []OrchInv
BY OrchInitial, OrchStep, PTL DEF OrchSpec

\* Type correctness of the orchestration for any projects, graphs and number of retries.
THEOREM OrchTypeCorrect == OrchSpec => []OrchTypeOK
BY OrchInductive, OrchTyped, PTL

\* deploy_multiple with rollback_on_failure for any projects, graph and strategy: once a run
\* with errors has ended, every deployment of it that succeeded has been marked rolled back,
\* or its rollback did not succeed (orchestration_service.py, deployment_service.py).
THEOREM FailedRunsAreRolledBack == OrchSpec => []FailedRunRollsBackAll
<1>1. OrchInv => FailedRunRollsBackAll
  <2> SUFFICES ASSUME OrchInv, phase = "ended", errors, rollbackOn,
                      NEW p \in Projects, thread[p].step = "done",
                      rows[Row(p)].status = "SUCCESS"
               PROVE  \E r \in DOMAIN rows : rows[r].of = Row(p) /\ rows[r].status # "SUCCESS"
    BY DEF FailedRunRollsBackAll
  <2>1. deployments = <<>>
    BY DEF OrchInv, NoneForgotten
  <2>2. PICK r \in DOMAIN rows : rows[r].of = Row(p)
    BY <2>1 DEF OrchInv, NoneForgotten
  <2>3. Row(p) # 0
    <3>1. rows \in Seq(Rows) /\ Row(p) \in DOMAIN rows
      BY DEF OrchInv, RowsTyped, NoneForgotten
    <3> QED
      BY <3>1
  <2> QED
    BY <2>2, <2>3 DEF OrchInv, RollbackMarks
<1> QED
  BY <1>1, OrchInductive, PTL

-----------------------------------------------------------------------------
(***************************************************************************)
(* MCSharedRecords: in each behaviour one component moves and the others   *)
(* rest, each in a state that satisfies its own invariant.                 *)
(***************************************************************************)

\* The invariants of the components, moving or at rest.
AllInv == EphTypeOK /\ OrchInv /\ Typed /\ CommandInv

\* The state a component rests in satisfies its invariant.
LEMMA EphRestTyped == EphRests => EphTypeOK
<1> SUFFICES ASSUME EphRests PROVE ProcsTyped /\ StacksTyped
  BY TypedParts
<1>1. ProcsTyped
  BY NoRecordsTyped DEF EphRests, ProcsTyped, Steps, Jobs
<1>2. StacksTyped
  BY NoRecordsTyped, NumbersTyped DEF EphRests, StacksTyped
<1> QED
  BY <1>1, <1>2

\* The state a component rests in satisfies its invariant.
LEMMA OrchRestSound == OrchRests => OrchInv
<1> SUFFICES ASSUME OrchRests PROVE OrchInv
  OBVIOUS
<1>1. rows = <<>> /\ deployments = <<>> /\ phase = "refused" /\ errors = FALSE /\ orphans = {}
      /\ cancelling = 0 /\ retries = 0
  BY DEF OrchRests
<1>2. thread = [t \in Threads |-> [step |-> "idle", row |-> 0]]
  BY DEF OrchRests, NoJob
<1>3. RowsTyped
  BY <1>1 DEF RowsTyped
<1>4. ThreadsTyped
  <2>1. thread \in [Threads -> Slot]
    BY <1>2 DEF Slot
  <2> QED
    BY <1>1, <1>2, <2>1 DEF ThreadsTyped
<1>5. OrchestrationTyped
  <2>1. MaxRetries \in Nat
    BY OrchAssumption
  <2>2. cancelling \in 0..Len(rows) /\ retries \in 0..MaxRetries
    BY <1>1, <2>1
  <2> QED
    BY <1>1, <2>2 DEF OrchestrationTyped
<1>6. RowsOwned
  BY <1>2 DEF RowsOwned, Active
<1>7. RollbackMarks
  BY <1>1 DEF RollbackMarks
<1>8. OnlyTheBatchRuns
  BY <1>2 DEF OnlyTheBatchRuns, Working, Active, Threads
<1>9. NoneForgotten
  BY <1>1, <1>2 DEF NoneForgotten, Threads
<1> QED
  BY <1>3, <1>4, <1>5, <1>6, <1>7, <1>8, <1>9 DEF OrchInv

\* The state a component rests in satisfies its invariant.
LEMMA RemoteRestSound == RemoteRests => CommandInv
<1> SUFFICES ASSUME RemoteRests PROVE CommandInv
  OBVIOUS
<1>1. CallTyped
  BY RemoteAssumption DEF RemoteRests, CallTyped, Commands, Parts
<1>2. ProcessTyped
  BY DEF RemoteRests, ProcessTyped, Processes, NoProcess
<1>3. PlaceTyped
  <2>1. taskIs \in [ServiceTasks -> DOMAIN NextLife \cup {"ready", "gone"}]
    BY DEF RemoteRests
  <2>2. hook \in [mode : {"exec", "task"}, once : BOOLEAN] /\ withStateful \in BOOLEAN
    BY DEF RemoteRests
  <2>3. unheard \subseteq Parts /\ commandFaults \in 0..MaxCommandFaults
    BY RemoteAssumption DEF RemoteRests
  <2>4. effect \in BOOLEAN
    BY DEF RemoteRests
  <2> QED
    BY <2>1, <2>2, <2>3, <2>4 DEF PlaceTyped
<1>4. CommandSound
  BY DEF RemoteRests, CommandSound, Told, Failing, NoProcess, Parts, Unstarted
<1> QED
  BY <1>1, <1>2, <1>3, <1>4 DEF CommandInv

\* Every start is a start of one component and a rest of the others.
LEMMA AllStart == Init => AllInv
<1> SUFFICES ASSUME Init PROVE AllInv
  OBVIOUS
<1>1. /\ EphInit => EphTypeOK
      /\ OrchInit => OrchInv
      /\ LimitInit => Typed
      /\ RemoteStarts => CommandInv
  BY EphInitTyped, OrchInitial, TypedInit, CommandInit DEF RemoteStarts
<1> QED
  BY <1>1, EphRestTyped, OrchRestSound, RemoteRestSound DEF Init, AllInv

\* A component that is left alone keeps its invariant.
LEMMA AllStay ==
  ASSUME AllInv
  PROVE  /\ UNCHANGED ephVars => EphTypeOK'
         /\ UNCHANGED orchVars => OrchInv'
         /\ UNCHANGED limitVars => Typed'
         /\ UNCHANGED remoteVars => CommandInv'
BY EphStepTyped, OrchStep, TypedStep, CommandStep DEF AllInv

\* Every step is a step of one component.
LEMMA AllStep == AllInv /\ [Next]_allVars => AllInv'
<1> SUFFICES ASSUME AllInv, [Next]_allVars PROVE AllInv'
  OBVIOUS
<1>1. /\ EphNext => EphTypeOK'
      /\ OrchNext => OrchInv'
      /\ LimitNext => Typed'
      /\ RemoteNext => CommandInv'
  BY EphStepTyped, OrchStep, TypedStep, CommandStep DEF AllInv
<1>2. CASE UNCHANGED allVars
  <2>1. UNCHANGED <<ephVars, orchVars, limitVars, remoteVars>>
    BY <1>2 DEF allVars
  <2> QED
    BY <2>1, AllStay DEF AllInv
<1>3. CASE Next
  <2>1. \/ EphNext /\ UNCHANGED <<orchVars, limitVars, remoteVars>>
        \/ OrchNext /\ UNCHANGED <<ephVars, limitVars, remoteVars>>
        \/ LimitNext /\ UNCHANGED <<ephVars, orchVars, remoteVars>>
        \/ RemoteNext /\ UNCHANGED <<ephVars, orchVars, limitVars>>
    BY <1>3 DEF Next
  <2> QED
    BY <1>1, <2>1, AllStay DEF AllInv
<1> QED
  BY <1>2, <1>3

\* Each component keeps its types while the others move, for every value of the constants.
THEOREM SharedTypeCorrect == Spec => []TypeOK
<1>1. AllInv => TypeOK
  BY LimitTyped, OrchTyped, CommandTyped DEF AllInv, TypeOK
<1> QED
  BY <1>1, AllStart, AllStep, PTL DEF Spec

=============================================================================
