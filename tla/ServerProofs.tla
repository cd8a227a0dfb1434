---------------------------- MODULE ServerProofs ----------------------------
(* Theorems of the server's smaller components, each by itself and for every *)
(* value of its constants: quota readings, the egress gate, the edits of the *)
(* configuration, the client kits, logins and the listeners.                 *)
EXTENDS Server, Naturals, FiniteSetTheorems, TLAPS

---------------------------------------------------------------------------
(* Quota: how long an account is held. *)

Util == {"none", "low", "full"}
Status == {"none", "allowed", "rejected"}
BucketType == [util : Util, status : Status, reset : Nat, hold : Nat]
FactsType == [util : Util, status : Status, reset : Nat]
RequestType ==
  [pc : {"sent", "answered"}, account : Metered, challenge : BOOLEAN,
   answer : {"none", "ok", "out", "burst", "cap"}, facts : FactsType, past : BOOLEAN]

QuotaTypes ==
  /\ clock \in Nat /\ window \in [Metered -> Nat] /\ spent \in [Metered -> BOOLEAN]
  /\ bucket \in [Metered -> BucketType]
  /\ asking \in [Asker -> {Quotas!NoAsking} \cup RequestType]
  /\ reading \in {Quotas!NoReading} \cup
       [pc : {"read"}, at : Metered, facts : FactsType, older : BOOLEAN]

\* No reset that was read, or is on its way, is later than that of the window
\* the account has by now; windows only move on.
ResetsWereWindows ==
  /\ \A a \in Metered : bucket[a].reset <= window[a]
  /\ \A r \in Asker : asking[r] # Quotas!NoAsking =>
       asking[r].facts.reset <= window[asking[r].account]
  /\ reading # Quotas!NoReading => reading.facts.reset <= window[reading.at]

QuotaInv == QuotaTypes /\ ResetsWereWindows /\ Quotas!HeldNoLongerThanItsWindow

\* The later of two times.
LEMMA LaterIs ==
  \A s, t \in Nat : Quotas!Later(s, t) \in Nat /\ Quotas!Later(s, t) >= s /\ Quotas!Later(s, t) >= t
    /\ (Quotas!Later(s, t) = s \/ Quotas!Later(s, t) = t)
BY DEF Quotas!Later

\* A window that ends is followed by a later one.
LEMMA WindowsMoveOn ==
  ASSUME Quotas!QuotaAssumption, QuotaTypes, NEW a \in Metered, Quotas!WindowEnds(a)
  PROVE  /\ window' \in [Metered -> Nat]
         /\ \A b \in Metered : window[b] <= window'[b]
BY DEF Quotas!QuotaAssumption, QuotaTypes, Quotas!WindowEnds

\* What a bucket becomes by applying facts has its type; it keeps its reset or
\* takes that of the facts, and it is held no longer.
LEMMA AppliedIs ==
  ASSUME NEW b \in BucketType,
         NEW f \in FactsType, NEW api \in BOOLEAN
  PROVE  /\ Quotas!Applied(b, f, api) \in BucketType
         /\ Quotas!Applied(b, f, api).reset \in {0, b.reset, f.reset}
         /\ Quotas!Applied(b, f, api).hold \in {0, b.hold}
BY DEF Quotas!Applied, Quotas!Or, BucketType, FactsType, Util, Status

LEMMA HeadersAre ==
  ASSUME QuotaTypes, NEW a \in Metered
  PROVE  /\ Quotas!Headers(a) \in FactsType /\ Quotas!Usage(a) \in FactsType
         /\ Quotas!Headers(a).reset = window[a] /\ Quotas!Usage(a).reset = window[a]
<1>1. window[a] \in Nat
  BY DEF QuotaTypes
<1> QED
  BY <1>1 DEF Quotas!Headers, Quotas!Usage, Quotas!Used, FactsType, Util, Status

\* The bounds on a bucket, for what the step of one request or reading leaves.
Bounded(b, a) ==
  /\ b \in BucketType
  /\ b.reset <= window[a] /\ b.hold <= Quotas!Later(window[a], clock + Fallback)

LEMMA Bounds ==
  ASSUME Quotas!QuotaAssumption, QuotaInv, NEW a \in Metered
  PROVE  /\ Bounded(bucket[a], a) /\ Bounded(Quotas!Unknown, a)
         /\ Bounded(Quotas!Expired(bucket[a]), a)
         /\ \A f \in FactsType, api \in BOOLEAN : f.reset <= window[a] =>
              /\ Bounded(Quotas!Applied(bucket[a], f, api), a)
              /\ Bounded(Quotas!HeldExhausted(Quotas!Applied(bucket[a], f, api)), a)
<1>1. /\ clock \in Nat /\ window[a] \in Nat /\ Fallback \in Nat /\ clock + Fallback \in Nat
      /\ bucket[a] \in BucketType
  BY DEF Quotas!QuotaAssumption, QuotaInv, QuotaTypes
<1> DEFINE end == Quotas!Later(window[a], clock + Fallback)
<1>e. end \in Nat /\ clock + Fallback <= end /\ window[a] <= end
  BY <1>1, LaterIs
<1> HIDE DEF end
<1>2. Bounded(bucket[a], a)
  BY <1>1 DEF QuotaInv, ResetsWereWindows, Quotas!HeldNoLongerThanItsWindow, Bounded
<1>3. Bounded(Quotas!Unknown, a)
  <2>1. Quotas!Unknown \in BucketType
    BY DEF Quotas!Unknown, BucketType, Util, Status
  <2> QED
    BY <1>1, <1>e, <2>1 DEF Bounded, end, Quotas!Unknown
<1>4. Bounded(Quotas!Expired(bucket[a]), a)
  BY <1>2, <1>3 DEF Quotas!Expired
<1>5. ASSUME NEW f \in FactsType, NEW api \in BOOLEAN, f.reset <= window[a]
      PROVE  /\ Bounded(Quotas!Applied(bucket[a], f, api), a)
             /\ Bounded(Quotas!HeldExhausted(Quotas!Applied(bucket[a], f, api)), a)
  <2> DEFINE b == Quotas!Applied(bucket[a], f, api)
  <2>1. /\ b \in BucketType
        /\ b.reset \in {0, bucket[a].reset, f.reset} /\ b.hold \in {0, bucket[a].hold}
    BY <1>1, <1>5, AppliedIs
  <2> HIDE DEF b
  <2>2. Bounded(b, a)
    BY <1>1, <1>e, <1>2, <1>5, <2>1 DEF Bounded, end, BucketType, FactsType
  <2>3. Bounded(Quotas!HeldExhausted(b), a)
    <3>1. CASE b.reset > clock
      BY <1>1, <2>2, <3>1, LaterIs DEF Bounded, BucketType, Quotas!HeldExhausted
    <3>2. CASE ~(b.reset > clock)
      <4>1. b.hold \in Nat /\ Quotas!Fallen(b.hold) \in {b.hold, clock + Fallback}
        BY <1>1, <2>1, LaterIs DEF Quotas!Fallen, BucketType
      <4>2. Quotas!Fallen(b.hold) \in Nat /\ Quotas!Fallen(b.hold) <= Quotas!Later(window[a], clock + Fallback)
        BY <1>1, <2>2, <4>1, LaterIs DEF Bounded, BucketType
      <4> QED
        BY <1>1, <2>2, <3>2, <4>2 DEF Bounded, BucketType, Quotas!HeldExhausted
    <3> QED
      BY <3>1, <3>2
  <2> QED
    BY <2>2, <2>3 DEF b
<1> QED
  BY <1>2, <1>3, <1>4, <1>5

\* Where the clock and the windows stand still, buckets within their bounds are
\* all there is to show.
LEMMA HeldWithinBounds ==
  ASSUME QuotaInv, UNCHANGED <<clock, window>>, bucket' \in [Metered -> BucketType],
         \A a \in Metered : Bounded(bucket'[a], a)
  PROVE  /\ \A a \in Metered : bucket'[a].reset <= window'[a]
         /\ Quotas!HeldNoLongerThanItsWindow'
BY DEF Bounded, Quotas!HeldNoLongerThanItsWindow, Quotas!Later

LEMMA QuotaInit ==
  ASSUME Quotas!QuotaAssumption, Quotas!Init
  PROVE  QuotaInv
<1>1. QuotaTypes
  BY DEF Quotas!QuotaAssumption, Quotas!Init, QuotaTypes, Quotas!Unknown, BucketType, Util, Status
<1>2. ResetsWereWindows
  BY DEF Quotas!QuotaAssumption, Quotas!Init, ResetsWereWindows, Quotas!Unknown
<1>3. Quotas!HeldNoLongerThanItsWindow
  <2>1. ASSUME NEW a \in Metered PROVE bucket[a].hold <= Quotas!Later(window[a], clock + Fallback)
    <3>1. bucket[a].hold = 0 /\ window[a] = Window /\ clock = 0
      BY DEF Quotas!Init, Quotas!Unknown
    <3> QED
      BY <3>1 DEF Quotas!QuotaAssumption, Quotas!Later
  <2> QED
    BY <2>1 DEF Quotas!HeldNoLongerThanItsWindow
<1> QED
  BY <1>1, <1>2, <1>3 DEF QuotaInv

LEMMA QuotaSteps ==
  ASSUME Quotas!QuotaAssumption, QuotaInv, [Quotas!Next]_Quotas!vars
  PROVE  QuotaInv'
<1> USE DEF QuotaInv
<1>t. /\ clock \in Nat /\ window \in [Metered -> Nat] /\ spent \in [Metered -> BOOLEAN]
      /\ bucket \in [Metered -> BucketType] /\ Fallback \in Nat
  BY DEF QuotaTypes, Quotas!QuotaAssumption
<1>1. CASE Quotas!Tick
  <2>1. QuotaTypes' /\ ResetsWereWindows'
    BY <1>1 DEF Quotas!Tick, Quotas!truth, QuotaTypes, ResetsWereWindows
  <2>2. ASSUME NEW a \in Metered
        PROVE  (bucket[a].hold <= Quotas!Later(window[a], clock + Fallback))'
    <3>1. bucket[a].hold \in Nat /\ bucket[a].hold <= Quotas!Later(window[a], clock + Fallback)
      BY <1>t DEF BucketType, Quotas!HeldNoLongerThanItsWindow
    <3>2. clock' = clock + 1 /\ window' = window /\ bucket' = bucket
      BY <1>1 DEF Quotas!Tick, Quotas!truth
    <3> QED
      BY <1>t, <3>1, <3>2 DEF Quotas!Later
  <2> QED
    BY <2>1, <2>2 DEF Quotas!HeldNoLongerThanItsWindow
<1>2. ASSUME NEW a \in Metered, Quotas!Spend(a)
      PROVE  QuotaInv'
  BY <1>2 DEF Quotas!Spend, QuotaTypes, ResetsWereWindows, Quotas!HeldNoLongerThanItsWindow, Quotas!Later
<1>3. ASSUME NEW a \in Metered, Quotas!WindowEnds(a)
      PROVE  QuotaInv'
  <2>1. /\ window' \in [Metered -> Nat] /\ \A b \in Metered : window[b] <= window'[b]
        /\ UNCHANGED <<clock, bucket, asking, reading>> /\ spent' \in [Metered -> BOOLEAN]
    BY <1>3, WindowsMoveOn DEF Quotas!WindowEnds, QuotaTypes
  <2>2. QuotaTypes'
    BY <2>1 DEF QuotaTypes
  <2>3. ASSUME NEW b \in Metered, NEW t \in Nat, t <= window[b]
        PROVE  t <= window'[b]
    BY <1>t, <2>1, <2>3
  <2>4. ResetsWereWindows'
    <3>1. ASSUME NEW b \in Metered
          PROVE  bucket'[b].reset <= window'[b]
      BY <1>t, <2>1, <2>3 DEF ResetsWereWindows, BucketType
    <3>2. ASSUME NEW r \in Asker, asking'[r] # Quotas!NoAsking
          PROVE  asking'[r].facts.reset <= window'[asking'[r].account]
      <4>1. asking[r].account \in Metered /\ asking[r].facts.reset \in Nat
        BY <2>1, <3>2 DEF QuotaTypes, FactsType, RequestType
      <4> QED
        BY <2>1, <2>3, <3>2, <4>1 DEF ResetsWereWindows
    <3>3. ASSUME reading' # Quotas!NoReading
          PROVE  reading'.facts.reset <= window'[reading'.at]
      <4>1. reading.at \in Metered /\ reading.facts.reset \in Nat
        BY <2>1, <3>3 DEF QuotaTypes, FactsType
      <4> QED
        BY <2>1, <2>3, <3>3, <4>1 DEF ResetsWereWindows
    <3> QED
      BY <3>1, <3>2, <3>3 DEF ResetsWereWindows
  <2>5. ASSUME NEW b \in Metered
        PROVE  (bucket[b].hold <= Quotas!Later(window[b], clock + Fallback))'
    <3>1. bucket[b].hold \in Nat /\ bucket[b].hold <= Quotas!Later(window[b], clock + Fallback)
          /\ window[b] \in Nat /\ window'[b] \in Nat /\ window[b] <= window'[b]
      BY <1>t, <2>1 DEF BucketType, Quotas!HeldNoLongerThanItsWindow
    <3> QED
      BY <1>t, <2>1, <3>1 DEF Quotas!Later
  <2> QED
    BY <2>2, <2>4, <2>5 DEF Quotas!HeldNoLongerThanItsWindow
<1>4. ASSUME NEW r \in Asker, NEW a \in Metered, Quotas!Ask(r, a)
      PROVE  QuotaInv'
  <2>1. UNCHANGED <<clock, window, spent, reading>>
    BY <1>4 DEF Quotas!Ask, Quotas!truth
  <2>2. bucket' \in [Metered -> BucketType] /\ \A b \in Metered : Bounded(bucket'[b], b)
    <3>1. \A b \in Metered : bucket'[b] = Quotas!Expired(bucket[b])
      BY <1>4 DEF Quotas!Ask
    <3>2. \A b \in Metered : Bounded(bucket'[b], b)
      BY <3>1, Bounds
    <3> QED
      BY <1>4, <3>1, <3>2 DEF Bounded, Quotas!Ask
  <2>3. /\ asking' = [asking EXCEPT ![r] =
             [pc |-> "sent", account |-> a, challenge |-> Quotas!Barred(a), answer |-> "none",
              facts |-> Quotas!NoFacts, past |-> FALSE]]
        /\ Quotas!Barred(a) \in BOOLEAN /\ Quotas!NoFacts \in FactsType /\ Quotas!NoFacts.reset = 0
    BY <1>4 DEF Quotas!Ask, Quotas!Barred, Quotas!NoFacts, FactsType, Util, Status
  <2>4. QuotaTypes'
    BY <2>1, <2>2, <2>3 DEF QuotaTypes, RequestType
  <2>5. /\ \A b \in Metered : bucket'[b].reset <= window'[b]
        /\ Quotas!HeldNoLongerThanItsWindow'
    BY <2>1, <2>2, HeldWithinBounds
  <2>6. \A q \in Asker : asking'[q] # Quotas!NoAsking =>
          asking'[q].facts.reset <= window'[asking'[q].account]
    BY <1>t, <2>1, <2>3 DEF ResetsWereWindows, QuotaTypes
  <2> QED
    BY <2>1, <2>4, <2>5, <2>6 DEF ResetsWereWindows
<1>5. ASSUME NEW r \in Asker, NEW answer \in {"ok", "out", "burst", "cap"},
             Quotas!AnswerIs(r, answer)
      PROVE  QuotaInv'
  <2>1. /\ UNCHANGED <<clock, window, spent, bucket, reading>>
        /\ asking[r] # Quotas!NoAsking /\ asking[r].account \in Metered
    BY <1>5 DEF Quotas!AnswerIs, Quotas!truth, Quotas!NoAsking, QuotaTypes, RequestType
  <2> DEFINE a == asking[r].account
             f == IF answer \in {"ok", "out"} THEN Quotas!Headers(a) ELSE Quotas!NoFacts
             past == reading # Quotas!NoReading /\ reading.at = a
  <2>2. f \in FactsType /\ f.reset <= window[a] /\ past \in BOOLEAN
    <3>1. Quotas!NoFacts \in FactsType /\ Quotas!NoFacts.reset = 0 /\ window[a] \in Nat
      BY <1>t, <2>1 DEF Quotas!NoFacts, FactsType, Util, Status
    <3> QED
      BY <2>1, <3>1, HeadersAre
  <2>3. asking' = [asking EXCEPT ![r] =
                      [@ EXCEPT !.pc = "answered", !.answer = answer, !.facts = f, !.past = past]]
    BY <1>5 DEF Quotas!AnswerIs
  <2> HIDE DEF f, past
  <2>4. asking'[r] = [asking[r] EXCEPT !.pc = "answered", !.answer = answer, !.facts = f, !.past = past]
        /\ \A q \in Asker \ {r} : asking'[q] = asking[q]
    BY <2>3 DEF QuotaTypes
  <2>5. /\ asking'[r] \in RequestType
        /\ asking'[r].facts = f /\ asking'[r].account = a
    <3>1. asking[r] \in RequestType
      BY <2>1 DEF QuotaTypes
    <3> QED
      BY <2>2, <2>4, <3>1 DEF RequestType
  <2>6. QuotaTypes'
    BY <2>1, <2>3, <2>5 DEF QuotaTypes
  <2>7. ResetsWereWindows'
    BY <2>1, <2>2, <2>4, <2>5 DEF ResetsWereWindows
  <2> QED
    BY <2>1, <2>6, <2>7 DEF Quotas!HeldNoLongerThanItsWindow, Quotas!Later
<1>6. ASSUME NEW r \in Asker, Quotas!Closed(r), UNCHANGED <<clock, reading>>,
             bucket' \in [Metered -> BucketType], \A a \in Metered : Bounded(bucket'[a], a)
      PROVE  QuotaInv'
  <2>1. /\ UNCHANGED <<clock, window, spent, reading>>
        /\ asking' = [asking EXCEPT ![r] = Quotas!NoAsking]
    BY <1>6 DEF Quotas!Closed, Quotas!truth
  <2>2. QuotaTypes'
    BY <1>6, <2>1 DEF QuotaTypes
  <2>3. /\ \A a \in Metered : bucket'[a].reset <= window'[a]
        /\ Quotas!HeldNoLongerThanItsWindow'
    BY <1>6, <2>1, HeldWithinBounds
  <2>4. \A q \in Asker : asking'[q] # Quotas!NoAsking =>
          asking'[q].facts.reset <= window'[asking'[q].account]
    BY <2>1 DEF ResetsWereWindows, QuotaTypes
  <2> QED
    BY <2>1, <2>2, <2>3, <2>4 DEF ResetsWereWindows
<1>7. ASSUME NEW r \in Asker, NEW answer, answer # "none", Quotas!Answered(r, answer)
      PROVE  /\ asking[r].account \in Metered /\ asking[r].facts \in FactsType
             /\ asking[r].facts.reset <= window[asking[r].account]
  <2>1. asking[r] # Quotas!NoAsking
    BY <1>7 DEF Quotas!Answered, Quotas!NoAsking
  <2> QED
    BY <2>1 DEF QuotaTypes, ResetsWereWindows, RequestType
<1>8. ASSUME NEW r \in Asker, Quotas!Served(r)
      PROVE  QuotaInv'
  <2> DEFINE a == asking[r].account
             api == a \in apiKeys
             b == Quotas!Applied(bucket[a], asking[r].facts, api)
  <2>1. a \in Metered /\ Bounded(b, a)
    <3>1. /\ asking[r].account \in Metered /\ asking[r].facts \in FactsType
          /\ asking[r].facts.reset <= window[asking[r].account]
      BY <1>7, <1>8 DEF Quotas!Served
    <3>2. api \in BOOLEAN
      OBVIOUS
    <3> HIDE DEF api
    <3> QED
      BY <3>1, <3>2, Bounds
  <2>2. /\ Quotas!Closed(r) /\ UNCHANGED <<clock, reading>>
        /\ bucket' = [bucket EXCEPT ![a] = IF asking[r].challenge /\ b.hold > clock
                                           THEN Quotas!Unknown ELSE b]
    BY <1>8 DEF Quotas!Served, Quotas!Closed
  <2> HIDE DEF a, b
  <2>3. \A c \in Metered : bucket'[c] \in {bucket[c], b, Quotas!Unknown} /\ (c # a => bucket'[c] = bucket[c])
    BY <1>t, <2>1, <2>2
  <2>4. \A c \in Metered : Bounded(bucket'[c], c)
    BY <2>1, <2>3, Bounds
  <2>5. bucket' \in [Metered -> BucketType]
    BY <1>t, <2>2, <2>4 DEF Bounded
  <2> QED
    BY <1>6, <2>2, <2>4, <2>5
<1>9. ASSUME NEW r \in Asker, Quotas!Rejected(r)
      PROVE  QuotaInv'
  <2> DEFINE a == asking[r].account
             f == asking[r].facts
             api == a \in apiKeys
             b == Quotas!HeldExhausted(Quotas!Applied(bucket[a], f, api))
             exhausts == Quotas!Exhausts(bucket[a], f, api)
  <2>1. a \in Metered /\ Bounded(b, a)
    <3>1. /\ asking[r].account \in Metered /\ asking[r].facts \in FactsType
          /\ asking[r].facts.reset <= window[asking[r].account]
      BY <1>7, <1>9 DEF Quotas!Rejected
    <3>2. api \in BOOLEAN
      OBVIOUS
    <3> HIDE DEF api
    <3> QED
      BY <3>1, <3>2, Bounds
  <2>2. /\ Quotas!Closed(r) /\ UNCHANGED clock
        /\ bucket' = IF exhausts THEN [bucket EXCEPT ![a] = b] ELSE bucket
        /\ \/ reading' = reading
           \/ reading # Quotas!NoReading /\ reading' = [reading EXCEPT !.older = TRUE]
    BY <1>9 DEF Quotas!Rejected, Quotas!Closed
  <2> HIDE DEF a, b, f, exhausts
  <2>3. \A c \in Metered : Bounded(bucket'[c], c)
    BY <1>t, <2>1, <2>2, Bounds
  <2>4. bucket' \in [Metered -> BucketType]
    BY <1>t, <2>2, <2>3 DEF Bounded
  <2>5. CASE reading' = reading
    BY <1>6, <2>2, <2>3, <2>4, <2>5
  <2>6. CASE reading # Quotas!NoReading /\ reading' = [reading EXCEPT !.older = TRUE]
    <3>1. /\ UNCHANGED <<clock, window, spent>>
          /\ asking' = [asking EXCEPT ![r] = Quotas!NoAsking]
      BY <2>2 DEF Quotas!Closed, Quotas!truth
    <3>2. /\ reading' \in [pc : {"read"}, at : Metered, facts : FactsType, older : BOOLEAN]
          /\ reading'.facts.reset <= window'[reading'.at]
      BY <2>6, <3>1 DEF QuotaTypes, ResetsWereWindows
    <3>3. QuotaTypes'
      BY <2>4, <3>1, <3>2 DEF QuotaTypes
    <3>4. /\ \A c \in Metered : bucket'[c].reset <= window'[c]
          /\ Quotas!HeldNoLongerThanItsWindow'
      BY <2>3, <2>4, <3>1, HeldWithinBounds
    <3>5. \A q \in Asker : asking'[q] # Quotas!NoAsking =>
            asking'[q].facts.reset <= window'[asking'[q].account]
      BY <3>1 DEF ResetsWereWindows, QuotaTypes
    <3> QED
      BY <3>2, <3>3, <3>4, <3>5 DEF ResetsWereWindows
  <2> QED
    BY <2>2, <2>5, <2>6
<1>10. ASSUME NEW r \in Asker, Quotas!Capped(r) \/ Quotas!Dropped(r)
       PROVE  QuotaInv'
  <2>1. Quotas!Closed(r) /\ UNCHANGED <<clock, reading, bucket>>
    BY <1>10 DEF Quotas!Capped, Quotas!Dropped, Quotas!Closed
  <2> QED
    BY <1>t, <1>6, <2>1, Bounds
<1>11. ASSUME NEW a \in Metered, Quotas!Read(a)
       PROVE  QuotaInv'
  <2>1. /\ UNCHANGED <<clock, window, spent, bucket>>
        /\ reading' = [pc |-> "read", at |-> a, facts |-> Quotas!Usage(a), older |-> FALSE]
        /\ asking' = [r \in Asker |-> IF asking[r] = Quotas!NoAsking THEN Quotas!NoAsking
                                         ELSE [asking[r] EXCEPT !.past = FALSE]]
    BY <1>11 DEF Quotas!Read, Quotas!truth
  <2>2. Quotas!Usage(a) \in FactsType /\ Quotas!Usage(a).reset = window[a]
    BY HeadersAre
  <2>3. ASSUME NEW r \in Asker
        PROVE  /\ asking'[r] \in {Quotas!NoAsking} \cup RequestType
               /\ asking'[r] # Quotas!NoAsking =>
                    asking'[r].facts.reset <= window'[asking'[r].account]
    <3>1. CASE asking[r] = Quotas!NoAsking
      BY <2>1, <3>1
    <3>2. CASE asking[r] # Quotas!NoAsking
      <4>1. /\ asking[r] \in RequestType /\ asking[r].facts.reset <= window[asking[r].account]
            /\ asking'[r] = [asking[r] EXCEPT !.past = FALSE]
        BY <2>1, <3>2 DEF QuotaTypes, ResetsWereWindows
      <4> QED
        BY <2>1, <4>1 DEF RequestType
    <3> QED
      BY <3>1, <3>2
  <2>4. QuotaTypes'
    BY <2>1, <2>2, <2>3 DEF QuotaTypes
  <2>5. ResetsWereWindows'
    BY <1>t, <2>1, <2>2, <2>3 DEF ResetsWereWindows
  <2> QED
    BY <2>1, <2>4, <2>5 DEF Quotas!HeldNoLongerThanItsWindow, Quotas!Later
<1>12. CASE Quotas!Learn
  <2>1. /\ UNCHANGED <<clock, window, spent, asking>> /\ reading' = Quotas!NoReading
        /\ reading.at \in Metered /\ reading.facts \in FactsType /\ reading.facts.reset <= window[reading.at]
    BY <1>12 DEF Quotas!Learn, Quotas!truth, QuotaTypes, ResetsWereWindows
  <2> DEFINE b == Quotas!Applied(bucket[reading.at], reading.facts, FALSE)
  <2>2. bucket' = bucket \/ bucket' = [bucket EXCEPT ![reading.at] = b]
    BY <1>12 DEF Quotas!Learn
  <2>3. Bounded(b, reading.at)
    BY <2>1, Bounds
  <2> HIDE DEF b
  <2>4. \A c \in Metered : Bounded(bucket'[c], c)
    BY <1>t, <2>1, <2>2, <2>3, Bounds
  <2>5. bucket' \in [Metered -> BucketType]
    BY <1>t, <2>2, <2>4 DEF Bounded
  <2>6. QuotaTypes'
    BY <2>1, <2>5 DEF QuotaTypes
  <2>7. /\ \A c \in Metered : bucket'[c].reset <= window'[c]
        /\ Quotas!HeldNoLongerThanItsWindow'
    BY <2>1, <2>4, <2>5, HeldWithinBounds
  <2> QED
    BY <2>1, <2>6, <2>7 DEF ResetsWereWindows
<1>13. CASE UNCHANGED Quotas!vars
  BY <1>13 DEF Quotas!vars, Quotas!truth, QuotaTypes, ResetsWereWindows,
     Quotas!HeldNoLongerThanItsWindow, Quotas!Later
<1> QED
  BY <1>1, <1>2, <1>3, <1>4, <1>5, <1>8, <1>9, <1>10, <1>11, <1>12, <1>13 DEF Quotas!Next

\* The inductive invariant of the quota readings: what the pool believes is
\* typed, a reset it learnt is no later than the provider's window, however late
\* the answer came, and no hold outlasts that window and the fallback.
THEOREM QuotaCoherent ==
  ASSUME Quotas!QuotaAssumption
  PROVE  Quotas!Spec => []QuotaInv
BY QuotaInit, QuotaSteps, PTL DEF Quotas!Spec

\* A behaviour of the quota is one of Quota.
LEMMA QuotaPart ==
  /\ ServerSpec /\ part = "quota" => Quotas!Spec
  /\ ServerSpec /\ ~(part = "quota") => []~(part = "quota")
<1>1. ServerInit /\ part = "quota" => Quotas!Init
  BY DEF ServerInit
<1>2. part = "quota" /\ [ServerNext]_serverVars => (part = "quota")' /\ [Quotas!Next]_(Quotas!vars)
  BY DEF ServerNext, serverVars, quotaVars, Quotas!vars, Quotas!truth
<1>3. ~(part = "quota") /\ [ServerNext]_serverVars => ~(part = "quota")'
  BY DEF ServerNext, serverVars
<1> QED
  BY <1>1, <1>2, <1>3, PTL DEF ServerSpec, Quotas!Spec

\* HeldNoLongerThanItsWindow, for any accounts, requests, windows and fallback:
\* an account is not kept out when the provider would serve it.
THEOREM HoldsEndWithTheWindow == ASSUME Quotas!QuotaAssumption PROVE ServerSpec => []HeldNoLongerThanItsWindow
<1>1. QuotaInv => HeldNoLongerThanItsWindow
  BY DEF QuotaInv, HeldNoLongerThanItsWindow
<1>2. ~(part = "quota") => HeldNoLongerThanItsWindow
  BY DEF HeldNoLongerThanItsWindow
<1> QED
  BY QuotaPart, QuotaCoherent, <1>1, <1>2, PTL

---------------------------------------------------------------------------
(* Egress: whose observation an exchange goes by. *)

Answers == Address \cup {Gate!Unknown, Gate!None}
ObservationType == [address : Answers, fresh : BOOLEAN, under : Gate!Generation]
PolicyType == [observed : ObservationType, auto : Answers, lock : Exchange \cup {Gate!None}]
ExchangeType ==
  [pc : {"idle", "body", "passed", "loop", "read", "lock", "fetch", "decide", "sleep", "refused", "left"},
   mode : Gate!Mode, policy : Gate!Generation, pin : BOOLEAN, fresh : BOOLEAN,
   newer : BOOLEAN, holding : BOOLEAN, spent : BOOLEAN, answer : Answers]

GateTypes ==
  /\ mode \in Gate!Mode /\ replaced \in BOOLEAN /\ current \in Gate!Generation
  /\ replaced => current < MaxReload
  /\ state \in [Gate!Generation -> PolicyType]
  /\ ex \in [Exchange -> ExchangeType]

\* An exchange is at a policy that was in force by now.
PoliciesWereCurrent == \A e \in Exchange : ex[e].policy <= current

\* One check of a policy is in flight at a time: its lock is held by the
\* exchange that is fetching under it, and by nobody else.
LockedByFetcher ==
  \A g \in Gate!Generation, e \in Exchange :
    state[g].lock = e <=> ex[e].pc = "fetch" /\ ex[e].policy = g

\* Guard.held counts the exchanges being held.
Holders == {e \in Exchange : ex[e].holding}
HeldExact == IsFiniteSet(Holders) /\ held = Cardinality(Holders)
HeldAtTheGate == \A e \in Exchange : ex[e].holding => Gate!AtTheGate(e)

GateInv ==
  /\ GateTypes /\ PoliciesWereCurrent /\ Gate!PolicyIsItsOwn /\ LockedByFetcher
  /\ HeldExact /\ HeldAtTheGate

LEMMA GateInit ==
  ASSUME Gate!EgressAssumption, Gate!Init
  PROVE  GateInv
<1>1. 0 \in Gate!Generation /\ \A g \in Gate!Generation : g \in Nat
  BY DEF Gate!EgressAssumption, Gate!Generation
<1>2. Gate!NewPolicy \in PolicyType /\ Gate!Idle \in ExchangeType
  BY <1>1 DEF Gate!NewPolicy, Gate!NoObservation, Gate!Idle, Gate!None, Gate!Mode, PolicyType,
     ObservationType, ExchangeType, Answers
<1>3. GateTypes
  BY <1>1, <1>2 DEF Gate!Init, GateTypes
<1>4. PoliciesWereCurrent /\ Gate!PolicyIsItsOwn /\ LockedByFetcher
  BY <1>1 DEF Gate!Init, Gate!Idle, Gate!NewPolicy, Gate!NoObservation, Gate!EgressAssumption,
     PoliciesWereCurrent, Gate!PolicyIsItsOwn, LockedByFetcher
<1>5. Holders = {}
  BY DEF Holders, Gate!Init, Gate!Idle
<1>6. HeldExact
  BY <1>5, FS_EmptySet DEF HeldExact, Gate!Init
<1>7. HeldAtTheGate
  BY <1>5 DEF HeldAtTheGate, Holders
<1> QED
  BY <1>3, <1>4, <1>6, <1>7 DEF GateInv

\* An exchange that begins to be held, or no longer is, changes the count by one.
LEMMA HeldMoves ==
  ASSUME HeldExact, NEW e \in Exchange
  PROVE  /\ ~ex[e].holding => /\ IsFiniteSet(Holders \cup {e})
                              /\ Cardinality(Holders \cup {e}) = held + 1
         /\ ex[e].holding => /\ IsFiniteSet(Holders \ {e})
                             /\ Cardinality(Holders \ {e}) = held - 1
BY FS_AddElement, FS_RemoveElement DEF HeldExact, Holders

Counts(e) ==
  held' = IF ex'[e].holding
          THEN IF ex[e].holding THEN held ELSE held + 1
          ELSE IF ex[e].holding THEN held - 1 ELSE held

LEMMA Counting ==
  ASSUME GateTypes, HeldExact, NEW e \in Exchange, ex' \in [Exchange -> ExchangeType],
         \A f \in Exchange \ {e} : ex'[f].holding = ex[f].holding, Counts(e)
  PROVE  HeldExact'
<1>1. CASE ex'[e].holding /\ ~ex[e].holding
  <2>1. Holders' = Holders \cup {e}
    BY <1>1 DEF Holders
  <2> QED
    BY <1>1, <2>1, HeldMoves DEF HeldExact, Counts
<1>2. CASE ~ex'[e].holding /\ ex[e].holding
  <2>1. Holders' = Holders \ {e}
    BY <1>2 DEF Holders
  <2> QED
    BY <1>2, <2>1, HeldMoves DEF HeldExact, Counts
<1>3. CASE ex'[e].holding <=> ex[e].holding
  <2>1. Holders' = Holders
    BY <1>3 DEF Holders
  <2> QED
    BY <1>3, <2>1 DEF HeldExact, Counts
<1> QED
  BY <1>1, <1>2, <1>3

\* A step of an exchange that leaves the policies alone.
LEMMA GateMove ==
  ASSUME GateInv, NEW e \in Exchange, NEW x \in ExchangeType, ex' = [ex EXCEPT ![e] = x],
         UNCHANGED <<mode, replaced, current, state>>, x.policy <= current,
         x.pc = "fetch" <=> ex[e].pc = "fetch", x.pc = "fetch" => x.policy = ex[e].policy,
         x.holding => x.pc \in {"loop", "read", "lock", "fetch", "decide", "sleep"}, Counts(e)
  PROVE  GateInv'
<1>1. ex' \in [Exchange -> ExchangeType] /\ ex'[e] = x /\ \A f \in Exchange \ {e} : ex'[f] = ex[f]
  BY DEF GateInv, GateTypes
<1>2. GateTypes' /\ PoliciesWereCurrent' /\ Gate!PolicyIsItsOwn'
  BY <1>1 DEF GateInv, GateTypes, PoliciesWereCurrent, Gate!PolicyIsItsOwn
<1>3. LockedByFetcher'
  BY <1>1 DEF GateInv, LockedByFetcher
<1>4. HeldExact'
  BY <1>1, Counting DEF GateInv
<1>5. HeldAtTheGate'
  BY <1>1 DEF GateInv, HeldAtTheGate, Gate!AtTheGate
<1> QED
  BY <1>2, <1>3, <1>4, <1>5 DEF GateInv

\* A step that changes the policy an exchange is at.
LEMMA PolicyMove ==
  ASSUME Gate!EgressAssumption, GateInv, NEW e \in Exchange, NEW g \in Gate!Generation, g <= current,
         NEW p \in PolicyType, state' = [state EXCEPT ![g] = p],
         p.observed.address # Gate!None => p.observed.under = g,
         UNCHANGED <<mode, replaced, current>>, ex' \in [Exchange -> ExchangeType],
         \A f \in Exchange \ {e} :
           /\ ex'[f].pc = ex[f].pc /\ ex'[f].policy = ex[f].policy /\ ex'[f].holding = ex[f].holding,
         ex'[e].policy <= current, LockedByFetcher', (ex[e].holding => Gate!AtTheGate(e))', Counts(e)
  PROVE  GateInv'
<1>1. GateTypes'
  BY DEF GateInv, GateTypes
<1>2. PoliciesWereCurrent'
  BY DEF GateInv, PoliciesWereCurrent
<1>3. Gate!PolicyIsItsOwn'
  <2>1. /\ state'[g] = p /\ \A h \in Gate!Generation \ {g} : state'[h] = state[h]
        /\ \A h \in Gate!Generation : h \in Nat
    BY DEF GateInv, GateTypes, Gate!EgressAssumption, Gate!Generation
  <2> QED
    BY <2>1 DEF GateInv, GateTypes, Gate!PolicyIsItsOwn
<1>4. HeldExact'
  BY Counting DEF GateInv
<1>5. HeldAtTheGate'
  BY DEF GateInv, HeldAtTheGate, Gate!AtTheGate
<1> QED
  BY <1>1, <1>2, <1>3, <1>4, <1>5 DEF GateInv

LEMMA GateSteps ==
  ASSUME Gate!EgressAssumption, GateInv, [Gate!Next]_Gate!vars
  PROVE  GateInv'
<1>t. /\ \A g \in Gate!Generation : g \in Nat
      /\ 0 \in Gate!Generation /\ current \in Gate!Generation
      /\ \A e \in Exchange : ex[e] \in ExchangeType /\ ex[e].policy <= current
      /\ \A g \in Gate!Generation : state[g] \in PolicyType
  BY DEF GateInv, GateTypes, PoliciesWereCurrent, Gate!EgressAssumption, Gate!Generation
<1>i. Gate!Idle \in ExchangeType /\ Gate!Idle.policy = 0 /\ Gate!Idle.pc = "idle" /\ ~Gate!Idle.holding
  BY <1>t DEF Gate!Idle, Gate!Mode, Gate!None, ExchangeType, Answers
<1>h. \A e \in Exchange : ex[e].holding =>
        ex[e].pc \in {"loop", "read", "lock", "fetch", "decide", "sleep"}
  BY DEF GateInv, HeldAtTheGate, Gate!AtTheGate
\* A step that changes how the exchange stands and nothing else of it but what
\* it looks for.
<1>m. ASSUME NEW e \in Exchange, NEW x \in ExchangeType, ex' = [ex EXCEPT ![e] = x],
             UNCHANGED <<mode, replaced, current, state, held>>, x.policy = ex[e].policy,
             ex[e].pc # "fetch", x.pc # "fetch", x.holding = ex[e].holding,
             x.holding => x.pc \in {"loop", "read", "lock", "fetch", "decide", "sleep"}
      PROVE  GateInv'
  <2>1. ex'[e] = x
    BY <1>m DEF GateInv, GateTypes
  <2> QED
    BY <1>t, <1>m, <2>1, GateMove DEF Counts
\* The exchange ends while it does not hold the lock.
<1>n. ASSUME NEW e \in Exchange, NEW how \in {"passed", "refused", "left"},
             ex' = Gate!Ended(ex, e, how), held' = Gate!Released(e),
             UNCHANGED <<mode, replaced, current, state>>, ex[e].pc # "fetch"
      PROVE  GateInv'
  <2> DEFINE x == [Gate!Idle EXCEPT !.pc = how]
  <2>1. /\ x \in ExchangeType /\ x.pc = how /\ x.policy = 0 /\ ~x.holding
        /\ ex' = [ex EXCEPT ![e] = x]
    BY <1>n, <1>i DEF ExchangeType, Gate!Ended
  <2> HIDE DEF x
  <2>2. Counts(e)
    BY <1>n, <2>1 DEF Counts, Gate!Released, GateInv, GateTypes
  <2>3. /\ x.policy <= current /\ (x.pc = "fetch" <=> ex[e].pc = "fetch")
        /\ x.pc # "fetch" /\ (x.holding => x.pc \in {"loop", "read", "lock", "fetch", "decide", "sleep"})
    BY <1>n, <1>t, <2>1
  <2> QED
    BY <1>n, <2>1, <2>2, <2>3, GateMove
<1>1. ASSUME NEW e \in Exchange, Gate!Begin(e)
      PROVE  GateInv'
  <2> DEFINE x == [Gate!Idle EXCEPT !.pc = "body", !.mode = mode]
  <2>1. x \in ExchangeType /\ x.pc = "body" /\ x.policy = 0 /\ ~x.holding
    BY <1>i DEF ExchangeType, GateInv, GateTypes
  <2>2. ~ex[e].holding /\ ex[e].pc = "idle" /\ ex' = [ex EXCEPT ![e] = x]
        /\ UNCHANGED <<mode, replaced, current, state, held>>
    BY <1>1, <1>h DEF Gate!Begin
  <2> HIDE DEF x
  <2>3. Counts(e)
    BY <2>1, <2>2 DEF Counts, GateInv, GateTypes
  <2>4. /\ x.policy <= current /\ (x.pc = "fetch" <=> ex[e].pc = "fetch")
        /\ x.pc # "fetch" /\ (x.holding => x.pc \in {"loop", "read", "lock", "fetch", "decide", "sleep"})
    BY <1>t, <2>1, <2>2
  <2> QED
    BY <2>1, <2>2, <2>3, <2>4, GateMove
<1>2. ASSUME NEW e \in Exchange, Gate!Enter(e)
      PROVE  GateInv'
  <2> DEFINE x == [ex[e] EXCEPT !.pc = IF ex[e].mode = "off" THEN "passed" ELSE "loop", !.policy = current]
  <2>1. x \in ExchangeType /\ x.pc \in {"passed", "loop"} /\ x.policy = current /\ x.holding = ex[e].holding
    BY <1>t DEF ExchangeType
  <2>2. ~ex[e].holding /\ ex[e].pc = "body" /\ ex' = [ex EXCEPT ![e] = x]
        /\ UNCHANGED <<mode, replaced, current, state, held>>
    BY <1>2, <1>h DEF Gate!Enter
  <2> HIDE DEF x
  <2>3. Counts(e)
    BY <2>1, <2>2 DEF Counts, GateInv, GateTypes
  <2>4. /\ x.policy <= current /\ (x.pc = "fetch" <=> ex[e].pc = "fetch")
        /\ x.pc # "fetch" /\ (x.holding => x.pc \in {"loop", "read", "lock", "fetch", "decide", "sleep"})
    BY <1>t, <2>1, <2>2
  <2> QED
    BY <2>1, <2>2, <2>3, <2>4, GateMove
<1>3. ASSUME NEW e \in Exchange, Gate!Look(e)
      PROVE  GateInv'
  <2> DEFINE pins == ex[e].mode = "auto" /\ Gate!PolicyOf(e).auto = Gate!None
             x == [ex[e] EXCEPT !.pc = "read", !.pin = pins, !.fresh = pins \/ ex[e].holding]
  <2>1. pins \in BOOLEAN
    OBVIOUS
  <2>2. ex[e].pc = "loop" /\ ex' = [ex EXCEPT ![e] = x]
        /\ UNCHANGED <<mode, replaced, current, state, held>>
    BY <1>3 DEF Gate!Look
  <2> HIDE DEF pins
  <2>3. x \in ExchangeType /\ x.pc = "read" /\ x.policy = ex[e].policy /\ x.holding = ex[e].holding
    BY <1>t, <2>1 DEF ExchangeType
  <2> HIDE DEF x
  <2> QED
    BY <1>m, <2>2, <2>3
\* What a check answered is what its policy observed.
<1>a. ASSUME NEW e \in Exchange, ex' = Gate!Answered(e), ex[e].pc \in {"read", "lock"},
             UNCHANGED <<mode, replaced, current, state, held>>
      PROVE  GateInv'
  <2> DEFINE x == [ex[e] EXCEPT !.pc = "decide", !.answer = Gate!PolicyOf(e).observed.address]
  <2>1. Gate!PolicyOf(e).observed.address \in Answers
    BY <1>t DEF Gate!PolicyOf, ExchangeType, PolicyType, ObservationType
  <2>2. x \in ExchangeType /\ x.pc = "decide" /\ x.policy = ex[e].policy /\ x.holding = ex[e].holding
    BY <1>t, <2>1 DEF ExchangeType
  <2>3. ex' = [ex EXCEPT ![e] = x]
    BY <1>a DEF Gate!Answered
  <2> HIDE DEF x
  <2> QED
    BY <1>a, <1>m, <2>2, <2>3
<1>4. ASSUME NEW e \in Exchange, Gate!Read(e)
      PROVE  GateInv'
  <2>1. ex[e].pc = "read" /\ UNCHANGED <<mode, replaced, current, state, held>>
    BY <1>4 DEF Gate!Read
  <2>2. CASE ex' = Gate!Answered(e)
    BY <1>a, <2>1, <2>2
  <2>3. CASE ex' = [ex EXCEPT ![e].pc = "lock", ![e].newer = FALSE]
    <3> DEFINE x == [ex[e] EXCEPT !.pc = "lock", !.newer = FALSE]
    <3>1. x \in ExchangeType /\ x.pc = "lock" /\ x.policy = ex[e].policy /\ x.holding = ex[e].holding
      BY <1>t DEF ExchangeType
    <3>2. ex' = [ex EXCEPT ![e] = x]
      BY <2>3
    <3> HIDE DEF x
    <3> QED
      BY <1>m, <2>1, <3>1, <3>2
  <2> QED
    BY <1>4, <2>2, <2>3 DEF Gate!Read
<1>5. ASSUME NEW e \in Exchange, Gate!Lock(e)
      PROVE  GateInv'
  <2>1. CASE ex' = Gate!Answered(e) /\ UNCHANGED state
    BY <1>5, <1>a, <2>1 DEF Gate!Lock
  <2>2. CASE ex' = [ex EXCEPT ![e].pc = "fetch"] /\ state' = [state EXCEPT ![ex[e].policy].lock = e]
    <3> DEFINE g == ex[e].policy
               p == [state[g] EXCEPT !.lock = e]
    <3>1. /\ g \in Gate!Generation /\ g <= current /\ state[g].lock = Gate!None /\ ex[e].pc = "lock"
          /\ UNCHANGED <<mode, replaced, current, held>>
      BY <1>5, <1>t DEF Gate!Lock, Gate!PolicyOf, ExchangeType
    <3>2. /\ ex' \in [Exchange -> ExchangeType] /\ \A f \in Exchange \ {e} : ex'[f] = ex[f]
          /\ ex'[e].pc = "fetch" /\ ex'[e].policy = g /\ ex'[e].holding = ex[e].holding
      BY <1>t, <2>2 DEF GateInv, GateTypes, ExchangeType
    <3>3. /\ p \in PolicyType /\ p.lock = e /\ p.observed = state[g].observed
          /\ state' = [state EXCEPT ![g] = p]
      BY <1>t, <2>2, <3>1 DEF PolicyType
    <3>4. p.observed.address # Gate!None => p.observed.under = g
      BY <3>1, <3>3 DEF GateInv, Gate!PolicyIsItsOwn
    <3> HIDE DEF g, p
    <3>5. LockedByFetcher'
      BY <3>1, <3>2, <3>3 DEF GateInv, GateTypes, LockedByFetcher, Gate!EgressAssumption
    <3> QED
      BY <1>t, <3>1, <3>2, <3>3, <3>4, <3>5, PolicyMove DEF Counts, Gate!AtTheGate
  <2> QED
    BY <1>5, <2>1, <2>2 DEF Gate!Lock
\* An observation is stored in the exchange's own policy.
<1>o. ASSUME NEW e \in Exchange, NEW p \in PolicyType,
             LET g == ex[e].policy IN
               /\ state' = [state EXCEPT ![g] = p] /\ p.lock # e /\ p.observed.under = g
               /\ \A f \in Exchange \ {e} : p.lock = f <=> state[g].lock = f,
             UNCHANGED <<mode, replaced, current>>,
             ex' \in [Exchange -> ExchangeType], ex'[e].pc # "fetch", ex'[e].policy <= current,
             \A f \in Exchange \ {e} :
               /\ ex'[f].pc = ex[f].pc /\ ex'[f].policy = ex[f].policy /\ ex'[f].holding = ex[f].holding,
             (ex[e].holding => Gate!AtTheGate(e))', Counts(e)
      PROVE  GateInv'
  <2> DEFINE g == ex[e].policy
  <2>1. /\ g \in Gate!Generation /\ g <= current /\ p.lock # e /\ p.observed.under = g
        /\ state' = [state EXCEPT ![g] = p] /\ \A f \in Exchange \ {e} : p.lock = f <=> state[g].lock = f
    BY <1>o, <1>t DEF ExchangeType
  <2>2. ASSUME NEW h \in Gate!Generation, NEW f \in Exchange
        PROVE  (state[h].lock = f <=> ex[f].pc = "fetch" /\ ex[f].policy = h)'
    <3>1. state[h].lock = f <=> ex[f].pc = "fetch" /\ ex[f].policy = h
      BY DEF GateInv, LockedByFetcher
    <3>2. state'[h] = IF h = g THEN p ELSE state[h]
      BY <2>1 DEF GateInv, GateTypes
    <3>3. CASE f = e
      BY <1>o, <2>1, <3>1, <3>2, <3>3
    <3>4. CASE f # e
      BY <1>o, <2>1, <3>1, <3>2, <3>4
    <3> QED
      BY <3>3, <3>4
  <2>3. LockedByFetcher'
    BY <2>2 DEF LockedByFetcher
  <2> HIDE DEF g
  <2> QED
    BY <1>o, <2>1, <2>3, PolicyMove
\* Whoever waits finds another observation than it saw.
<1>s. ASSUME NEW e \in Exchange, NEW x \in ExchangeType,
             ex' = [Gate!Seen(e, ex[e].policy) EXCEPT ![e] = x]
      PROVE  /\ ex' \in [Exchange -> ExchangeType] /\ ex'[e] = x
             /\ \A f \in Exchange \ {e} :
                  /\ ex'[f].pc = ex[f].pc /\ ex'[f].policy = ex[f].policy /\ ex'[f].holding = ex[f].holding
  <2>1. \A f \in Exchange \ {e} : ex'[f] \in {ex[f], [ex[f] EXCEPT !.newer = TRUE]}
    BY <1>s DEF Gate!Seen
  <2>2. ex'[e] = x /\ ex' = [f \in Exchange |-> ex'[f]]
    BY <1>s DEF Gate!Seen
  <2>3. ASSUME NEW f \in Exchange \ {e}
        PROVE  /\ ex'[f] \in ExchangeType
               /\ ex'[f].pc = ex[f].pc /\ ex'[f].policy = ex[f].policy /\ ex'[f].holding = ex[f].holding
    <3>1. ex[f] \in ExchangeType /\ (ex'[f] = ex[f] \/ ex'[f] = [ex[f] EXCEPT !.newer = TRUE])
      BY <1>t, <2>1, <2>3
    <3>2. CASE ex'[f] = [ex[f] EXCEPT !.newer = TRUE]
      BY <3>1, <3>2 DEF ExchangeType
    <3> QED
      BY <3>1, <3>2
  <2> QED
    BY <2>2, <2>3
<1>6. ASSUME NEW e \in Exchange, Gate!Fetched(e)
      PROVE  GateInv'
  <2> DEFINE g == ex[e].policy
  <2>1. PICK answer \in Address \cup {Gate!Unknown} :
          /\ state' = [state EXCEPT ![g].observed = Gate!Observation(e, answer), ![g].lock = Gate!None]
          /\ ex' = [Gate!Seen(e, g) EXCEPT ![e].pc = "decide", ![e].answer = answer]
    BY <1>6 DEF Gate!Fetched
  <2>2. /\ ex[e].pc = "fetch" /\ g \in Gate!Generation /\ answer \in Answers
        /\ UNCHANGED <<mode, replaced, current, held>>
    BY <1>6, <1>t DEF Gate!Fetched, ExchangeType, Answers
  <2> DEFINE p == [state[g] EXCEPT !.observed = Gate!Observation(e, answer), !.lock = Gate!None]
             x == [ex[e] EXCEPT !.pc = "decide", !.answer = answer]
  <2>3. /\ p \in PolicyType /\ p.lock = Gate!None /\ p.observed.under = g
        /\ state' = [state EXCEPT ![g] = p]
    <3>1. Gate!Observation(e, answer) \in ObservationType /\ Gate!Observation(e, answer).under = g
      BY <2>2 DEF ObservationType, Gate!Observation
    <3>2. p \in PolicyType /\ p.lock = Gate!None /\ p.observed = Gate!Observation(e, answer)
      BY <1>t, <2>2, <3>1 DEF PolicyType
    <3> QED
      BY <2>1, <3>1, <3>2
  <2>4. /\ x \in ExchangeType /\ x.pc = "decide" /\ x.policy = g /\ x.holding = ex[e].holding
        /\ ex' = [Gate!Seen(e, g) EXCEPT ![e] = x]
    BY <1>t, <2>1, <2>2 DEF ExchangeType, Gate!Seen
  <2>5. \A f \in Exchange \ {e} : p.lock = f <=> state[g].lock = f
    BY <2>2, <2>3 DEF GateInv, LockedByFetcher, Gate!EgressAssumption
  <2> HIDE DEF p, x
  <2>6. /\ ex' \in [Exchange -> ExchangeType] /\ ex'[e] = x
        /\ \A f \in Exchange \ {e} :
             /\ ex'[f].pc = ex[f].pc /\ ex'[f].policy = ex[f].policy /\ ex'[f].holding = ex[f].holding
    BY <1>s, <2>4
  <2>7. /\ Counts(e) /\ p.lock # e /\ ex'[e].policy <= current /\ (ex[e].holding => Gate!AtTheGate(e))'
    BY <1>t, <2>2, <2>3, <2>4, <2>6 DEF Counts, Gate!AtTheGate, Gate!EgressAssumption
  <2> QED
    BY <1>o, <2>2, <2>3, <2>4, <2>5, <2>6, <2>7
<1>7. ASSUME NEW e \in Exchange, Gate!PinFirst(e)
      PROVE  GateInv'
  <2> DEFINE g == ex[e].policy
  <2>1. /\ ex[e].pc = "decide" /\ g \in Gate!Generation /\ ex[e].answer \in Answers
        /\ held' = Gate!Released(e) /\ UNCHANGED <<mode, replaced, current>>
    BY <1>7, <1>t DEF Gate!PinFirst, ExchangeType
  <2>2. CASE ex[e].answer = Gate!Unknown
    BY <1>7, <1>n, <2>1, <2>2 DEF Gate!PinFirst
  <2>3. CASE ex[e].answer # Gate!Unknown
    <3> DEFINE p == [state[g] EXCEPT !.auto = IF @ = Gate!None THEN ex[e].answer ELSE @,
                                     !.observed = Gate!Observation(e, ex[e].answer)]
               x == [Gate!Idle EXCEPT !.pc = "passed"]
    <3>1. /\ state' = [state EXCEPT ![g].auto = IF @ = Gate!None THEN ex[e].answer ELSE @,
                                    ![g].observed = Gate!Observation(e, ex[e].answer)]
          /\ ex' = [Gate!Seen(e, g) EXCEPT ![e] = x]
      BY <1>7, <2>3 DEF Gate!PinFirst, Gate!Ended
    <3>2. /\ p \in PolicyType /\ p.lock = state[g].lock /\ p.observed.under = g
          /\ state' = [state EXCEPT ![g] = p]
      <4> DEFINE o == Gate!Observation(e, ex[e].answer)
      <4>1. o \in ObservationType /\ o.under = g
        BY <2>1 DEF ObservationType, Gate!Observation
      <4> HIDE DEF o
      <4> DEFINE v == IF state[g].auto = Gate!None THEN ex[e].answer ELSE state[g].auto
      <4>2. v \in Answers /\ p = [state[g] EXCEPT !.auto = v, !.observed = o]
        BY <1>t, <2>1 DEF PolicyType, o
      <4> HIDE DEF v
      <4>3. p \in PolicyType /\ p.lock = state[g].lock /\ p.observed = o
        <5> HIDE DEF p
        <5> QED
          BY <1>t, <2>1, <4>1, <4>2 DEF PolicyType
      <4> QED
        BY <3>1, <4>1, <4>3
    <3>3. x \in ExchangeType /\ x.pc = "passed" /\ x.policy = 0 /\ ~x.holding
      BY <1>i DEF ExchangeType
    <3>4. p.lock # e
      BY <2>1, <3>2 DEF GateInv, LockedByFetcher
    <3> HIDE DEF p, x
    <3>5. /\ ex' \in [Exchange -> ExchangeType] /\ ex'[e] = x
          /\ \A f \in Exchange \ {e} :
               /\ ex'[f].pc = ex[f].pc /\ ex'[f].policy = ex[f].policy /\ ex'[f].holding = ex[f].holding
      BY <1>s, <3>1, <3>3
    <3>6. /\ Counts(e) /\ ex'[e].policy <= current /\ (ex[e].holding => Gate!AtTheGate(e))'
      BY <1>t, <2>1, <3>3, <3>5 DEF Counts, Gate!Released
    <3> QED
      BY <1>o, <2>1, <3>2, <3>3, <3>4, <3>5, <3>6
  <2> QED
    BY <2>2, <2>3
<1>8. ASSUME NEW e \in Exchange, Gate!Pass(e) \/ Gate!Refuse(e)
      PROVE  GateInv'
  <2>1. \E how \in {"passed", "refused", "left"} : ex' = Gate!Ended(ex, e, how)
    BY <1>8 DEF Gate!Pass, Gate!Refuse
  <2>2. /\ held' = Gate!Released(e) /\ UNCHANGED <<mode, replaced, current, state>> /\ ex[e].pc = "decide"
    BY <1>8 DEF Gate!Pass, Gate!Refuse, Gate!Wrong
  <2> QED
    BY <1>n, <2>1, <2>2
<1>9. ASSUME NEW e \in Exchange, Gate!Hold(e)
      PROVE  GateInv'
  <2> DEFINE x == [ex[e] EXCEPT !.pc = "sleep", !.holding = TRUE]
  <2>1. x \in ExchangeType /\ x.pc = "sleep" /\ x.policy = ex[e].policy /\ x.holding
    BY <1>t DEF ExchangeType
  <2>2. /\ ex[e].pc = "decide" /\ ex' = [ex EXCEPT ![e] = x]
        /\ held' = (IF ex[e].holding THEN held ELSE held + 1)
        /\ UNCHANGED <<mode, replaced, current, state>>
    BY <1>9 DEF Gate!Hold, Gate!Wrong
  <2> HIDE DEF x
  <2>3. Counts(e)
    BY <2>1, <2>2 DEF Counts, GateInv, GateTypes
  <2>4. /\ x.policy <= current /\ (x.pc = "fetch" <=> ex[e].pc = "fetch")
        /\ x.pc # "fetch" /\ (x.holding => x.pc \in {"loop", "read", "lock", "fetch", "decide", "sleep"})
    BY <1>t, <2>1, <2>2
  <2> QED
    BY <2>1, <2>2, <2>3, <2>4, GateMove
<1>10. ASSUME NEW e \in Exchange, Gate!Wake(e)
       PROVE  GateInv'
  <2> DEFINE x == [ex[e] EXCEPT !.pc = "loop"]
  <2>1. x \in ExchangeType /\ x.pc = "loop" /\ x.policy = ex[e].policy /\ x.holding = ex[e].holding
    BY <1>t DEF ExchangeType
  <2>2. ex[e].pc = "sleep" /\ ex' = [ex EXCEPT ![e] = x] /\ UNCHANGED <<mode, replaced, current, state, held>>
    BY <1>10 DEF Gate!Wake
  <2> HIDE DEF x
  <2> QED
    BY <1>m, <2>1, <2>2
<1>11. ASSUME NEW e \in Exchange, Gate!BudgetSpent(e)
       PROVE  GateInv'
  <2> DEFINE x == [ex[e] EXCEPT !.spent = TRUE]
  <2>1. x \in ExchangeType /\ x.pc = ex[e].pc /\ x.policy = ex[e].policy /\ x.holding = ex[e].holding
    BY <1>t DEF ExchangeType
  <2>2. ex' = [ex EXCEPT ![e] = x] /\ UNCHANGED <<mode, replaced, current, state, held>>
    BY <1>11 DEF Gate!BudgetSpent
  <2> HIDE DEF x
  <2>3. ex'[e] = x
    BY <2>2 DEF GateInv, GateTypes
  <2>4. Counts(e) /\ x.policy <= current
        /\ (x.holding => x.pc \in {"loop", "read", "lock", "fetch", "decide", "sleep"})
    BY <1>t, <1>h, <2>1, <2>2, <2>3 DEF Counts
  <2> QED
    BY <2>1, <2>2, <2>4, GateMove
<1>12. ASSUME NEW e \in Exchange, Gate!Leave(e)
       PROVE  GateInv'
  <2>1. CASE ex[e].pc # "fetch"
    BY <1>12, <1>n, <2>1 DEF Gate!Leave
  <2>2. CASE ex[e].pc = "fetch"
    <3> DEFINE g == ex[e].policy
               p == [state[g] EXCEPT !.lock = Gate!None]
               x == [Gate!Idle EXCEPT !.pc = "left"]
    <3>1. /\ g \in Gate!Generation /\ g <= current /\ UNCHANGED <<mode, replaced, current>>
          /\ held' = Gate!Released(e) /\ ex' = [ex EXCEPT ![e] = x]
      BY <1>12, <1>t DEF Gate!Leave, Gate!Ended, ExchangeType
    <3>2. /\ p \in PolicyType /\ p.lock = Gate!None /\ p.observed = state[g].observed
          /\ state' = [state EXCEPT ![g] = p]
      BY <1>12, <1>t, <2>2, <3>1 DEF PolicyType, Gate!Leave
    <3>3. x \in ExchangeType /\ x.pc = "left" /\ x.policy = 0 /\ ~x.holding
      BY <1>i DEF ExchangeType
    <3> HIDE DEF g, p, x
    <3>4. /\ ex' \in [Exchange -> ExchangeType] /\ ex'[e] = x /\ \A f \in Exchange \ {e} : ex'[f] = ex[f]
      BY <3>1, <3>3 DEF GateInv, GateTypes
    <3>5. p.observed.address # Gate!None => p.observed.under = g
      BY <3>1, <3>2 DEF GateInv, Gate!PolicyIsItsOwn
    <3>6. LockedByFetcher'
      <4>1. ASSUME NEW h \in Gate!Generation, NEW f \in Exchange
            PROVE  (state[h].lock = f <=> ex[f].pc = "fetch" /\ ex[f].policy = h)'
        <5>1. \A i \in Gate!Generation, k \in Exchange :
                state[i].lock = k <=> ex[k].pc = "fetch" /\ ex[k].policy = i
          BY DEF GateInv, LockedByFetcher
        <5>2. state'[h] = (IF h = g THEN p ELSE state[h]) /\ state[g].lock = e
          BY <2>2, <3>1, <3>2, <5>1 DEF GateInv, GateTypes, g
        <5> QED
          BY <2>2, <3>2, <3>3, <3>4, <5>1, <5>2 DEF Gate!EgressAssumption, g
      <4> QED
        BY <4>1 DEF LockedByFetcher
    <3>7. Counts(e) /\ ex'[e].policy <= current /\ (ex[e].holding => Gate!AtTheGate(e))'
      BY <1>t, <3>1, <3>3, <3>4 DEF Counts, Gate!Released
    <3> QED
      BY <3>1, <3>2, <3>4, <3>5, <3>6, <3>7, PolicyMove
  <2> QED
    BY <2>1, <2>2
<1>13. ASSUME NEW g \in Gate!Generation, Gate!Expire(g)
       PROVE  GateInv'
  <2> DEFINE p == [state[g] EXCEPT !.observed.fresh = FALSE]
  <2>1. /\ p \in PolicyType /\ p.lock = state[g].lock /\ p.observed.address = state[g].observed.address
        /\ p.observed.under = state[g].observed.under /\ state' = [state EXCEPT ![g] = p]
    BY <1>13, <1>t DEF Gate!Expire, PolicyType, ObservationType
  <2>2. state[g] # Gate!NewPolicy
    BY <1>13 DEF Gate!Expire, Gate!NewPolicy, Gate!NoObservation
  <2>3. UNCHANGED <<mode, replaced, current, held, ex>>
    BY <1>13 DEF Gate!Expire
  <2> HIDE DEF p
  <2>4. state' \in [Gate!Generation -> PolicyType]
        /\ \A h \in Gate!Generation : state'[h] = IF h = g THEN p ELSE state[h]
    BY <2>1 DEF GateInv, GateTypes
  <2> QED
    BY <2>1, <2>2, <2>3, <2>4 DEF GateInv, GateTypes, PoliciesWereCurrent, Gate!PolicyIsItsOwn,
       LockedByFetcher, HeldExact, Holders, HeldAtTheGate, Gate!AtTheGate
<1>14. CASE Gate!Reload \/ Gate!Reconfigure
  <2>1. UNCHANGED <<state, held, ex>> /\ current' \in Gate!Generation /\ mode' \in Gate!Mode
        /\ replaced' \in BOOLEAN /\ (replaced' => current' < MaxReload) /\ current <= current'
    <3>1. /\ MaxReload \in Nat /\ current \in 0 .. MaxReload /\ mode \in Gate!Mode
          /\ replaced => current < MaxReload
      BY DEF Gate!EgressAssumption, Gate!Generation, GateInv, GateTypes
    <3>2. CASE Gate!Reload
      <4>1. /\ UNCHANGED <<current, state, held, ex>> /\ mode' \in Gate!Mode /\ replaced' = TRUE
            /\ current < MaxReload
        BY <3>2 DEF Gate!Reload
      <4> QED
        BY <3>1, <4>1 DEF Gate!Generation
    <3>3. CASE Gate!Reconfigure
      <4>1. /\ UNCHANGED <<state, held, ex, mode>> /\ current' = current + 1 /\ replaced' = FALSE
            /\ replaced = TRUE \/ replaced = FALSE
        BY <3>3 DEF Gate!Reconfigure, GateInv, GateTypes
      <4>2. current < MaxReload
        BY <3>1, <3>3 DEF Gate!Reconfigure
      <4>3. current' \in 0 .. MaxReload /\ current <= current'
        BY <3>1, <4>1, <4>2
      <4>4. replaced' \in BOOLEAN /\ (replaced' => current' < MaxReload)
        BY <4>1
      <4> QED
        BY <3>1, <4>1, <4>3, <4>4 DEF Gate!Generation
    <3> QED
      BY <1>14, <3>2, <3>3
  <2>2. GateTypes' /\ HeldExact' /\ HeldAtTheGate' /\ LockedByFetcher'
    BY <2>1 DEF GateInv, GateTypes, LockedByFetcher, HeldExact, Holders, HeldAtTheGate, Gate!AtTheGate
  <2>3. PoliciesWereCurrent' /\ Gate!PolicyIsItsOwn'
    <3>1. \A g \in Gate!Generation : g \in Nat
      BY <1>t
    <3>2. \A e \in Exchange : ex[e].policy \in Nat
      BY <1>t DEF ExchangeType
    <3> QED
      BY <1>t, <2>1, <3>1, <3>2 DEF GateInv, PoliciesWereCurrent, Gate!PolicyIsItsOwn
  <2> QED
    BY <2>2, <2>3 DEF GateInv
<1>15. CASE UNCHANGED Gate!vars
  BY <1>15 DEF Gate!vars, GateInv, GateTypes, PoliciesWereCurrent, Gate!PolicyIsItsOwn,
     LockedByFetcher, HeldExact, Holders, HeldAtTheGate, Gate!AtTheGate
<1> QED
  BY <1>1, <1>2, <1>3, <1>4, <1>5, <1>6, <1>7, <1>8, <1>9, <1>10, <1>11, <1>12, <1>13, <1>14, <1>15
     DEF Gate!Next, Gate!AtGate

\* The inductive invariant of the egress gate: policies that are to come are
\* new; the lock of a policy is held by the exchange that is fetching under it,
\* so one check is in flight; and the count of held exchanges is exact, through
\* passing, refusal and a client that leaves.
THEOREM GateCoherent ==
  ASSUME Gate!EgressAssumption
  PROVE  Gate!Spec => []GateInv
BY GateInit, GateSteps, PTL DEF Gate!Spec

\* A behaviour of the gate is one of Egress.
LEMMA EgressPart ==
  /\ ServerSpec /\ part = "egress" => Gate!Spec
  /\ ServerSpec /\ ~(part = "egress") => []~(part = "egress")
<1>1. ServerInit /\ part = "egress" => Gate!Init
  BY DEF ServerInit
<1>2. part = "egress" /\ [ServerNext]_serverVars => (part = "egress")' /\ [Gate!Next]_(Gate!vars)
  BY DEF ServerNext, serverVars, egressVars, Gate!vars
<1>3. ~(part = "egress") /\ [ServerNext]_serverVars => ~(part = "egress")'
  BY DEF ServerNext, serverVars
<1> QED
  BY <1>1, <1>2, <1>3, PTL DEF ServerSpec, Gate!Spec

\* PolicyIsItsOwn, for any exchanges, addresses and reloads: what a check finds
\* stays with the policy it began under.
THEOREM PoliciesAreTheirOwn == ASSUME Gate!EgressAssumption PROVE ServerSpec => []PolicyIsItsOwn
<1>1. GateInv => PolicyIsItsOwn
  BY DEF GateInv, PolicyIsItsOwn
<1>2. ~(part = "egress") => PolicyIsItsOwn
  BY DEF PolicyIsItsOwn
<1> QED
  BY EgressPart, GateCoherent, <1>1, <1>2, PTL

---------------------------------------------------------------------------
(* ConfigFile: what a restart finds after commands that ran one by one. *)

Documents == SUBSET Entry
ReadingType == [pc : {"read"}, verb : Verb, entry : Entry, existing : Documents]
WorkType == [pc : {"write", "reload", "applied", "back"}, verb : Verb,
             previous : Documents, candidate : Documents]

ConfigTypes ==
  /\ file \in Documents /\ running \in Documents /\ quiet \in BOOLEAN
  /\ cmd \in [Command -> {Config!NoCommand} \cup ReadingType \cup WorkType]

\* What the server runs by is what a start with today's accounts would accept.
RunningAccepted == Config!Accepted(running, pool)

\* Commands that ran one by one: the one at work will leave, or write back, the
\* document the server runs by.
OneByOne ==
  quiet =>
    /\ \A c, d \in Command : cmd[c] # Config!NoCommand /\ cmd[d] # Config!NoCommand => c = d
    /\ Config!NobodyAtWork => file = running
    /\ \A c \in Command :
         /\ cmd[c].pc \in {"read", "write", "applied"} => file = running
         /\ cmd[c].pc \in {"write", "reload", "back"} => cmd[c].previous = running

ConfigInv == ConfigTypes /\ RunningAccepted /\ OneByOne

\* An edit of a document is a document.
LEMMA EditsAreDocuments ==
  ASSUME NEW doc \in Documents, NEW e \in Entry, NEW existing, NEW verb \in Config!Verbs
  PROVE  Config!Edits(doc, e, existing)[verb] \subseteq Documents
BY DEF Documents, Config!Verbs, Config!Edits, Config!SetKey, Config!UnsetKey, Config!AddRoute,
   Config!RemoveRoute, Config!SetPriority, Config!ClearPriority, Config!Block, Config!Unblock

LEMMA ConfigInit ==
  ASSUME Config!Init
  PROVE  ConfigInv
BY DEF Config!Init, ConfigInv, ConfigTypes, Documents, RunningAccepted, OneByOne, Config!NoCommand

LEMMA ConfigSteps ==
  ASSUME Config!ConfigFileAssumption, ConfigInv, [Config!Next]_Config!vars
  PROVE  ConfigInv'
<1>t. /\ file \in Documents /\ running \in Documents /\ quiet \in BOOLEAN
      /\ \A c \in Command : cmd[c] \in {Config!NoCommand} \cup ReadingType \cup WorkType
  BY DEF ConfigInv, ConfigTypes
<1>p. \A c \in Command :
        /\ cmd[c].pc \in {"none", "read", "write", "reload", "applied", "back"}
        /\ cmd[c].pc = "none" <=> cmd[c] = Config!NoCommand
        /\ cmd[c].pc = "read" => cmd[c] \in ReadingType
        /\ cmd[c].pc \in {"write", "reload", "applied", "back"} => cmd[c] \in WorkType
  BY <1>t DEF Config!NoCommand, ReadingType, WorkType
\* The command that is at work goes on, or ends, and what it leaves is right.
<1>w. ASSUME NEW c \in Command, NEW x \in {Config!NoCommand} \cup ReadingType \cup WorkType,
             cmd' = [cmd EXCEPT ![c] = x], cmd[c] # Config!NoCommand, UNCHANGED pool,
             file' \in Documents, running' \in Documents, quiet' \in BOOLEAN, RunningAccepted',
             quiet' => /\ quiet
                       /\ x.pc \in {"none", "read", "write", "applied"} => file' = running'
                       /\ x.pc \in {"write", "reload", "back"} => x.previous = running'
      PROVE  ConfigInv'
  <2>1. cmd'[c] = x /\ \A d \in Command \ {c} : cmd'[d] = cmd[d]
    BY <1>w DEF ConfigInv, ConfigTypes
  <2>2. ConfigTypes'
    BY <1>w DEF ConfigInv, ConfigTypes
  <2>3. ASSUME quiet'
        PROVE  /\ \A d \in Command \ {c} : cmd'[d] = Config!NoCommand
               /\ x.pc = "none" <=> x = Config!NoCommand
    <3>1. \A d \in Command \ {c} : cmd[d] = Config!NoCommand
      BY <1>w, <2>3 DEF ConfigInv, OneByOne
    <3>2. x.pc = "none" <=> x = Config!NoCommand
      BY <1>w DEF Config!NoCommand, ReadingType, WorkType
    <3> QED
      BY <2>1, <3>1, <3>2
  <2>4. OneByOne'
    <3>1. SUFFICES ASSUME quiet'
                   PROVE  /\ \A a, d \in Command : cmd'[a] # Config!NoCommand /\ cmd'[d] # Config!NoCommand => a = d
                          /\ (\A a \in Command : cmd'[a] = Config!NoCommand) => file' = running'
                          /\ \A a \in Command :
                               /\ cmd'[a].pc \in {"read", "write", "applied"} => file' = running'
                               /\ cmd'[a].pc \in {"write", "reload", "back"} => cmd'[a].previous = running'
      BY DEF OneByOne, Config!NobodyAtWork
    <3>2. Config!NoCommand.pc = "none"
      BY DEF Config!NoCommand
    <3> QED
      BY <1>w, <2>1, <2>3, <3>1, <3>2
  <2> QED
    BY <1>w, <2>2, <2>4 DEF ConfigInv
<1>1. ASSUME NEW c \in Command, NEW verb \in Verb, NEW e \in Entry, Config!Begin(c, verb, e)
      PROVE  ConfigInv'
  <2> DEFINE x == [pc |-> "read", verb |-> verb, entry |-> e, existing |-> Config!Priorities(file, RefOf[e])]
  <2>1. /\ cmd[c] = Config!NoCommand /\ cmd' = [cmd EXCEPT ![c] = x]
        /\ quiet' = (quiet /\ Config!Alone(c)) /\ UNCHANGED <<file, running, pool>>
    BY <1>1 DEF Config!Begin
  <2>2. x \in ReadingType /\ x.pc = "read"
    BY <1>t DEF ReadingType, Documents, Config!Priorities, Config!OfKind
  <2> HIDE DEF x
  <2>3. ConfigTypes' /\ RunningAccepted'
    BY <2>1, <2>2 DEF ConfigInv, ConfigTypes, RunningAccepted
  <2>4. ASSUME quiet'
        PROVE  /\ cmd'[c] = x /\ \A d \in Command \ {c} : cmd'[d] = Config!NoCommand
               /\ file' = running'
    <3>1. \A d \in Command : cmd[d] = Config!NoCommand
      BY <2>1, <2>4 DEF Config!Alone
    <3> QED
      BY <2>1, <2>4, <3>1 DEF ConfigInv, ConfigTypes, OneByOne, Config!NobodyAtWork
  <2>5. OneByOne'
    <3>1. Config!NoCommand.pc = "none" /\ x # Config!NoCommand
      BY <2>2 DEF Config!NoCommand
    <3> QED
      BY <2>2, <2>4, <3>1 DEF OneByOne, Config!NobodyAtWork
  <2> QED
    BY <2>3, <2>5 DEF ConfigInv
\* A command that ends, or moves on, without touching any document.
<1>e. ASSUME NEW c \in Command, Config!Ends(c), cmd[c].pc \in {"read", "write", "applied"},
             UNCHANGED <<file, running, pool, quiet>>
      PROVE  ConfigInv'
  <2>1. quiet => file = running
    BY <1>e DEF ConfigInv, OneByOne
  <2>2. cmd[c] # Config!NoCommand /\ Config!NoCommand.pc = "none" /\ RunningAccepted'
    BY <1>e DEF Config!NoCommand, ConfigInv, RunningAccepted
  <2> QED
    BY <1>e, <1>t, <1>w, <2>1, <2>2 DEF Config!Ends
<1>2. ASSUME NEW c \in Command, Config!Read(c)
      PROVE  ConfigInv'
  <2>1. cmd[c].pc = "read" /\ UNCHANGED <<file, running, pool, quiet>>
    BY <1>2 DEF Config!Read, Config!At
  <2>2. CASE Config!Ends(c)
    BY <1>e, <2>1, <2>2
  <2>3. CASE ~Config!Ends(c)
    <3>1. PICK d \in {k \in Config!Edits(file, cmd[c].entry, cmd[c].existing)[cmd[c].verb] : Config!Valid(k)} :
            cmd' = [cmd EXCEPT ![c] = [pc |-> "write", verb |-> cmd[c].verb, previous |-> file, candidate |-> d]]
      BY <1>2, <2>3 DEF Config!Read
    <3> DEFINE x == [pc |-> "write", verb |-> cmd[c].verb, previous |-> file, candidate |-> d]
    <3>2. cmd[c] \in ReadingType
      BY <1>p, <2>1
    <3>3. cmd[c].verb \in Verb /\ cmd[c].entry \in Entry /\ Verb \subseteq Config!Verbs
      BY <3>2 DEF ReadingType, Config!ConfigFileAssumption
    <3>4. d \in Documents
      BY <1>t, <3>1, <3>3, EditsAreDocuments
    <3>5. x \in WorkType /\ x.pc = "write" /\ x.previous = file
      BY <1>t, <3>3, <3>4 DEF WorkType
    <3> HIDE DEF x
    <3>6. (quiet => file = running) /\ RunningAccepted' /\ cmd[c] # Config!NoCommand
      BY <2>1 DEF ConfigInv, OneByOne, RunningAccepted, Config!NoCommand
    <3>7. cmd' = [cmd EXCEPT ![c] = x]
      BY <3>1 DEF x
    <3> QED
      BY <1>t, <1>w, <2>1, <3>5, <3>6, <3>7
  <2> QED
    BY <2>2, <2>3
<1>3. ASSUME NEW c \in Command, Config!Unreachable(c) \/ Config!Answered(c)
      PROVE  ConfigInv'
  <2>1. Config!Ends(c) /\ cmd[c].pc \in {"write", "applied"} /\ UNCHANGED <<file, running, pool, quiet>>
    BY <1>3 DEF Config!Unreachable, Config!Answered, Config!At
  <2> QED
    BY <1>e, <2>1
\* What a command at work carries moves on with it.
<1>g. ASSUME NEW c \in Command, cmd[c].pc \in {"write", "reload", "applied", "back"},
             NEW pc \in {"reload", "applied", "back"}
      PROVE  /\ [cmd[c] EXCEPT !.pc = pc] \in WorkType /\ [cmd[c] EXCEPT !.pc = pc].pc = pc
             /\ [cmd[c] EXCEPT !.pc = pc].previous = cmd[c].previous
             /\ cmd[c] # Config!NoCommand /\ cmd[c].previous \in Documents /\ cmd[c].candidate \in Documents
             /\ Config!Goto(c, pc) => cmd' = [cmd EXCEPT ![c] = [cmd[c] EXCEPT !.pc = pc]]
  <2>1. cmd[c] \in WorkType
    BY <1>g, <1>p
  <2> QED
    BY <1>g, <2>1 DEF WorkType, Config!NoCommand, Config!Goto
<1>4. ASSUME NEW c \in Command, Config!Write(c)
      PROVE  ConfigInv'
  <2>1. cmd[c].pc = "write" /\ UNCHANGED <<running, pool, quiet>>
    BY <1>4 DEF Config!Write, Config!At
  <2>2. CASE UNCHANGED file /\ Config!Ends(c)
    BY <1>e, <2>1, <2>2
  <2>3. CASE file' = cmd[c].candidate /\ Config!Goto(c, "reload")
    <3> DEFINE x == [cmd[c] EXCEPT !.pc = "reload"]
    <3>1. /\ x \in WorkType /\ x.pc = "reload" /\ x.previous = cmd[c].previous /\ cmd[c] # Config!NoCommand
          /\ file' \in Documents /\ cmd' = [cmd EXCEPT ![c] = x]
      BY <1>g, <2>1, <2>3
    <3> HIDE DEF x
    <3>2. (quiet => cmd[c].previous = running) /\ RunningAccepted'
      BY <2>1 DEF ConfigInv, OneByOne, RunningAccepted
    <3> QED
      BY <1>t, <1>w, <2>1, <3>1, <3>2
  <2> QED
    BY <1>4, <2>2, <2>3 DEF Config!Write
<1>5. ASSUME NEW c \in Command, Config!WriteOffline(c)
      PROVE  ConfigInv'
  <2>1. /\ cmd[c].pc = "write" /\ UNCHANGED <<running, pool>> /\ file' = cmd[c].candidate
        /\ quiet' = (quiet /\ Config!Unchanged(c)) /\ cmd' = [cmd EXCEPT ![c] = Config!NoCommand]
    BY <1>5 DEF Config!WriteOffline, Config!At, Config!Ends
  <2>2. cmd[c] # Config!NoCommand /\ file' \in Documents /\ Config!NoCommand.pc = "none"
    BY <1>g, <2>1 DEF Config!NoCommand
  <2>3. (quiet' => quiet /\ file' = running) /\ RunningAccepted' /\ quiet' \in BOOLEAN
    BY <1>t, <2>1 DEF ConfigInv, OneByOne, RunningAccepted, Config!Unchanged
  <2> QED
    BY <1>t, <1>w, <2>1, <2>2, <2>3
<1>6. ASSUME NEW c \in Command, Config!Reload(c)
      PROVE  ConfigInv'
  <2>1. cmd[c].pc = "reload" /\ UNCHANGED <<file, pool, quiet>>
    BY <1>6 DEF Config!Reload, Config!At
  <2>2. CASE Config!Takes(file) /\ running' = file /\ Config!Goto(c, "applied")
    <3> DEFINE x == [cmd[c] EXCEPT !.pc = "applied"]
    <3>1. x \in WorkType /\ x.pc = "applied" /\ cmd[c] # Config!NoCommand /\ cmd' = [cmd EXCEPT ![c] = x]
      BY <1>g, <2>1, <2>2
    <3> HIDE DEF x
    <3>2. RunningAccepted'
      BY <2>1, <2>2 DEF RunningAccepted, Config!Takes
    <3> QED
      BY <1>t, <1>w, <2>1, <2>2, <3>1, <3>2
  <2>3. CASE UNCHANGED running /\ Config!Goto(c, "back")
    <3> DEFINE x == [cmd[c] EXCEPT !.pc = "back"]
    <3>1. /\ x \in WorkType /\ x.pc = "back" /\ x.previous = cmd[c].previous
          /\ cmd[c] # Config!NoCommand /\ cmd' = [cmd EXCEPT ![c] = x]
      BY <1>g, <2>1, <2>3
    <3> HIDE DEF x
    <3>2. (quiet => cmd[c].previous = running) /\ RunningAccepted'
      BY <2>1, <2>3 DEF ConfigInv, OneByOne, RunningAccepted
    <3> QED
      BY <1>t, <1>w, <2>1, <2>3, <3>1, <3>2
  <2> QED
    BY <1>6, <2>2, <2>3 DEF Config!Reload
<1>7. ASSUME NEW c \in Command, Config!AnswerLost(c)
      PROVE  ConfigInv'
  <2> DEFINE x == [cmd[c] EXCEPT !.pc = "back"]
  <2>1. cmd[c].pc \in {"applied", "reload"} /\ quiet' = FALSE /\ UNCHANGED <<file, running, pool>>
    BY <1>7 DEF Config!AnswerLost, Config!At, Config!Fault
  <2>2. x \in WorkType /\ cmd[c] # Config!NoCommand /\ cmd' = [cmd EXCEPT ![c] = x]
    BY <1>7, <1>g, <2>1 DEF Config!AnswerLost
  <2> HIDE DEF x
  <2>3. RunningAccepted'
    BY <2>1 DEF ConfigInv, RunningAccepted
  <2> QED
    BY <1>t, <1>w, <2>1, <2>2, <2>3
<1>8. ASSUME NEW c \in Command, Config!WriteBack(c)
      PROVE  ConfigInv'
  <2>1. /\ cmd[c].pc = "back" /\ file' = cmd[c].previous /\ UNCHANGED <<running, pool, quiet>>
        /\ cmd' = [cmd EXCEPT ![c] = Config!NoCommand]
    BY <1>8 DEF Config!WriteBack, Config!At, Config!Ends
  <2>2. cmd[c] # Config!NoCommand /\ file' \in Documents /\ Config!NoCommand.pc = "none"
    BY <1>g, <2>1 DEF Config!NoCommand
  <2>3. (quiet => file' = running) /\ RunningAccepted'
    BY <2>1 DEF ConfigInv, OneByOne, RunningAccepted
  <2> QED
    BY <1>t, <1>w, <2>1, <2>2, <2>3
<1>9. ASSUME NEW c \in Command, Config!Kill(c)
      PROVE  ConfigInv'
  <2>1. /\ cmd[c] # Config!NoCommand /\ quiet' = FALSE /\ UNCHANGED <<file, running, pool>>
        /\ cmd' = [cmd EXCEPT ![c] = Config!NoCommand]
    BY <1>9 DEF Config!Kill, Config!Fault, Config!Ends
  <2>2. RunningAccepted'
    BY <2>1 DEF ConfigInv, RunningAccepted
  <2> QED
    BY <1>t, <1>w, <2>1, <2>2
<1>10. CASE Config!ReloadSignal \/ Config!Start
  <2>1. /\ UNCHANGED <<file, pool, cmd>> /\ running' = file /\ RunningAccepted'
        /\ quiet' = (quiet /\ Config!NobodyAtWork)
    BY <1>10 DEF Config!ReloadSignal, Config!Start, Config!Takes, RunningAccepted
  <2>2. ConfigTypes'
    BY <2>1 DEF ConfigInv, ConfigTypes
  <2>3. OneByOne'
    <3>1. ASSUME quiet'
          PROVE  \A c \in Command : cmd'[c] = Config!NoCommand
      BY <2>1, <3>1 DEF Config!NobodyAtWork
    <3>2. file' = running' /\ Config!NoCommand.pc = "none"
      BY <2>1 DEF Config!NoCommand
    <3> QED
      BY <3>1, <3>2 DEF OneByOne
  <2> QED
    BY <2>1, <2>2, <2>3 DEF ConfigInv
<1>11. CASE Config!Stop \/ UNCHANGED Config!vars
  BY <1>11 DEF Config!Stop, Config!vars, ConfigInv, ConfigTypes, RunningAccepted, OneByOne, Config!NobodyAtWork
<1>12. ASSUME NEW a \in Account, Config!RemoveAccount(a)
       PROVE  ConfigInv'
  <2>1. UNCHANGED <<file, running, cmd, quiet>> /\ Config!Resolves(running, pool')
    BY <1>12 DEF Config!RemoveAccount
  <2>2. RunningAccepted'
    BY <2>1 DEF ConfigInv, RunningAccepted, Config!Accepted
  <2> QED
    BY <2>1, <2>2 DEF ConfigInv, ConfigTypes, OneByOne, Config!NobodyAtWork
<1> QED
  BY <1>1, <1>2, <1>3, <1>4, <1>5, <1>6, <1>7, <1>8, <1>9, <1>10, <1>11, <1>12
     DEF Config!Next, Config!CommandStep

\* The inductive invariant of the configuration's edits: the server runs by a
\* document that a start would accept with the accounts there are, and of
\* commands that ran one by one the one at work leaves, or writes back, it.
THEOREM ConfigCoherent ==
  ASSUME Config!ConfigFileAssumption
  PROVE  Config!Spec => []ConfigInv
BY ConfigInit, ConfigSteps, PTL DEF Config!Spec

\* A behaviour of the configuration is one of ConfigFile.
LEMMA ConfigPart ==
  /\ ServerSpec /\ part = "config" => Config!Spec
  /\ ServerSpec /\ ~(part = "config") => []~(part = "config")
<1>1. ServerInit /\ part = "config" => Config!Init
  BY DEF ServerInit
<1>2. part = "config" /\ [ServerNext]_serverVars => (part = "config")' /\ [Config!Next]_(Config!vars)
  BY DEF ServerNext, serverVars, configVars, Config!vars
<1>3. ~(part = "config") /\ [ServerNext]_serverVars => ~(part = "config")'
  BY DEF ServerNext, serverVars
<1> QED
  BY <1>1, <1>2, <1>3, PTL DEF ServerSpec, Config!Spec

\* RestartSafe, for any commands, documents, clashes and accounts: after commands
\* that ran one after another, each to its end, the file is one the server runs
\* by and would start with again.
THEOREM RestartsAreSafe == ASSUME Config!ConfigFileAssumption PROVE ServerSpec => []RestartSafe
<1>1. ConfigInv => RestartSafe
  BY DEF ConfigInv, RunningAccepted, OneByOne, RestartSafe, Config!RestartSafe
<1>2. ~(part = "config") => RestartSafe
  BY DEF RestartSafe
<1> QED
  BY ConfigPart, ConfigCoherent, <1>1, <1>2, PTL

---------------------------------------------------------------------------
(* Kit: which client a machine has. *)

Clients == Release \cup {NoRelease, Torn, OwnClient}
Keys == Key \cup {NoKey}
TaskType == [of : Clients, pc : {"read", "decide"}, kit : Clients, key : Keys]
LaunchType == [pc : {"status", "download", "downloading", "install", "check", "clean"},
               wanted : Clients, kit : Clients, old : Clients]

KitTypes ==
  /\ link \in Clients /\ serverKey \in Keys
  /\ decided \in [of : Clients, offer : Clients, made : BOOLEAN]
  /\ tasks \subseteq TaskType
  /\ invited \in [Machine -> Keys] /\ pinned \in [Machine -> Keys]
  /\ installed \in [Machine -> Clients] /\ staged \in [Machine -> Clients]
  /\ launch \in [Launch -> {Kits!NoLaunch} \cup LaunchType]

\* Signed with the machine's own key, or what it joined with.
Authentic(client, m) == client = OwnClient \/ Kits!Verifies(client, pinned[m])

\* A launch is of a machine that joined, and what its failed check would bring
\* back is authentic too.
LaunchesFollow ==
  \A l \in Launch : launch[l] # Kits!NoLaunch =>
    /\ pinned[MachineOf[l]] # NoKey
    /\ launch[l].pc = "check" => Authentic(launch[l].old, MachineOf[l])

KitInv == KitTypes /\ Kits!AuthenticClient /\ LaunchesFollow

LEMMA KitInit ==
  ASSUME Kits!Init
  PROVE  KitInv
<1>1. Kits!NoVerdict \in [of : Clients, offer : Clients, made : BOOLEAN]
  BY DEF Kits!NoVerdict, Clients
<1>2. KitTypes
  BY <1>1 DEF Kits!Init, KitTypes, Clients, Keys
<1> QED
  BY <1>2 DEF Kits!Init, KitInv, Kits!AuthenticClient, LaunchesFollow

\* What asking for the offer, or verifying it, does to the server is typed.
LEMMA ServerTyped ==
  ASSUME KitTypes
  PROVE  /\ Kits!Offer \in Clients
         /\ Kits!Asked => /\ decided' \in [of : Clients, offer : Clients, made : BOOLEAN]
                          /\ tasks' \subseteq TaskType
<1>1. Kits!NoVerdict \in [of : Clients, offer : Clients, made : BOOLEAN]
  BY DEF Kits!NoVerdict, Clients
<1>2. [Kits!NoVerdict EXCEPT !.made = TRUE] \in [of : Clients, offer : Clients, made : BOOLEAN]
  BY <1>1
<1>3. [of |-> link, pc |-> "read", kit |-> NoRelease, key |-> NoKey] \in TaskType
  BY DEF KitTypes, TaskType, Clients, Keys
<1>4. Kits!Offer \in Clients
  BY DEF KitTypes, Kits!Offer, Clients
<1> QED
  BY <1>2, <1>3, <1>4 DEF KitTypes, Kits!Asked

\* A step that pins no key: what is installed, and what a check would bring
\* back, stays authentic.
LEMMA SamePins ==
  ASSUME KitInv, UNCHANGED pinned, KitTypes',
         \A m \in Machine : installed'[m] = installed[m] \/ (pinned[m] # NoKey => Authentic(installed'[m], m)),
         \A l \in Launch : launch'[l] = launch[l] \/ launch'[l] = Kits!NoLaunch \/
           /\ pinned[MachineOf[l]] # NoKey
           /\ launch'[l].pc = "check" => Authentic(launch'[l].old, MachineOf[l])
  PROVE  KitInv'
<1>1. Kits!AuthenticClient'
  BY DEF KitInv, Kits!AuthenticClient, Authentic, Kits!Verifies
<1>2. LaunchesFollow'
  BY DEF KitInv, LaunchesFollow, Authentic, Kits!Verifies
<1> QED
  BY <1>1, <1>2 DEF KitInv

LEMMA KitSteps ==
  ASSUME Kits!KitAssumption, KitInv, [Kits!Next]_Kits!vars
  PROVE  KitInv'
<1>t. /\ KitTypes /\ \A l \in Launch : MachineOf[l] \in Machine
      /\ \A l \in Launch : launch[l] = Kits!NoLaunch \/ launch[l] \in LaunchType
      /\ NoRelease \in Clients /\ Torn \in Clients /\ OwnClient \in Clients /\ Release \subseteq Clients
  BY DEF KitInv, KitTypes, Kits!KitAssumption, Clients
<1>p. \A l \in Launch : launch[l].pc # "none" =>
        launch[l] # Kits!NoLaunch /\ launch[l] \in LaunchType /\ pinned[MachineOf[l]] # NoKey
  BY <1>t DEF Kits!NoLaunch, KitInv, LaunchesFollow
<1>f. Kits!Fresh \in LaunchType /\ Kits!Fresh.pc = "status"
      /\ [Kits!Fresh EXCEPT !.pc = "clean"] \in LaunchType /\ [Kits!Fresh EXCEPT !.pc = "clean"].pc = "clean"
  BY <1>t DEF Kits!Fresh, LaunchType
\* The server's own steps.
<1>1. ASSUME NEW r \in Release, Kits!AdmitKey(r) \/ Kits!Switch(r)
      PROVE  KitInv'
  <2>1. /\ UNCHANGED <<decided, tasks, invited, pinned, installed, staged, launch>>
        /\ link' \in Clients /\ serverKey' \in Keys
    BY <1>1, <1>t DEF Kits!AdmitKey, Kits!Switch, Kits!machineVars, Kits!launchVars, KitTypes,
       Kits!KitAssumption, Keys
  <2>2. KitTypes'
    BY <2>1 DEF KitInv, KitTypes
  <2> QED
    BY <2>1, <2>2, SamePins
<1>2. CASE Kits!Restart
  <2>1. /\ UNCHANGED <<link, serverKey, invited, pinned, installed, staged, launch>> /\ tasks' = {}
        /\ decided' = Kits!NoVerdict
    BY <1>2 DEF Kits!Restart, Kits!machineVars, Kits!launchVars
  <2>2. KitTypes'
    BY <1>t, <2>1 DEF KitTypes, Kits!NoVerdict
  <2> QED
    BY <2>1, <2>2, SamePins
<1>3. ASSUME NEW t \in tasks, Kits!VerifyRead(t)
      PROVE  KitInv'
  <2>1. /\ UNCHANGED <<link, serverKey, decided, invited, pinned, installed, staged, launch>>
        /\ tasks' = (tasks \ {t}) \cup {[t EXCEPT !.pc = "decide", !.kit = link, !.key = serverKey]}
    BY <1>3 DEF Kits!VerifyRead, Kits!machineVars, Kits!launchVars
  <2>2. [t EXCEPT !.pc = "decide", !.kit = link, !.key = serverKey] \in TaskType
    BY <1>t DEF KitTypes, TaskType
  <2>3. KitTypes'
    BY <1>t, <2>1, <2>2 DEF KitTypes
  <2> QED
    BY <2>1, <2>3, SamePins
<1>4. ASSUME NEW t \in tasks, Kits!VerifyDecides(t)
      PROVE  KitInv'
  <2>1. /\ UNCHANGED <<link, serverKey, invited, pinned, installed, staged, launch>>
        /\ tasks' \subseteq tasks
        /\ decided' = [of |-> t.of, made |-> TRUE,
                       offer |-> IF Kits!Verifies(t.kit, t.key) THEN t.kit ELSE NoRelease]
    BY <1>4 DEF Kits!VerifyDecides, Kits!machineVars, Kits!launchVars
  <2>2. t \in TaskType
    BY <1>t DEF KitTypes
  <2>3. decided' \in [of : Clients, offer : Clients, made : BOOLEAN]
    BY <1>t, <2>1, <2>2 DEF TaskType
  <2>4. KitTypes'
    BY <1>t, <2>1, <2>3 DEF KitTypes
  <2> QED
    BY <2>1, <2>4, SamePins
<1>5. ASSUME NEW m \in Machine, Kits!Invite(m)
      PROVE  KitInv'
  <2>1. /\ UNCHANGED <<link, serverKey, decided, tasks, pinned, installed, staged, launch>>
        /\ invited' = [invited EXCEPT ![m] = serverKey]
    BY <1>5 DEF Kits!Invite, Kits!serverVars, Kits!launchVars
  <2>2. KitTypes'
    BY <1>t, <2>1 DEF KitTypes
  <2> QED
    BY <2>1, <2>2, SamePins
<1>6. ASSUME NEW m \in Machine, Kits!Join(m)
      PROVE  KitInv'
  <2>1. UNCHANGED <<invited, staged, launch>> /\ invited[m] # NoKey /\ pinned[m] = NoKey
    BY <1>6 DEF Kits!Join, Kits!launchVars
  <2>2. CASE Kits!AskAgain /\ UNCHANGED <<pinned, installed>>
    <3>1. UNCHANGED <<link, serverKey>> /\ Kits!Asked
      BY <2>2 DEF Kits!AskAgain
    <3>2. KitTypes'
      BY <1>t, <2>1, <2>2, <3>1, ServerTyped DEF KitTypes
    <3> QED
      BY <2>1, <2>2, <3>2, SamePins
  <2>3. ASSUME NEW client \in Clients, UNCHANGED Kits!serverVars,
               client = OwnClient \/ Kits!Verifies(client, invited[m]),
               pinned' = [pinned EXCEPT ![m] = invited[m]], installed' = [installed EXCEPT ![m] = client]
        PROVE  KitInv'
    <3>1. KitTypes'
      BY <1>t, <2>1, <2>3 DEF KitTypes, Kits!serverVars
    <3>2. Kits!AuthenticClient'
      BY <1>t, <2>1, <2>3 DEF KitInv, KitTypes, Kits!AuthenticClient, Kits!Verifies
    <3>3. LaunchesFollow'
      <4>1. ASSUME NEW l \in Launch, launch[l] # Kits!NoLaunch
            PROVE  MachineOf[l] # m /\ pinned'[MachineOf[l]] = pinned[MachineOf[l]]
        BY <1>t, <2>1, <2>3, <4>1 DEF KitInv, KitTypes, LaunchesFollow
      <4> QED
        BY <2>1, <4>1 DEF KitInv, LaunchesFollow, Authentic, Kits!Verifies
    <3> QED
      BY <3>1, <3>2, <3>3 DEF KitInv
  <2> QED
    BY <1>6, <1>t, <2>2, <2>3 DEF Kits!Join, KitTypes
\* A launch that goes on without touching what is installed.
<1>l. ASSUME NEW l \in Launch, NEW x \in {Kits!NoLaunch} \cup LaunchType,
             launch' = [launch EXCEPT ![l] = x], x.pc # "check", pinned[MachineOf[l]] # NoKey,
             UNCHANGED <<link, serverKey, invited, pinned, installed>>, staged' \in [Machine -> Clients],
             Kits!Asked \/ UNCHANGED <<decided, tasks>>
      PROVE  KitInv'
  <2>1. KitTypes'
    BY <1>t, <1>l, ServerTyped DEF KitTypes
  <2>2. \A k \in Launch : launch'[k] = launch[k] \/ launch'[k] = Kits!NoLaunch \/
          /\ pinned[MachineOf[k]] # NoKey
          /\ launch'[k].pc = "check" => Authentic(launch'[k].old, MachineOf[k])
    BY <1>t, <1>l DEF KitTypes
  <2> QED
    BY <1>l, <2>1, <2>2, SamePins
\* A launch ends, or gives the update up; its pc is that of a launch at work.
<1>e. ASSUME NEW l \in Launch, Kits!Ends(l) \/ Kits!Cleans(l), launch[l].pc # "none",
             UNCHANGED <<Kits!serverVars, invited, pinned, installed>>, staged' \in [Machine -> Clients]
      PROVE  KitInv'
  <2>1. Kits!NoLaunch.pc # "check" /\ UNCHANGED <<link, serverKey, decided, tasks>>
    BY <1>e DEF Kits!NoLaunch, Kits!serverVars
  <2>2. CASE Kits!Ends(l)
    BY <1>e, <1>l, <1>p, <2>1, <2>2 DEF Kits!Ends
  <2>3. CASE Kits!Cleans(l)
    BY <1>e, <1>f, <1>l, <1>p, <2>1, <2>3 DEF Kits!Cleans
  <2> QED
    BY <1>e, <2>2, <2>3
<1>7. ASSUME NEW l \in Launch, Kits!Begin(l)
      PROVE  KitInv'
  <2>1. /\ UNCHANGED <<link, serverKey, decided, tasks, invited, pinned, installed, staged>>
        /\ launch' = [launch EXCEPT ![l] = Kits!Fresh] /\ pinned[MachineOf[l]] # NoKey
    BY <1>7 DEF Kits!Begin, Kits!serverVars, Kits!machineVars
  <2> QED
    BY <1>t, <1>f, <1>l, <2>1 DEF KitTypes
<1>8. ASSUME NEW l \in Launch, Kits!Status(l)
      PROVE  KitInv'
  <2>1. /\ UNCHANGED <<link, serverKey, invited, pinned, installed, staged>> /\ Kits!Asked
        /\ launch[l].pc = "status"
    BY <1>8 DEF Kits!Status, Kits!At, Kits!machineVars
  <2>2. launch[l] \in LaunchType /\ pinned[MachineOf[l]] # NoKey
    BY <1>p, <2>1
  <2>3. CASE Kits!Ends(l)
    <3>1. /\ launch' = [launch EXCEPT ![l] = Kits!NoLaunch] /\ Kits!NoLaunch.pc # "check"
          /\ staged' \in [Machine -> Clients]
      BY <1>t, <2>1, <2>3 DEF Kits!Ends, Kits!NoLaunch, KitTypes
    <3> QED
      BY <1>l, <2>1, <2>2, <3>1
  <2>4. CASE launch' = [launch EXCEPT ![l].pc = "download", ![l].wanted = Kits!Offer]
    <3> DEFINE x == [launch[l] EXCEPT !.pc = "download", !.wanted = Kits!Offer]
    <3>1. x \in LaunchType /\ x.pc = "download"
      BY <1>t, <2>2, ServerTyped DEF LaunchType
    <3>2. launch' = [launch EXCEPT ![l] = x]
      BY <2>4
    <3> HIDE DEF x
    <3> QED
      BY <1>t, <1>l, <2>1, <2>2, <3>1, <3>2 DEF KitTypes
  <2> QED
    BY <1>8, <2>3, <2>4 DEF Kits!Status
<1>9. ASSUME NEW l \in Launch, Kits!OpenDownload(l)
      PROVE  KitInv'
  <2>1. UNCHANGED <<invited, pinned, installed>> /\ launch[l].pc = "download"
    BY <1>9 DEF Kits!OpenDownload, Kits!At
  <2>2. launch[l] \in LaunchType /\ pinned[MachineOf[l]] # NoKey
    BY <1>p, <2>1
  <2>3. CASE Kits!AskAgain /\ UNCHANGED <<staged, launch>>
    <3>1. UNCHANGED <<link, serverKey>> /\ Kits!Asked
      BY <2>3 DEF Kits!AskAgain
    <3>2. KitTypes'
      BY <1>t, <2>1, <2>3, <3>1, ServerTyped DEF KitTypes
    <3> QED
      BY <2>1, <2>3, <3>2, SamePins
  <2>4. CASE /\ UNCHANGED Kits!serverVars
             /\ launch' = [launch EXCEPT ![l].pc = "downloading", ![l].kit = link]
             /\ staged' = [staged EXCEPT ![MachineOf[l]] = Torn]
    <3> DEFINE x == [launch[l] EXCEPT !.pc = "downloading", !.kit = link]
    <3>1. x \in LaunchType /\ x.pc = "downloading"
      BY <1>t, <2>2 DEF LaunchType, KitTypes
    <3>2. launch' = [launch EXCEPT ![l] = x] /\ staged' \in [Machine -> Clients]
          /\ UNCHANGED <<link, serverKey, decided, tasks>>
      BY <1>t, <2>4 DEF KitTypes, Kits!serverVars
    <3> HIDE DEF x
    <3> QED
      BY <1>l, <2>1, <2>2, <3>1, <3>2
  <2>5. CASE UNCHANGED Kits!serverVars /\ Kits!Cleans(l) /\ UNCHANGED staged
    BY <1>t, <1>e, <2>1, <2>5 DEF KitTypes
  <2> QED
    BY <1>9, <2>3, <2>4, <2>5 DEF Kits!OpenDownload
<1>10. ASSUME NEW l \in Launch, Kits!CloseDownload(l)
       PROVE  KitInv'
  <2> DEFINE x == [launch[l] EXCEPT !.pc = "install", !.kit = NoRelease]
  <2>1. /\ UNCHANGED <<link, serverKey, decided, tasks, invited, pinned, installed>>
        /\ launch[l].pc = "downloading" /\ launch' = [launch EXCEPT ![l] = x]
    BY <1>10 DEF Kits!CloseDownload, Kits!At, Kits!serverVars
  <2>2. launch[l] \in LaunchType /\ pinned[MachineOf[l]] # NoKey
    BY <1>p, <2>1
  <2>3. x \in LaunchType /\ x.pc = "install"
    BY <1>t, <2>2 DEF LaunchType
  <2>4. staged' \in [Machine -> Clients]
    <3>1. launch[l].kit \in Clients
      BY <2>2 DEF LaunchType
    <3>2. PICK kit \in {launch[l].kit, Torn} : staged' = [staged EXCEPT ![MachineOf[l]] = kit]
      BY <1>10 DEF Kits!CloseDownload
    <3> QED
      BY <1>t, <3>1, <3>2 DEF KitTypes
  <2> HIDE DEF x
  <2> QED
    BY <1>l, <2>1, <2>2, <2>3, <2>4
\* What a machine has changes with the state of the launch.
<1>i. ASSUME NEW l \in Launch, NEW x \in LaunchType, NEW client \in Clients,
             launch' = [launch EXCEPT ![l] = x], pinned[MachineOf[l]] # NoKey,
             installed' = [installed EXCEPT ![MachineOf[l]] = client], Authentic(client, MachineOf[l]),
             x.pc = "check" => Authentic(x.old, MachineOf[l]),
             UNCHANGED <<link, serverKey, decided, tasks, invited, pinned, staged>>
      PROVE  KitInv'
  <2>1. KitTypes'
    BY <1>t, <1>i DEF KitTypes
  <2>2. \A m \in Machine : installed'[m] = installed[m] \/ Authentic(installed'[m], m)
    BY <1>t, <1>i DEF KitTypes
  <2>3. \A k \in Launch : launch'[k] = launch[k] \/
          /\ pinned[MachineOf[k]] # NoKey
          /\ launch'[k].pc = "check" => Authentic(launch'[k].old, MachineOf[k])
    BY <1>t, <1>i DEF KitTypes
  <2> QED
    BY <1>i, <2>1, <2>2, <2>3, SamePins
<1>11. ASSUME NEW l \in Launch, Kits!Install(l)
       PROVE  KitInv'
  <2> DEFINE m == MachineOf[l]
  <2>1. UNCHANGED <<Kits!serverVars, invited, pinned, staged>> /\ launch[l].pc = "install"
    BY <1>11 DEF Kits!Install, Kits!At
  <2>2. launch[l] \in LaunchType /\ pinned[m] # NoKey /\ m \in Machine
    BY <1>p, <1>t, <2>1
  <2>3. CASE /\ Kits!Verifies(staged[m], pinned[m])
             /\ launch' = [launch EXCEPT ![l].pc = "check", ![l].old = installed[m]]
             /\ installed' = [installed EXCEPT ![m] = staged[m]]
    <3> DEFINE x == [launch[l] EXCEPT !.pc = "check", !.old = installed[m]]
    <3>1. x \in LaunchType /\ x.old = installed[m] /\ staged[m] \in Clients
      BY <1>t, <2>2 DEF LaunchType, KitTypes
    <3>2. launch' = [launch EXCEPT ![l] = x] /\ UNCHANGED <<link, serverKey, decided, tasks>>
      BY <2>1, <2>3 DEF Kits!serverVars
    <3>3. Authentic(staged[m], m) /\ Authentic(installed[m], m)
      BY <2>2, <2>3 DEF KitInv, Kits!AuthenticClient, Authentic
    <3> HIDE DEF x
    <3> QED
      BY <1>i, <2>1, <2>2, <2>3, <3>1, <3>2, <3>3
  <2>4. CASE Kits!Cleans(l) /\ UNCHANGED installed
    BY <1>t, <1>e, <2>1, <2>4 DEF KitTypes
  <2> QED
    BY <1>11, <2>3, <2>4 DEF Kits!Install
<1>12. ASSUME NEW l \in Launch, Kits!Rerun(l)
       PROVE  KitInv'
  <2>1. /\ UNCHANGED <<link, serverKey, decided, tasks, invited, pinned, installed>>
        /\ launch[l].pc = "check" /\ staged' \in [Machine -> Clients]
    BY <1>12, <1>t DEF Kits!Rerun, Kits!At, Kits!serverVars, KitTypes
  <2> DEFINE x == IF installed[MachineOf[l]] = launch[l].wanted THEN Kits!Fresh ELSE Kits!NoLaunch
  <2>2. x \in {Kits!NoLaunch} \cup LaunchType /\ x.pc # "check" /\ launch' = [launch EXCEPT ![l] = x]
    BY <1>12, <1>f DEF Kits!Rerun, Kits!NoLaunch
  <2> HIDE DEF x
  <2> QED
    BY <1>l, <1>p, <2>1, <2>2
<1>13. ASSUME NEW l \in Launch, Kits!CheckFails(l)
       PROVE  KitInv'
  <2>1. /\ UNCHANGED <<link, serverKey, decided, tasks, invited, pinned, staged>>
        /\ launch[l].pc = "check" /\ launch' = [launch EXCEPT ![l] = [Kits!Fresh EXCEPT !.pc = "clean"]]
        /\ installed' = [installed EXCEPT ![MachineOf[l]] = launch[l].old]
    BY <1>13 DEF Kits!CheckFails, Kits!At, Kits!serverVars, Kits!Cleans
  <2>2. launch[l] \in LaunchType /\ pinned[MachineOf[l]] # NoKey /\ launch[l] # Kits!NoLaunch
    BY <1>p, <2>1
  <2>3. launch[l].old \in Clients /\ Authentic(launch[l].old, MachineOf[l])
    BY <2>1, <2>2 DEF LaunchType, KitInv, LaunchesFollow
  <2> DEFINE x == [Kits!Fresh EXCEPT !.pc = "clean"]
  <2>4. x \in LaunchType /\ x.pc # "check" /\ launch' = [launch EXCEPT ![l] = x]
    BY <1>f, <2>1
  <2> HIDE DEF x
  <2> QED
    BY <1>i, <2>1, <2>2, <2>3, <2>4
<1>14. ASSUME NEW l \in Launch, Kits!CarryOn(l)
       PROVE  KitInv'
  <2>1. /\ Kits!Ends(l) /\ launch[l].pc = "clean" /\ staged' \in [Machine -> Clients]
        /\ UNCHANGED <<Kits!serverVars, invited, pinned, installed>>
    BY <1>14, <1>t DEF Kits!CarryOn, Kits!At, KitTypes
  <2> QED
    BY <1>e, <2>1
<1>15. ASSUME NEW l \in Launch, Kits!Broken(l)
       PROVE  KitInv'
  <2>1. /\ Kits!Ends(l) \/ Kits!Cleans(l)
        /\ UNCHANGED <<Kits!serverVars, invited, pinned, installed, staged>>
        /\ launch[l] # Kits!NoLaunch
    BY <1>15 DEF Kits!Broken, Kits!machineVars
  <2>2. launch[l].pc # "none"
    BY <1>t, <2>1 DEF LaunchType
  <2> QED
    BY <1>t, <1>e, <2>1, <2>2 DEF KitTypes
<1>16. CASE UNCHANGED Kits!vars
  <2>1. UNCHANGED <<link, serverKey, decided, tasks, invited, pinned, installed, staged, launch>>
    BY <1>16 DEF Kits!vars, Kits!serverVars, Kits!machineVars, Kits!launchVars
  <2>2. KitTypes'
    BY <1>t, <2>1 DEF KitTypes
  <2> QED
    BY <2>1, <2>2, SamePins
<1> QED
  BY <1>1, <1>2, <1>3, <1>4, <1>5, <1>6, <1>7, <1>8, <1>9, <1>10, <1>11, <1>12, <1>13, <1>14, <1>15, <1>16
     DEF Kits!Next, Kits!Verify, Kits!LaunchStep

\* The inductive invariant of the kits: a machine that joined has an authentic
\* client, a launch is of a machine that joined, and what its failed check would
\* bring back is authentic.
THEOREM KitsCoherent ==
  ASSUME Kits!KitAssumption
  PROVE  Kits!Spec => []KitInv
BY KitInit, KitSteps, PTL DEF Kits!Spec

\* A behaviour of the kits is one of Kit.
LEMMA KitPart ==
  /\ ServerSpec /\ part = "kit" => Kits!Spec
  /\ ServerSpec /\ ~(part = "kit") => []~(part = "kit")
<1>1. ServerInit /\ part = "kit" => Kits!Init
  BY DEF ServerInit
<1>2. part = "kit" /\ [ServerNext]_serverVars => (part = "kit")' /\ [Kits!Next]_(Kits!vars)
  BY DEF ServerNext, serverVars, kitVars, Kits!vars, Kits!serverVars, Kits!machineVars,
     Kits!launchVars
<1>3. ~(part = "kit") /\ [ServerNext]_serverVars => ~(part = "kit")'
  BY DEF ServerNext, serverVars
<1> QED
  BY <1>1, <1>2, <1>3, PTL DEF ServerSpec, Kits!Spec

\* AuthenticClient, for any machines, launches, releases and keys: whatever is
\* offered, selected, staged by another launch or rolled back, a machine has a
\* client its own pinned key signed, or the one it joined with.
THEOREM ClientsAreAuthentic == ASSUME Kits!KitAssumption PROVE ServerSpec => []AuthenticClient
<1>1. KitInv => AuthenticClient
  BY DEF KitInv, AuthenticClient
<1>2. ~(part = "kit") => AuthenticClient
  BY DEF AuthenticClient
<1> QED
  BY KitPart, KitsCoherent, <1>1, <1>2, PTL

---------------------------------------------------------------------------
(* Login: whose account a login reaches. *)

FlowType == [state : {"awaiting", "exchanging", "succeeded", "failed", "cancelled"},
             owner : Logins!Owner, account : Person \cup {Logins!Absent}]
DriverType ==
  [pc : {"none", "wait", "answer", "took", "exchange", "terms", "pool", "succeeded", "failed", "cancelled"},
   listens : BOOLEAN, identity : Person \cup {Logins!Absent}, adds : BOOLEAN]

LoginTypes ==
  /\ holder \in [Person -> Logins!Owner \cup {Logins!Absent}]
  /\ source \in [Person -> Flow \cup {Logins!Absent}]
  /\ flow \in [Flow -> {Logins!NoFlow} \cup FlowType]
  /\ driver \in [Flow -> DriverType]

\* A driver drives a flow that has not ended, and knows the identity once the
\* provider told it.
Driven ==
  \A f \in Flow :
    /\ driver[f].pc # "none" => flow[f] # Logins!NoFlow /\ flow[f].state \in {"awaiting", "exchanging"}
    /\ driver[f].pc \in {"terms", "pool", "succeeded"} => driver[f].identity \in Person

\* A token family a flow brought is that of an account in the pool, and the
\* flow is its owner's or the operator's.
SourcesOwned ==
  \A i \in Person : source[i] # Logins!Absent =>
    /\ flow[source[i]] # Logins!NoFlow /\ holder[i] # Logins!Absent
    /\ flow[source[i]].owner \in {holder[i], Operator}

LoginInv == LoginTypes /\ Driven /\ SourcesOwned

LEMMA LoginInit ==
  ASSUME Logins!Init
  PROVE  LoginInv
BY DEF Logins!Init, LoginInv, LoginTypes, Driven, SourcesOwned, DriverType, Logins!Idle

LEMMA LoginSteps ==
  ASSUME Logins!LoginAssumption, LoginInv, [Logins!Next]_Logins!vars
  PROVE  LoginInv'
<1>t. /\ \A f \in Flow : driver[f] \in DriverType /\ (flow[f] = Logins!NoFlow \/ flow[f] \in FlowType)
      /\ \A i \in Person : source[i] \in Flow \cup {Logins!Absent}
      /\ Logins!Absent \notin Flow /\ Logins!Absent \notin Logins!Owner
  BY DEF LoginInv, LoginTypes, Logins!LoginAssumption
\* A driver that goes on with its flow as it is.
<1>d. ASSUME NEW f \in Flow, NEW x \in DriverType, driver' = [driver EXCEPT ![f] = x],
             driver[f].pc # "none", x.pc \in {"terms", "pool", "succeeded"} => x.identity \in Person,
             UNCHANGED <<holder, source, flow>>
      PROVE  LoginInv'
  BY <1>d DEF LoginInv, LoginTypes, Driven, SourcesOwned
\* A flow that moves on keeps its owner.
<1>f. ASSUME NEW f \in Flow, NEW y \in FlowType, NEW x \in DriverType, flow[f] # Logins!NoFlow,
             flow' = [flow EXCEPT ![f] = y], driver' = [driver EXCEPT ![f] = x], y.owner = flow[f].owner,
             x.pc # "none" => y.state \in {"awaiting", "exchanging"},
             x.pc \notin {"terms", "pool", "succeeded"}, UNCHANGED <<holder, source>>
      PROVE  LoginInv'
  <2>1. /\ flow'[f] = y /\ \A g \in Flow \ {f} : flow'[g] = flow[g]
        /\ driver'[f] = x /\ \A g \in Flow \ {f} : driver'[g] = driver[g]
    BY <1>f DEF LoginInv, LoginTypes
  <2>2. y # Logins!NoFlow
    BY DEF FlowType, Logins!NoFlow
  <2>3. LoginTypes'
    BY <1>f DEF LoginInv, LoginTypes
  <2>4. Driven'
    BY <1>f, <2>1, <2>2 DEF LoginInv, Driven
  <2>5. SourcesOwned'
    BY <1>f, <1>t, <2>1, <2>2 DEF LoginInv, SourcesOwned
  <2> QED
    BY <2>3, <2>4, <2>5 DEF LoginInv
<1>1. ASSUME NEW f \in Flow, NEW owner \in Logins!Owner, Logins!Start(f, owner)
      PROVE  LoginInv'
  <2> DEFINE y == [state |-> "awaiting", owner |-> owner, account |-> Logins!Absent]
  <2>1. PICK listens \in BOOLEAN :
          driver' = [driver EXCEPT ![f] = [Logins!Idle EXCEPT !.pc = "wait", !.listens = listens]]
    BY <1>1 DEF Logins!Start, Logins!Started
  <2> DEFINE x == [Logins!Idle EXCEPT !.pc = "wait", !.listens = listens]
  <2>2. x \in DriverType /\ x.pc = "wait" /\ driver' = [driver EXCEPT ![f] = x]
    BY <2>1 DEF DriverType, Logins!Idle
  <2>3. y \in FlowType /\ y.state = "awaiting" /\ flow' = [flow EXCEPT ![f] = y]
        /\ flow[f] = Logins!NoFlow /\ UNCHANGED <<holder, source>>
    BY <1>1 DEF FlowType, Logins!Start, Logins!Started, Logins!pool
  <2> HIDE DEF x, y
  <2>4. /\ flow'[f] = y /\ \A g \in Flow \ {f} : flow'[g] = flow[g]
        /\ driver'[f] = x /\ \A g \in Flow \ {f} : driver'[g] = driver[g]
        /\ y # Logins!NoFlow
    BY <2>2, <2>3 DEF LoginInv, LoginTypes, FlowType, Logins!NoFlow
  <2>5. LoginTypes'
    BY <2>2, <2>3 DEF LoginInv, LoginTypes
  <2>6. Driven'
    BY <2>2, <2>3, <2>4 DEF LoginInv, Driven
  <2>7. SourcesOwned'
    BY <1>t, <2>3, <2>4 DEF LoginInv, SourcesOwned
  <2> QED
    BY <2>5, <2>6, <2>7 DEF LoginInv
<1>2. ASSUME NEW f \in Flow, Logins!Submit(f) \/ Logins!Cancel(f) \/ Logins!Browser(f) \/ Logins!TimePasses(f)
      PROVE  LoginInv'
  <2>1. UNCHANGED <<holder, source, flow, driver>>
    BY <1>2 DEF Logins!Submit, Logins!Cancel, Logins!Send, Logins!Browser, Logins!TimePasses, Logins!pool
  <2> QED
    BY <2>1 DEF LoginInv, LoginTypes, Driven, SourcesOwned
<1>3. ASSUME NEW f \in Flow, Logins!Sweep(f)
      PROVE  LoginInv'
  <2>1. /\ flow[f].state \in {"succeeded", "failed", "cancelled"} /\ UNCHANGED <<holder, driver>>
        /\ flow' = [flow EXCEPT ![f] = Logins!NoFlow]
        /\ source' = [i \in Person |-> IF source[i] = f THEN Logins!Absent ELSE source[i]]
    BY <1>3 DEF Logins!Sweep, Logins!Ended
  <2>2. /\ flow'[f] = Logins!NoFlow /\ \A g \in Flow \ {f} : flow'[g] = flow[g]
    BY <2>1 DEF LoginInv, LoginTypes
  <2>3. LoginTypes'
    BY <1>t, <2>1 DEF LoginInv, LoginTypes
  <2>4. Driven'
    BY <2>1, <2>2 DEF LoginInv, Driven
  <2>5. SourcesOwned'
    BY <1>t, <2>1, <2>2 DEF LoginInv, SourcesOwned
  <2> QED
    BY <2>3, <2>4, <2>5 DEF LoginInv
\* What a paste or a callback does to the driver.
<1>k. ASSUME NEW f \in Flow, NEW paste, Logins!Takes(f, paste) \/ Logins!Leaves(f, "failed"),
             driver[f].pc # "none", UNCHANGED <<holder, source, flow>>
      PROVE  LoginInv'
  <2>1. \/ \E pc \in {"took", "failed", "cancelled"} : driver' = [driver EXCEPT ![f] = [Logins!Idle EXCEPT !.pc = pc]]
        \/ driver' = [driver EXCEPT ![f].pc = "wait"]
    BY <1>k DEF Logins!Takes, Logins!Leaves, Logins!Goto
  <2>2. ASSUME NEW pc \in {"took", "failed", "cancelled"}
        PROVE  [Logins!Idle EXCEPT !.pc = pc] \in DriverType /\ [Logins!Idle EXCEPT !.pc = pc].pc = pc
    BY DEF DriverType, Logins!Idle
  <2>3. ASSUME NEW pc \in {"took", "failed", "cancelled"}, driver' = [driver EXCEPT ![f] = [Logins!Idle EXCEPT !.pc = pc]]
        PROVE  LoginInv'
    <3> DEFINE x == [Logins!Idle EXCEPT !.pc = pc]
    <3>1. x \in DriverType /\ x.pc = pc /\ driver' = [driver EXCEPT ![f] = x]
      BY <2>2, <2>3
    <3> HIDE DEF x
    <3> QED
      BY <1>d, <1>k, <3>1
  <2>4. CASE driver' = [driver EXCEPT ![f].pc = "wait"]
    <3> DEFINE x == [driver[f] EXCEPT !.pc = "wait"]
    <3>1. x \in DriverType /\ x.pc = "wait" /\ driver' = [driver EXCEPT ![f] = x]
      BY <1>t, <2>4 DEF DriverType
    <3> HIDE DEF x
    <3> QED
      BY <1>d, <1>k, <3>1
  <2> QED
    BY <2>1, <2>3, <2>4
<1>4. ASSUME NEW f \in Flow, Logins!Receive(f) \/ Logins!AnswerCallback(f) \/ Logins!Expires(f)
      PROVE  LoginInv'
  <2>1. /\ driver[f].pc # "none" /\ UNCHANGED <<holder, source, flow>>
        /\ (\E paste : Logins!Takes(f, paste)) \/ Logins!Leaves(f, "failed")
    BY <1>4 DEF Logins!Receive, Logins!AnswerCallback, Logins!Expires, Logins!Drives, Logins!pool
  <2> QED
    BY <1>k, <2>1
\* A driver that moves on with what it knows.
<1>g. ASSUME NEW f \in Flow, NEW pc \in {"answer", "exchange", "failed"}, driver[f].pc # "none",
             Logins!Goto(f, pc), UNCHANGED <<holder, source, flow>>
      PROVE  LoginInv'
  <2> DEFINE x == [driver[f] EXCEPT !.pc = pc]
  <2>1. x \in DriverType /\ x.pc = pc /\ driver' = [driver EXCEPT ![f] = x]
    BY <1>t, <1>g DEF DriverType, Logins!Goto
  <2> HIDE DEF x
  <2> QED
    BY <1>d, <1>g, <2>1
<1>5. ASSUME NEW f \in Flow, Logins!Accept(f)
      PROVE  LoginInv'
  <2>1. driver[f].pc # "none" /\ Logins!Goto(f, "answer") /\ UNCHANGED <<holder, source, flow>>
    BY <1>5 DEF Logins!Accept, Logins!Drives, Logins!pool
  <2> QED
    BY <1>g, <2>1
<1>6. ASSUME NEW f \in Flow, Logins!Exchanging(f)
      PROVE  LoginInv'
  <2> DEFINE x == [driver[f] EXCEPT !.pc = "exchange"]
             y == [flow[f] EXCEPT !.state = "exchanging"]
  <2>1. /\ driver' = [driver EXCEPT ![f] = x] /\ flow' = [flow EXCEPT ![f] = y]
        /\ driver[f].pc = "took" /\ UNCHANGED <<holder, source>>
    BY <1>6 DEF Logins!Exchanging, Logins!Drives, Logins!Goto, Logins!pool
  <2>2. flow[f] # Logins!NoFlow /\ flow[f] \in FlowType
    BY <1>t, <2>1 DEF LoginInv, Driven
  <2>3. x \in DriverType /\ x.pc = "exchange"
    BY <1>t DEF DriverType
  <2>4. y \in FlowType /\ y.state = "exchanging" /\ y.owner = flow[f].owner
    BY <2>2 DEF FlowType
  <2> HIDE DEF x, y
  <2> QED
    BY <1>f, <2>1, <2>2, <2>3, <2>4
<1>7. ASSUME NEW f \in Flow, Logins!Exchanged(f)
      PROVE  LoginInv'
  <2>1. driver[f].pc # "none" /\ UNCHANGED <<holder, source, flow>>
    BY <1>7 DEF Logins!Exchanged, Logins!Drives, Logins!pool
  <2>2. ASSUME NEW i \in Person, driver' = [driver EXCEPT ![f].pc = "terms", ![f].identity = i]
        PROVE  LoginInv'
    <3> DEFINE x == [driver[f] EXCEPT !.pc = "terms", !.identity = i]
    <3>1. x \in DriverType /\ x.identity \in Person /\ driver' = [driver EXCEPT ![f] = x]
      BY <1>t, <2>2 DEF DriverType
    <3> HIDE DEF x
    <3> QED
      BY <1>d, <2>1, <3>1
  <2>3. CASE Logins!Goto(f, "failed")
    BY <1>g, <2>1, <2>3
  <2> QED
    BY <1>7, <2>2, <2>3 DEF Logins!Exchanged
<1>8. ASSUME NEW f \in Flow, Logins!ReadTerms(f)
      PROVE  LoginInv'
  <2> DEFINE may == flow[f].owner = Operator \/ flow[f].owner \in adds
             x == [driver[f] EXCEPT !.pc = "pool", !.adds = may]
  <2>1. may \in BOOLEAN
    OBVIOUS
  <2>2. driver[f].pc = "terms" /\ driver' = [driver EXCEPT ![f] = x] /\ UNCHANGED <<holder, source, flow>>
    BY <1>8 DEF Logins!ReadTerms, Logins!Drives, Logins!pool
  <2> HIDE DEF may
  <2>3. driver[f].identity \in Person
    BY <2>2 DEF LoginInv, Driven
  <2>4. x \in DriverType /\ x.identity \in Person
    BY <1>t, <2>1, <2>3 DEF DriverType
  <2> HIDE DEF x
  <2> QED
    BY <1>d, <2>2, <2>4
<1>9. ASSUME NEW f \in Flow, Logins!MutatePool(f)
      PROVE  LoginInv'
  <2> DEFINE i == driver[f].identity
  <2>1. driver[f].pc = "pool" /\ UNCHANGED flow
    BY <1>9 DEF Logins!MutatePool, Logins!Drives
  <2>2. i \in Person /\ flow[f] # Logins!NoFlow /\ flow[f] \in FlowType
    BY <1>t, <2>1 DEF LoginInv, Driven
  <2>3. CASE /\ Logins!Accepts(f, i) /\ holder' = [holder EXCEPT ![i] = Logins!HolderAfter(f, i)]
             /\ source' = [source EXCEPT ![i] = f] /\ Logins!Goto(f, "succeeded")
    <3> DEFINE x == [driver[f] EXCEPT !.pc = "succeeded"]
    <3>1. x \in DriverType /\ x.identity = i /\ driver' = [driver EXCEPT ![f] = x]
      BY <1>t, <2>3 DEF DriverType, Logins!Goto
    <3>2. /\ Logins!HolderAfter(f, i) \in Logins!Owner
          /\ flow[f].owner \in {Logins!HolderAfter(f, i), Operator}
      BY <2>2, <2>3 DEF Logins!HolderAfter, Logins!Accepts, LoginInv, LoginTypes, FlowType
    <3> HIDE DEF x, i
    <3>3. LoginTypes'
      BY <2>1, <2>3, <3>1, <3>2 DEF LoginInv, LoginTypes
    <3>4. Driven'
      BY <2>1, <2>2, <3>1 DEF LoginInv, LoginTypes, Driven
    <3>5. SourcesOwned'
      <4>1. /\ source'[i] = f /\ holder'[i] = Logins!HolderAfter(f, i)
            /\ \A j \in Person \ {i} : source'[j] = source[j] /\ holder'[j] = holder[j]
        BY <2>2, <2>3 DEF LoginInv, LoginTypes
      <4> QED
        BY <1>t, <2>1, <2>2, <3>2, <4>1 DEF LoginInv, SourcesOwned
    <3> QED
      BY <3>3, <3>4, <3>5 DEF LoginInv
  <2>4. CASE Logins!Goto(f, "failed") /\ UNCHANGED <<holder, source>>
    BY <1>g, <2>1, <2>4
  <2> QED
    BY <1>9, <2>3, <2>4 DEF Logins!MutatePool, Logins!pool
<1>10. ASSUME NEW f \in Flow, Logins!Ends(f)
       PROVE  LoginInv'
  <2> DEFINE account == IF Logins!Drives(f, "succeeded") THEN driver[f].identity ELSE Logins!Absent
             y == [flow[f] EXCEPT !.state = driver[f].pc, !.account = account]
  <2>1. /\ driver[f].pc \in {"succeeded", "failed", "cancelled"} /\ UNCHANGED <<holder, source>>
        /\ flow' = [flow EXCEPT ![f] = y] /\ driver' = [driver EXCEPT ![f] = Logins!Idle]
    BY <1>10 DEF Logins!Ends, Logins!Finish, Logins!pool
  <2>2. flow[f] # Logins!NoFlow /\ flow[f] \in FlowType /\ account \in Person \cup {Logins!Absent}
    BY <1>t, <2>1 DEF LoginInv, Driven, Logins!Drives, DriverType
  <2> HIDE DEF account
  <2>3. y \in FlowType /\ y.owner = flow[f].owner
    BY <2>1, <2>2 DEF FlowType
  <2>4. Logins!Idle \in DriverType /\ Logins!Idle.pc = "none"
    BY DEF DriverType, Logins!Idle
  <2> HIDE DEF y
  <2> QED
    BY <1>f, <2>1, <2>2, <2>3, <2>4
<1>11. ASSUME NEW i \in Person, Logins!RemoveAccount(i)
       PROVE  LoginInv'
  <2>1. /\ holder' = [holder EXCEPT ![i] = Logins!Absent] /\ source' = [source EXCEPT ![i] = Logins!Absent]
        /\ UNCHANGED <<flow, driver>>
    BY <1>11 DEF Logins!RemoveAccount
  <2> QED
    BY <2>1 DEF LoginInv, LoginTypes, Driven, SourcesOwned
<1>12. CASE (\E c \in Client : Logins!Reissue(c)) \/ UNCHANGED Logins!vars
  <2>1. UNCHANGED <<holder, source, flow, driver>>
    BY <1>12 DEF Logins!Reissue, Logins!vars, Logins!pool
  <2> QED
    BY <2>1 DEF LoginInv, LoginTypes, Driven, SourcesOwned
<1> QED
  BY <1>1, <1>2, <1>3, <1>4, <1>5, <1>6, <1>7, <1>8, <1>9, <1>10, <1>11, <1>12
     DEF Logins!Next, Logins!DriverStep

\* The inductive invariant of the logins: a driver's flow has not ended, and a
\* token family in the pool that a flow brought is of an account whose owner, or
\* the operator, started that flow.
THEOREM LoginsCoherent ==
  ASSUME Logins!LoginAssumption
  PROVE  Logins!Spec => []LoginInv
BY LoginInit, LoginSteps, PTL DEF Logins!Spec

\* A step that changes who holds an account, or whose token family it has.
LEMMA OwnersMove ==
  ASSUME LoginInv, [Logins!Next]_Logins!vars
  PROVE  Logins!OwnersStep
<1>1. CASE UNCHANGED <<holder, source>>
  BY <1>1 DEF Logins!OwnersStep
<1>2. ASSUME NEW f \in Flow, Logins!Sweep(f)
      PROVE  Logins!OwnersStep
  BY <1>2 DEF Logins!Sweep, Logins!OwnersStep
<1>3. ASSUME NEW i \in Person, Logins!RemoveAccount(i)
      PROVE  Logins!OwnersStep
  BY <1>3 DEF Logins!RemoveAccount, Logins!OwnersStep, LoginInv, LoginTypes
<1>4. ASSUME NEW f \in Flow, Logins!MutatePool(f)
      PROVE  Logins!OwnersStep
  <2> DEFINE i == driver[f].identity
  <2>1. CASE /\ Logins!Accepts(f, i) /\ holder' = [holder EXCEPT ![i] = Logins!HolderAfter(f, i)]
             /\ source' = [source EXCEPT ![i] = f]
    <3> HIDE DEF i
    <3>1. ASSUME NEW j \in Person
          PROVE  /\ holder[j] # Logins!Absent => holder'[j] = holder[j]
                 /\ source'[j] # source[j] =>
                      j = i /\ source'[j] = f /\ holder'[j] = Logins!HolderAfter(f, i)
      BY <2>1 DEF LoginInv, LoginTypes, Logins!HolderAfter
    <3>2. flow[f].owner \in {Logins!HolderAfter(f, i), Operator}
      BY <2>1 DEF Logins!HolderAfter, Logins!Accepts
    <3> QED
      BY <3>1, <3>2 DEF Logins!OwnersStep
  <2>2. CASE UNCHANGED <<holder, source>>
    BY <1>1, <2>2
  <2> QED
    BY <1>4, <2>1, <2>2 DEF Logins!MutatePool, Logins!pool
<1> QED
  BY <1>1, <1>2, <1>3, <1>4 DEF Logins!Next, Logins!DriverStep, Logins!vars, Logins!pool, Logins!Start,
     Logins!Started, Logins!Submit, Logins!Cancel, Logins!Send, Logins!Accept, Logins!Browser,
     Logins!TimePasses, Logins!Receive, Logins!AnswerCallback, Logins!Expires, Logins!Exchanging,
     Logins!Exchanged, Logins!ReadTerms, Logins!Ends, Logins!Reissue

\* A behaviour of the logins is one of Login.
LEMMA LoginPart ==
  /\ ServerSpec /\ part = "login" => Logins!Spec
  /\ ServerSpec /\ ~(part = "login") => []~(part = "login")
<1>1. ServerInit /\ part = "login" => Logins!Init
  BY DEF ServerInit
<1>2. part = "login" /\ [ServerNext]_serverVars => (part = "login")' /\ [Logins!Next]_(Logins!vars)
  BY DEF ServerNext, serverVars, loginVars, Logins!vars, Logins!pool, Logins!registry
<1>3. ~(part = "login") /\ [ServerNext]_serverVars => ~(part = "login")'
  BY DEF ServerNext, serverVars
<1> QED
  BY <1>1, <1>2, <1>3, PTL DEF ServerSpec, Logins!Spec

\* OwnersKept, for any flows, clients and identities: an account never changes
\* hands, and a client's login reaches no other owner's account, whatever is
\* removed, invited or swept between the check of the terms and the change.
THEOREM OwnersStay == ASSUME Logins!LoginAssumption PROVE ServerSpec => OwnersKept
<1>1. part = "login" /\ LoginInv /\ [ServerNext]_serverVars
        => [part = "login" => Logins!OwnersStep]_serverVars
  <2> SUFFICES ASSUME part = "login", LoginInv, ServerNext PROVE Logins!OwnersStep
    OBVIOUS
  <2> QED
    BY OwnersMove DEF ServerNext
<1>2. ~(part = "login") => [part = "login" => Logins!OwnersStep]_serverVars
  OBVIOUS
<1> QED
  BY LoginPart, LoginsCoherent, <1>1, <1>2, PTL DEF ServerSpec, OwnersKept

---------------------------------------------------------------------------
(* Serving: the connections of a server and who is asking on them. *)

ConnType == [kind : {Listeners!None, "base", "proxy", "tunnel"},
             pc : {"none", "handshake", "open", "busy", "connect", "dial", "forward", "tls", "relay"},
             secret : Secret \cup {Listeners!None}]

\* A connection is where its kind can be.
Placed(x) ==
  /\ x.kind = Listeners!None <=> x.pc = "none"
  /\ x.kind = "base" => x.pc \in {"handshake", "open", "busy"}
  /\ x.kind = "proxy" => x.pc \in {"connect", "dial", "forward"}
  /\ x.kind = "tunnel" => x.pc \in {"tls", "open", "busy", "relay"}

\* The proxy listener's count is that of its connection tasks: an upgrade to a
\* tunnel, a refusal and a close each take one off, and only one.
Tasks == {c \in Conn : conn[c].kind = "proxy"}
LiveExact == IsFiniteSet(Tasks) /\ live = Cardinality(Tasks)

ServingInv ==
  /\ conn \in [Conn -> ConnType] /\ \A c \in Conn : Placed(conn[c])
  /\ LiveExact

LEMMA ServingInit ==
  ASSUME Listeners!Init
  PROVE  ServingInv
<1>1. conn \in [Conn -> ConnType] /\ \A c \in Conn : Placed(conn[c])
  BY DEF Listeners!Init, Listeners!NoConn, Listeners!None, ConnType, Placed
<1>2. Tasks = {} /\ live = 0
  BY DEF Listeners!Init, Listeners!NoConn, Listeners!None, Tasks
<1> QED
  BY <1>1, <1>2, FS_EmptySet DEF ServingInv, LiveExact

\* One connection changes, and the count with it.
LEMMA ConnMove ==
  ASSUME ServingInv, NEW c \in Conn, NEW x \in ConnType, Placed(x), conn' = [conn EXCEPT ![c] = x],
         live' = IF x.kind = "proxy"
                 THEN IF conn[c].kind = "proxy" THEN live ELSE live + 1
                 ELSE IF conn[c].kind = "proxy" THEN live - 1 ELSE live
  PROVE  ServingInv'
<1>1. conn'[c] = x /\ \A d \in Conn \ {c} : conn'[d] = conn[d]
  BY DEF ServingInv
<1>2. conn' \in [Conn -> ConnType] /\ \A d \in Conn : Placed(conn'[d])
  BY <1>1 DEF ServingInv
<1>3. LiveExact'
  <2>1. CASE x.kind = "proxy" /\ conn[c].kind # "proxy"
    <3>1. Tasks' = Tasks \cup {c} /\ c \notin Tasks
      BY <1>1, <2>1 DEF Tasks
    <3> QED
      BY <2>1, <3>1, FS_AddElement DEF ServingInv, LiveExact
  <2>2. CASE x.kind # "proxy" /\ conn[c].kind = "proxy"
    <3>1. Tasks' = Tasks \ {c} /\ c \in Tasks
      BY <1>1, <2>2 DEF Tasks
    <3> QED
      BY <2>2, <3>1, FS_RemoveElement DEF ServingInv, LiveExact
  <2>3. CASE x.kind = "proxy" <=> conn[c].kind = "proxy"
    <3>1. Tasks' = Tasks
      BY <1>1, <2>3 DEF Tasks
    <3> QED
      BY <2>3, <3>1 DEF ServingInv, LiveExact
  <2> QED
    BY <2>1, <2>2, <2>3
<1> QED
  BY <1>2, <1>3 DEF ServingInv, Placed

LEMMA ServingSteps ==
  ASSUME ServingInv, [Listeners!Next]_Listeners!vars
  PROVE  ServingInv'
<1>t. /\ \A c \in Conn : conn[c] \in ConnType /\ Placed(conn[c])
      /\ Listeners!NoConn \in ConnType /\ Placed(Listeners!NoConn)
      /\ Listeners!NoConn.kind # "proxy" /\ Listeners!None \notin {"base", "proxy", "tunnel"}
  BY DEF ServingInv, Listeners!NoConn, Listeners!None, ConnType, Placed
\* A connection ends.
<1>e. ASSUME NEW c \in Conn, conn' = [conn EXCEPT ![c] = Listeners!NoConn],
             live' = IF conn[c].kind = "proxy" THEN live - 1 ELSE live
      PROVE  ServingInv'
  BY <1>e, <1>t, ConnMove
\* A connection goes on as the kind it is.
<1>b. ASSUME NEW c \in Conn, NEW pc \in {"open", "busy", "connect", "dial", "forward"},
             conn[c].kind = "base" => pc \in {"open", "busy"},
             conn[c].kind = "proxy" => pc \in {"connect", "dial", "forward"},
             conn[c].kind = "tunnel" => pc \in {"open", "busy"}, conn[c].kind # Listeners!None,
             \/ conn' = [conn EXCEPT ![c].pc = pc]
             \/ \E s \in Secret : conn' = [conn EXCEPT ![c].pc = pc, ![c].secret = s],
             UNCHANGED live
      PROVE  ServingInv'
  <2>1. ASSUME NEW x \in ConnType, x.pc = pc, x.kind = conn[c].kind, conn' = [conn EXCEPT ![c] = x]
        PROVE  ServingInv'
    <3>1. Placed(x)
      BY <1>b, <2>1 DEF Placed, ConnType
    <3> QED
      BY <1>b, <2>1, <3>1, ConnMove
  <2>2. CASE conn' = [conn EXCEPT ![c].pc = pc]
    <3> DEFINE x == [conn[c] EXCEPT !.pc = pc]
    <3>1. x \in ConnType /\ x.pc = pc /\ x.kind = conn[c].kind /\ conn' = [conn EXCEPT ![c] = x]
      BY <1>t, <2>2 DEF ConnType
    <3> HIDE DEF x
    <3> QED
      BY <2>1, <3>1
  <2>3. ASSUME NEW s \in Secret, conn' = [conn EXCEPT ![c].pc = pc, ![c].secret = s]
        PROVE  ServingInv'
    <3> DEFINE x == [conn[c] EXCEPT !.pc = pc, !.secret = s]
    <3>1. x \in ConnType /\ x.pc = pc /\ x.kind = conn[c].kind /\ conn' = [conn EXCEPT ![c] = x]
      BY <1>t, <2>3 DEF ConnType
    <3> HIDE DEF x
    <3> QED
      BY <2>1, <3>1
  <2> QED
    BY <1>b, <2>2, <2>3
\* A proxy connection's task ends, with an upgrade or without.
<1>u. ASSUME NEW c \in Conn, NEW s \in Secret \cup {Listeners!None}, conn[c].kind = "proxy",
             Listeners!Upgraded(c, "tls", s) \/ Listeners!Upgraded(c, "relay", s) \/ Listeners!Refused(c)
      PROVE  ServingInv'
  <2>1. ASSUME NEW pc \in {"tls", "relay"}, Listeners!Upgraded(c, pc, s)
        PROVE  ServingInv'
    <3> DEFINE x == [kind |-> "tunnel", pc |-> pc, secret |-> s]
    <3>1. x \in ConnType /\ Placed(x) /\ x.kind = "tunnel"
      BY DEF ConnType, Placed, Listeners!None
    <3>2. conn' = [conn EXCEPT ![c] = x] /\ live' = live - 1
      BY <2>1 DEF Listeners!Upgraded
    <3> HIDE DEF x
    <3> QED
      BY <1>u, <3>1, <3>2, ConnMove
  <2>2. CASE Listeners!Refused(c)
    BY <1>e, <1>u, <2>2 DEF Listeners!Refused
  <2> QED
    BY <1>u, <2>1, <2>2
<1>1. CASE UNCHANGED <<conn, live>>
  BY <1>1 DEF ServingInv, LiveExact, Tasks
<1>2. CASE Listeners!StopServing
  <2>1. /\ UNCHANGED live /\ conn' = [c \in Conn |-> conn'[c]]
        /\ \A c \in Conn : conn'[c] = conn[c] \/ (conn'[c] = Listeners!NoConn /\ conn[c].kind = "base")
    BY <1>2 DEF Listeners!StopServing
  <2>2. conn' \in [Conn -> ConnType] /\ \A c \in Conn : Placed(conn'[c])
    BY <1>t, <2>1
  <2>3. Tasks' = Tasks
    BY <1>t, <2>1 DEF Tasks
  <2> QED
    BY <2>1, <2>2, <2>3 DEF ServingInv, LiveExact, Placed
<1>3. CASE Listeners!Exit
  <2>1. live' = 0 /\ conn' = [c \in Conn |-> Listeners!NoConn]
    BY <1>3 DEF Listeners!Exit, Listeners!Left
  <2>2. Tasks' = {}
    BY <1>t, <2>1 DEF Tasks
  <2>3. LiveExact'
    BY <2>1, <2>2, FS_EmptySet DEF LiveExact
  <2> QED
    BY <1>t, <2>1, <2>3 DEF ServingInv, Placed
<1>4. ASSUME NEW c \in Conn, NEW kind \in {"base", "proxy"}, NEW pc \in {"handshake", "connect"},
             kind = "base" <=> pc = "handshake", conn[c].pc = "none",
             conn' = [conn EXCEPT ![c] = [Listeners!NoConn EXCEPT !.kind = kind, !.pc = pc]],
             live' = IF kind = "proxy" THEN live + 1 ELSE live
      PROVE  ServingInv'
  <2> DEFINE x == [Listeners!NoConn EXCEPT !.kind = kind, !.pc = pc]
  <2>1. x \in ConnType /\ Placed(x) /\ x.kind = kind
    BY <1>4 DEF ConnType, Placed, Listeners!NoConn, Listeners!None
  <2>2. conn[c].kind # "proxy"
    BY <1>4, <1>t DEF Placed
  <2>3. conn' = [conn EXCEPT ![c] = x]
    BY <1>4
  <2> HIDE DEF x
  <2> QED
    BY <1>4, <2>1, <2>2, <2>3, ConnMove
<1>5. ASSUME NEW c \in Conn, Listeners!Accept(c) \/ Listeners!AcceptProxy(c)
      PROVE  ServingInv'
  BY <1>4, <1>5 DEF Listeners!Accept, Listeners!AcceptProxy, Listeners!At
<1>6. ASSUME NEW c \in Conn, Listeners!Handshaken(c)
      PROVE  ServingInv'
  <2>1. conn[c].kind = "base" /\ UNCHANGED live
    BY <1>6 DEF Listeners!Handshaken
  <2>2. CASE conn' = [conn EXCEPT ![c] = Listeners!NoConn]
    BY <1>e, <2>1, <2>2
  <2>3. CASE conn' = [conn EXCEPT ![c].pc = "open"]
    BY <1>b, <1>t, <2>1, <2>3
  <2> QED
    BY <1>6, <2>2, <2>3 DEF Listeners!Handshaken, Listeners!Becomes
<1>7. ASSUME NEW c \in Conn, NEW s \in Secret, Listeners!Dispatch(c, s)
      PROVE  ServingInv'
  <2>1. conn[c].kind = "base" /\ UNCHANGED live /\ conn' = [conn EXCEPT ![c].pc = "busy", ![c].secret = s]
    BY <1>7 DEF Listeners!Dispatch
  <2> QED
    BY <1>b, <1>t, <2>1
<1>8. ASSUME NEW c \in Conn, Listeners!Answer(c)
      PROVE  ServingInv'
  <2>1. conn[c].kind \in {"base", "tunnel"} /\ UNCHANGED live
    BY <1>8, <1>t DEF Listeners!Answer, Listeners!At, Placed, ConnType
  <2>2. \/ conn' = [conn EXCEPT ![c] = Listeners!NoConn]
        \/ conn' = [conn EXCEPT ![c].pc = "open"]
    BY <1>8 DEF Listeners!Answer
  <2>3. CASE conn' = [conn EXCEPT ![c] = Listeners!NoConn]
    BY <1>e, <2>1, <2>3
  <2>4. CASE conn' = [conn EXCEPT ![c].pc = "open"]
    BY <1>b, <1>t, <2>1, <2>4
  <2> QED
    BY <2>2, <2>3, <2>4
<1>9. ASSUME NEW c \in Conn, NEW s \in Secret, NEW target, Listeners!Connect(c, s, target)
      PROVE  ServingInv'
  <2>1. conn[c].kind = "proxy"
    BY <1>9 DEF Listeners!Connect
  <2>2. CASE UNCHANGED live /\ conn' = [conn EXCEPT ![c].pc = "dial", ![c].secret = s]
    BY <1>b, <1>t, <2>1, <2>2
  <2>3. CASE Listeners!Upgraded(c, "tls", s) \/ Listeners!Refused(c)
    BY <1>u, <2>1, <2>3
  <2> QED
    BY <1>9, <2>2, <2>3 DEF Listeners!Connect, Listeners!Intercepted
<1>10. ASSUME NEW c \in Conn, Listeners!Dialled(c)
       PROVE  ServingInv'
  <2>1. conn[c].kind = "proxy" /\ conn[c].secret \in Secret \cup {Listeners!None}
    BY <1>10, <1>t DEF Listeners!Dialled, Listeners!At, Placed, ConnType
  <2> QED
    BY <1>10, <1>u, <2>1 DEF Listeners!Dialled
<1>11. ASSUME NEW c \in Conn, (\E s \in Secret : Listeners!Forward(c, s)) \/ Listeners!Forwarded(c)
       PROVE  ServingInv'
  <2>1. conn[c].kind = "proxy" /\ UNCHANGED live
        /\ \E pc \in {"connect", "forward"} : conn' = [conn EXCEPT ![c].pc = pc]
    BY <1>11, <1>t DEF Listeners!Forward, Listeners!Forwarded, Listeners!Becomes, Listeners!At, Placed, ConnType
  <2> QED
    BY <1>b, <1>t, <2>1
<1>12. ASSUME NEW c \in Conn, Listeners!TunnelSecured(c) \/ Listeners!TunnelRequest(c)
       PROVE  ServingInv'
  <2>1. conn[c].kind = "tunnel" /\ UNCHANGED live
        /\ \E pc \in {"open", "busy"} : conn' = [conn EXCEPT ![c].pc = pc]
    BY <1>12 DEF Listeners!TunnelSecured, Listeners!TunnelRequest, Listeners!Becomes
  <2> QED
    BY <1>b, <1>t, <2>1
<1>13. ASSUME NEW c \in Conn, Listeners!Close(c)
       PROVE  ServingInv'
  BY <1>e, <1>13 DEF Listeners!Close
<1> QED
  BY <1>1, <1>2, <1>3, <1>5, <1>6, <1>7, <1>8, <1>9, <1>10, <1>11, <1>12, <1>13
     DEF Listeners!Next, Listeners!vars, Listeners!SpawnTasks, Listeners!MainServes, Listeners!ProxyServes,
         Listeners!RequestStop, Listeners!DrainRunsOut, Listeners!ProxyStops, Listeners!ProxyDrained,
         Listeners!Revoke

\* An exchange begins only in a request of a listener, or of a tunnel, that
\* found the secret valid and no stop.
LEMMA Revocation ==
  ASSUME ServingInv, [Listeners!Next]_Listeners!vars
  PROVE  Listeners!RevocationStep
<1>1. SUFFICES ASSUME NEW c \in Conn, conn[c].pc # "busy", conn'[c].pc = "busy"
               PROVE  conn'[c].secret \in valid /\ ~Listeners!Stopping
  BY DEF Listeners!RevocationStep
<1>2. PICK d \in Conn :
        \/ \E s \in Secret : Listeners!Dispatch(d, s)
        \/ Listeners!TunnelRequest(d)
  <2>t. Listeners!NoConn.pc # "busy" /\ conn \in [Conn -> ConnType] /\ \A k \in Conn : conn[k] \in ConnType
    BY DEF Listeners!NoConn, ServingInv
  <2>1. ASSUME NEW k \in Conn, NEW x, x.pc # "busy", conn' = [conn EXCEPT ![k] = x]
        PROVE  FALSE
    BY <1>1, <2>t, <2>1
  <2>2. ASSUME NEW k \in Conn, NEW pc, pc # "busy",
               conn' = [conn EXCEPT ![k].pc = pc] \/ \E s : conn' = [conn EXCEPT ![k].pc = pc, ![k].secret = s]
        PROVE  FALSE
    BY <1>1, <2>t, <2>2 DEF ConnType
  <2>3. ~UNCHANGED conn
    BY <1>1
  <2>4. ~Listeners!StopServing /\ ~Listeners!Exit
    BY <1>1, <2>t DEF Listeners!StopServing, Listeners!Exit, Listeners!Left
  <2>5. ASSUME NEW k \in Conn
        PROVE  /\ ~Listeners!Accept(k) /\ ~Listeners!AcceptProxy(k) /\ ~Listeners!Close(k)
               /\ ~Listeners!Dialled(k) /\ \A s \in Secret : \A target : ~Listeners!Connect(k, s, target)
    <3>1. ASSUME NEW kind, NEW pc, pc # "busy"
          PROVE  conn' # [conn EXCEPT ![k] = [Listeners!NoConn EXCEPT !.kind = kind, !.pc = pc]]
      BY <2>1, <3>1 DEF Listeners!NoConn
    <3>2. conn' # [conn EXCEPT ![k] = Listeners!NoConn]
      BY <2>1, <2>t
    <3>3. ASSUME NEW pc, pc # "busy", NEW s
          PROVE  ~Listeners!Upgraded(k, pc, s) /\ ~Listeners!Refused(k)
                 /\ conn' # [conn EXCEPT ![k].pc = pc, ![k].secret = s]
      BY <2>1, <2>2, <3>2, <3>3 DEF Listeners!Upgraded, Listeners!Refused
    <3> QED
      BY <3>1, <3>2, <3>3 DEF Listeners!Accept, Listeners!AcceptProxy, Listeners!Close, Listeners!Dialled,
         Listeners!Connect, Listeners!Intercepted
  <2>6. ASSUME NEW k \in Conn
        PROVE  /\ ~Listeners!Handshaken(k) /\ ~Listeners!Answer(k) /\ ~Listeners!Forwarded(k)
               /\ ~Listeners!TunnelSecured(k) /\ \A s \in Secret : ~Listeners!Forward(k, s)
    <3>1. conn' # [conn EXCEPT ![k] = Listeners!NoConn]
      BY <2>1, <2>t
    <3>2. \A pc \in {"open", "connect", "forward"} : conn' # [conn EXCEPT ![k].pc = pc]
      BY <2>2
    <3> QED
      BY <3>1, <3>2 DEF Listeners!Handshaken, Listeners!Answer, Listeners!Forwarded, Listeners!TunnelSecured,
         Listeners!Forward, Listeners!Becomes
  <2> QED
    BY <2>3, <2>4, <2>5, <2>6
       DEF Listeners!Next, Listeners!vars, Listeners!SpawnTasks, Listeners!MainServes, Listeners!ProxyServes,
           Listeners!RequestStop, Listeners!DrainRunsOut, Listeners!ProxyStops, Listeners!ProxyDrained,
           Listeners!Revoke
<1>3. CASE \E s \in Secret : Listeners!Dispatch(d, s)
  <2>1. PICK s \in Secret : Listeners!Dispatch(d, s)
    BY <1>3
  <2>2. conn' = [conn EXCEPT ![d].pc = "busy", ![d].secret = s] /\ s \in valid /\ ~Listeners!Stopping
    BY <2>1 DEF Listeners!Dispatch, Listeners!Authorized
  <2>3. c = d /\ conn'[d].secret = s
    BY <1>1, <2>2 DEF ServingInv, ConnType
  <2> QED
    BY <2>2, <2>3
<1>4. CASE Listeners!TunnelRequest(d)
  <2>1. conn' = [conn EXCEPT ![d].pc = "busy"] /\ conn[d].secret \in valid /\ ~Listeners!Stopping
    BY <1>4 DEF Listeners!TunnelRequest, Listeners!PrincipalNow, Listeners!Becomes
  <2>2. c = d /\ conn'[d].secret = conn[d].secret
    BY <1>1, <2>1 DEF ServingInv, ConnType
  <2> QED
    BY <2>1, <2>2
<1> QED
  BY <1>2, <1>3, <1>4

\* The inductive invariant of the connections: each is where its kind can be, and
\* the proxy's count of connection tasks is exact, whichever way a task ends.
THEOREM ConnectionsCoherent == Listeners!Spec => []ServingInv
BY ServingInit, ServingSteps, PTL DEF Listeners!Spec

\* A behaviour of the listeners is one of Serving.
LEMMA ServingPart ==
  /\ ServerSpec /\ part = "serving" => Listeners!Spec
  /\ ServerSpec /\ ~(part = "serving") => []~(part = "serving")
<1>1. ServerInit /\ part = "serving" => Listeners!Init
  BY DEF ServerInit
<1>2. part = "serving" /\ [ServerNext]_serverVars => (part = "serving")' /\ [Listeners!Next]_(Listeners!vars)
  BY DEF ServerNext, serverVars, servingVars, Listeners!vars
<1>3. ~(part = "serving") /\ [ServerNext]_serverVars => ~(part = "serving")'
  BY DEF ServerNext, serverVars
<1> QED
  BY <1>1, <1>2, <1>3, PTL DEF ServerSpec, Listeners!Spec

\* RevocationLands, for any connections and secrets: a secret revoked begins no
\* exchange, on a connection however old, and none begins once a stop is asked.
THEOREM RevocationsLand == ServerSpec => RevocationLands
<1>1. part = "serving" /\ ServingInv /\ [ServerNext]_serverVars
        => [part = "serving" => Listeners!RevocationStep]_serverVars
  <2> SUFFICES ASSUME part = "serving", ServingInv, ServerNext PROVE Listeners!RevocationStep
    OBVIOUS
  <2> QED
    BY Revocation DEF ServerNext
<1>2. ~(part = "serving") => [part = "serving" => Listeners!RevocationStep]_serverVars
  OBVIOUS
<1> QED
  BY ServingPart, ConnectionsCoherent, <1>1, <1>2, PTL DEF ServerSpec, RevocationLands
=============================================================================
