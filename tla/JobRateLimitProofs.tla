------------------------- MODULE JobRateLimitProofs -------------------------
(***************************************************************************)
(* Proofs about the rate limits of jobs, for any number of overlapping     *)
(* requests, any limits and any length of the windows, whatever fails:     *)
(* types, that no more jobs are accepted and not lost to the counters in a *)
(* window than its limit and the overlap allow, and that the memory        *)
(* backend keeps its promise of a time to retry.                           *)
(***************************************************************************)
EXTENDS JobRateLimit, FiniteSetTheorems, TLAPS

(* The invariants *)

\* The window w that the backend is counting in: the clock's, but for the hour
\* of the memory backend, which begins with the first count after a reset.
From(w) == IF backend = "memory" /\ w = "hour" THEN entry.hourReset - Hour
           ELSE WindowStart(w, now)

\* The jobs accepted in it whose count has not failed.
Accepted(w) ==
  {a \in accepted \ uncounted[w] : From(w) <= a.at /\ a.at < From(w) + Length(w)}

\* How many submissions have been counted in it.
Known(w) ==
  IF backend = "memory" THEN IF w = "hour" THEN entry.hour ELSE Refreshed.day
  ELSE IF limits[w].start = From(w) THEN limits[w].count ELSE 0

\* The requests that have yet to count one of these jobs.
Owing(w) == {r \in Requests : Owes(r, w) /\ \E a \in Accepted(w) : a.nr = job[r]}

\* The requests that have passed the check of w and have not submitted.
Passed(w) ==
  {r \in Requests : \/ pc[r] = "save"
                    \/ w = "day" /\ pc[r] = "thisHour" /\ day[r] < PerDay}

\* No more jobs are accepted in the window than are counted or about to be, and
\* with those that have passed the check they stay within what overlap allows.
WindowSound(w) ==
  /\ Cardinality(Accepted(w)) <= Known(w) + Cardinality(Owing(w))
  /\ Cardinality(Accepted(w)) + Cardinality(Passed(w)) <= Limit(w) + Overlap

WindowsSound == \A w \in Windows : WindowSound(w)

\* Clocks are read before now, and windows are those of a clock.
ClocksSound ==
  /\ \A a \in accepted : a.at <= now /\ a.nr <= Cardinality(accepted)
  /\ \A r \in Requests : at[r] <= now
  /\ \A w \in Windows : limits[w].start <= WindowStart(w, now)
  /\ entry.hourReset <= now + Hour
  /\ entry.dayReset <= WindowStart("day", now) + Day
  /\ WindowStart("day", entry.dayReset) = entry.dayReset

\* In memory requests come one after the other, and what they look at is fresh.
OneAtATime ==
  backend = "memory" =>
    /\ \A r, q \in Requests : pc[r] # "idle" /\ pc[q] # "idle" => r = q
    /\ \A r \in Requests : pc[r] = "save" => now < entry.hourReset
    /\ \A r \in Requests : pc[r] # "recordDay"
    /\ \A a \in accepted \ uncounted["hour"] : a.at < entry.hourReset

\* Two requests do not count the same job, and a job was accepted before the
\* clock was read to count it.
JobsSound ==
  /\ \A a \in accepted : a.nr > 0
  /\ \A r \in Requests : job[r] <= Cardinality(accepted)
  /\ \A r, q \in Requests : job[r] = job[q] /\ job[r] # 0 => r = q
  /\ \A r \in Requests : pc[r] = "recordDay" =>
       \A a \in accepted : a.nr = job[r] => a.at <= at[r]

\* A denial is over when its window is: the count is back to nothing by then.
DenialSound ==
  backend = "memory" =>
    /\ denied.window = "hour" => entry.hourReset <= denied.until \/ entry.hour = 0
    /\ denied.window = "day" => entry.dayReset <= denied.until \/ entry.day = 0

LimitInv ==
  TypeOK /\ ClocksSound /\ OneAtATime /\ JobsSound /\ WindowsSound /\ DenialSound

-----------------------------------------------------------------------------
(* Windows of time *)

LEMMA Constants ==
  /\ IsFiniteSet(Requests)
  /\ PerHour \in Nat /\ PerDay \in Nat /\ LastTick \in Nat
  /\ Hour \in Nat /\ Hour > 0 /\ Day \in Nat /\ Day > 0
  /\ PerHour > 0 /\ PerDay > 0
  /\ \A w \in Windows : Length(w) \in Nat /\ Length(w) > 0
  /\ \A w \in Windows : Limit(w) \in Nat /\ Limit(w) > 0
  /\ \A b \in Backends : b = "memory" \/ b = "postgres"
BY RateLimitAssumption DEF RateLimitAssumption, Length, Limit, Windows

LEMMA Multiple ==
  ASSUME NEW len \in Nat, NEW q \in Int, NEW p \in Int, q < p
  PROVE  q * len + len <= p * len
<1>1. p - q - 1 \in Nat
  OBVIOUS
<1>2. \A a \in Nat : a * len \in Nat
  OBVIOUS
<1>3. (p - q - 1) * len \in Nat
  BY <1>1, <1>2
<1> QED
  BY <1>3

LEMMA Division ==
  ASSUME NEW len \in Nat, len > 0, NEW t \in Nat
  PROVE  t = (t \div len) * len + (t % len) /\ t \div len \in Int /\ t % len \in 0 .. len - 1
OBVIOUS

\* The ticks from the start of the window of t to its end have the same window.
LEMMA SameWindow ==
  ASSUME NEW len \in Nat, len > 0, NEW t \in Nat, NEW u \in Nat,
         t - (t % len) <= u, u < t - (t % len) + len
  PROVE  u - (u % len) = t - (t % len)
<1> DEFINE q == t \div len
           p == u \div len
           a == t % len
           b == u % len
<1>1. /\ q \in Int /\ p \in Int /\ a \in Int /\ b \in Int
      /\ t = q * len + a /\ u = p * len + b /\ 0 <= b /\ b < len
  BY Division
<1>2. t - a <= u /\ u < t - a + len
  OBVIOUS
<1> HIDE DEF q, p, a, b
<1>3. q * len \in Int /\ p * len \in Int
  BY <1>1
<1>4. (q < p => q * len + len <= p * len) /\ (p < q => p * len + len <= q * len)
  BY <1>1, Multiple
<1>5. q = p
  BY <1>1, <1>2, <1>3, <1>4
<1>6. u - b = t - a
  BY <1>1, <1>3, <1>5
<1> QED
  BY <1>6 DEF a, b

\* The windows of a clock follow each other without gap or overlap.
LEMMA WindowFacts ==
  ASSUME NEW w \in Windows, NEW t \in Nat
  PROVE  /\ WindowStart(w, t) \in Nat /\ WindowStart(w, t) <= t
         /\ t < WindowStart(w, t) + Length(w)
         /\ \A u \in Nat : WindowStart(w, t) <= u /\ u < WindowStart(w, t) + Length(w)
                             => WindowStart(w, u) = WindowStart(w, t)
<1> DEFINE len == Length(w)
<1>1. len \in Nat /\ len > 0
  BY Constants
<1> HIDE DEF len
<1>2. t - (t % len) \in Nat /\ t % len \in 0 .. len - 1
  BY <1>1
<1>3. WindowStart(w, t) = t - (t % len) /\ \A u \in Nat : WindowStart(w, u) = u - (u % len)
  BY DEF WindowStart, len
<1>4. \A u \in Nat : t - (t % len) <= u /\ u < t - (t % len) + len
                       => u - (u % len) = t - (t % len)
  BY <1>1, SameWindow
<1>5. t - (t % len) <= t /\ t < t - (t % len) + len
  BY <1>1, <1>2
<1> QED
  BY <1>2, <1>3, <1>4, <1>5 DEF len

LEMMA NextWindow ==
  ASSUME NEW w \in Windows, NEW t \in Nat
  PROVE  /\ \A u \in Nat : t <= u => WindowStart(w, t) <= WindowStart(w, u)
         /\ WindowStart(w, WindowStart(w, t)) = WindowStart(w, t)
         /\ WindowStart(w, WindowStart(w, t) + Length(w)) = WindowStart(w, t) + Length(w)
<1> DEFINE s == WindowStart(w, t)
           len == Length(w)
           v == s + len
<1>1. s \in Nat /\ s <= t /\ t < s + len /\ len \in Nat /\ len > 0 /\ v \in Nat
  BY WindowFacts, Constants
<1>2. ASSUME NEW u \in Nat, t <= u PROVE s <= WindowStart(w, u)
  <2> DEFINE x == WindowStart(w, u)
  <2>1. /\ x \in Nat /\ u < x + len
        /\ x <= t /\ t < x + len => s = x
    BY WindowFacts
  <2> HIDE DEF s, x
  <2> QED
    BY <1>1, <1>2, <2>1 DEF x
<1>3. WindowStart(w, s) = s
  BY <1>1, WindowFacts
<1>4. WindowStart(w, v) = v
  <2> DEFINE x == WindowStart(w, v)
  <2>1. x \in Nat /\ x <= v /\ v < x + len
    BY <1>1, WindowFacts
  <2>2. s <= x
    BY <1>1, <1>2
  <2>3. x < v => WindowStart(w, x) = s
    BY <1>1, <2>1, <2>2, WindowFacts
  <2>4. WindowStart(w, x) = x
    BY <1>1, <2>1, WindowFacts
  <2> HIDE DEF x, s
  <2>5. x = v
    BY <1>1, <2>1, <2>2, <2>3, <2>4
  <2> QED
    BY <2>5 DEF x
<1> QED
  BY <1>2, <1>3, <1>4

-----------------------------------------------------------------------------
(* Types *)

\* The entry and the rows that the counters leave.
LEMMA RefreshedType ==
  ASSUME TypeOK
  PROVE  /\ Refreshed \in [hour : Nat, hourReset : Nat, day : Nat, dayReset : Nat]
         /\ \A w \in Windows : CountJobs(w) \in Nat /\ RetryAt(w) \in Nat
<1>0. now \in Nat /\ "day" \in Windows
  BY Constants DEF TypeOK, Ticks, Windows
<1>1. WindowStart("day", now) \in Nat
  BY <1>0, WindowFacts
<1>2. entry.hour \in Nat /\ entry.hourReset \in Nat /\ entry.day \in Nat /\ entry.dayReset \in Nat
  BY DEF TypeOK
<1>3. Refreshed \in [hour : Nat, hourReset : Nat, day : Nat, dayReset : Nat]
  BY <1>0, <1>1, <1>2, Constants DEF Refreshed
<1>4. \A w \in Windows : CountJobs(w) \in Nat
  BY <1>3 DEF CountJobs, TypeOK
<1>5. \A w \in Windows : RetryAt(w) \in Nat
  BY <1>0, <1>1, Constants DEF RetryAt
<1> QED
  BY <1>3, <1>4, <1>5

LEMMA CountedType ==
  ASSUME NEW w \in Windows, NEW t \in Ticks, NEW row \in [start : -1 .. LastTick, count : Nat]
  PROVE  Counted(row, w, t) \in [start : -1 .. LastTick, count : Nat]
<1>1. WindowStart(w, t) \in -1 .. LastTick
  BY Constants, WindowFacts DEF Ticks
<1> QED
  BY <1>1 DEF Counted

LEMMA InitLimit == Init => LimitInv
<1> SUFFICES ASSUME Init PROVE LimitInv
  OBVIOUS
<1>0. 0 \in Ticks /\ 0 \in Nat /\ backend \in {"memory", "postgres"}
  BY Constants DEF Init, Ticks
<1>1. TypeOK
  <2>1. limits \in [Windows -> [start : -1 .. LastTick, count : Nat]]
    BY Constants DEF Init
  <2>2. pc \in [Requests -> {"idle", "today", "thisHour", "save",
                            "saveUnchecked", "record", "recordDay"}]
        /\ day \in [Requests -> Nat] /\ at \in [Requests -> Ticks]
    BY <1>0 DEF Init
  <2>3. accepted \subseteq [nr : Nat, at : Ticks] /\ IsFiniteSet(accepted)
    BY FS_EmptySet DEF Init
  <2>4. denied \in [window : Windows \cup {"none"}, until : Nat] /\ finished \in -1 .. LastTick
    BY Constants DEF Init, NoDenial
  <2>5. entry \in [hour : Nat, hourReset : Nat, day : Nat, dayReset : Nat]
    BY DEF Init, NoEntry
  <2>6. job \in [Requests -> Nat] /\ uncounted \in [Windows -> SUBSET accepted]
    BY DEF Init
  <2> QED
    BY <1>0, <2>1, <2>2, <2>3, <2>4, <2>5, <2>6 DEF Init, TypeOK
<1>2. WindowStart("day", 0) = 0 /\ WindowStart("hour", 0) = 0
  <2>1. \A w \in Windows : WindowStart(w, 0) = 0
    BY WindowFacts
  <2> QED
    BY <2>1 DEF Windows
<1>3. ClocksSound
  BY <1>2, Constants DEF Init, ClocksSound, Windows, NoEntry
<1>4. OneAtATime /\ DenialSound /\ JobsSound
  BY FS_EmptySet DEF Init, OneAtATime, DenialSound, NoDenial, JobsSound
<1>5. \A w \in Windows : Accepted(w) = {} /\ Owing(w) = {} /\ Passed(w) = {}
  BY DEF Init, Accepted, Owing, Passed
<1>6. \A w \in Windows : Known(w) \in Nat
  <2>1. Refreshed.day = 0 /\ entry.hour = 0
    BY DEF Init, Refreshed, NoEntry
  <2> QED
    BY <2>1 DEF Known, Init
<1>7. Overlap \in Int /\ Overlap >= -1
  BY Constants, FS_CardinalityType DEF Overlap
<1>8. WindowsSound
  BY <1>5, <1>6, <1>7, FS_EmptySet, Constants DEF WindowsSound, WindowSound
<1> QED
  BY <1>1, <1>3, <1>4, <1>8 DEF LimitInv

LEMMA LimitTypeStep == TypeOK /\ [Next]_vars => TypeOK'
<1> SUFFICES ASSUME TypeOK, [Next]_vars PROVE TypeOK'
  OBVIOUS
<1>e. Refresh => entry' \in [hour : Nat, hourReset : Nat, day : Nat, dayReset : Nat]
  BY RefreshedType DEF Refresh, TypeOK
<1>n. NoDenial \in [window : Windows \cup {"none"}, until : Nat]
  BY DEF NoDenial
<1>1. ASSUME NEW r \in Requests, \E bypass \in BOOLEAN : Begin(r, bypass) PROVE TypeOK'
  BY <1>1 DEF Begin, TypeOK
<1>2. ASSUME NEW r \in Requests, CountToday(r) PROVE TypeOK'
  <2>1. CountJobs("day") \in Nat
    BY RefreshedType DEF Windows
  <2> QED
    BY <1>2, <1>e, <2>1 DEF CountToday, TypeOK
<1>3. ASSUME NEW r \in Requests, Decide(r) PROVE TypeOK'
  <2>1. \A w \in Windows : [window |-> w, until |-> RetryAt(w)]
                              \in [window : Windows \cup {"none"}, until : Nat]
    BY RefreshedType
  <2>2. denied' \in [window : Windows \cup {"none"}, until : Nat]
    BY <1>3, <2>1 DEF Decide, TypeOK, Windows
  <2>3. pc' = [pc EXCEPT ![r] = "idle"] \/ pc' = [pc EXCEPT ![r] = "save"]
    BY <1>3 DEF Decide
  <2> QED
    BY <1>3, <1>e, <2>2, <2>3 DEF Decide, TypeOK
<1>4. ASSUME NEW r \in Requests, Save(r) PROVE TypeOK'
  <2> DEFINE a == [nr |-> Cardinality(accepted) + 1, at |-> now]
  <2>1. a \in [nr : Nat, at : Ticks]
    BY FS_CardinalityType DEF TypeOK
  <2>c. Cardinality(accepted) + 1 \in Nat
    BY FS_CardinalityType DEF TypeOK
  <2> HIDE DEF a
  <2>2. IsFiniteSet(accepted \cup {a})
    BY FS_AddElement DEF TypeOK
  <2>3. accepted' = accepted \/ accepted' = accepted \cup {a}
    BY <1>4 DEF Save, a
  <2>4. accepted' \subseteq [nr : Nat, at : Ticks] /\ IsFiniteSet(accepted')
    BY <2>1, <2>2, <2>3 DEF TypeOK
  <2>5. uncounted' \in [Windows -> SUBSET accepted']
    BY <1>4, <2>3 DEF Save, TypeOK
  <2>6. job' \in [Requests -> Nat]
    BY <1>4, <2>c DEF Save, TypeOK
  <2>7. /\ backend' = backend /\ now' = now /\ limits' = limits /\ entry' = entry
        /\ day' = day /\ at' = at /\ finished' = finished /\ faults' = faults
        /\ denied' = NoDenial /\ jobs' = jobs + 1 /\ pc' = [pc EXCEPT ![r] = "record"]
    BY <1>4 DEF Save
  <2> QED
    BY <1>n, <2>4, <2>5, <2>6, <2>7 DEF TypeOK
<1>5. ASSUME NEW r \in Requests, RecordInMemory(r) PROVE TypeOK'
  <2>1. [Refreshed EXCEPT !.hour = @ + 1, !.day = @ + 1]
          \in [hour : Nat, hourReset : Nat, day : Nat, dayReset : Nat]
    <3> DEFINE e == Refreshed
    <3>1. e \in [hour : Nat, hourReset : Nat, day : Nat, dayReset : Nat]
      BY RefreshedType
    <3> HIDE DEF e
    <3>2. e.hour + 1 \in Nat /\ e.day + 1 \in Nat
      BY <3>1
    <3>3. \A n, k \in Nat : [e EXCEPT !.hour = n, !.day = k]
            \in [hour : Nat, hourReset : Nat, day : Nat, dayReset : Nat]
      BY <3>1
    <3>4. [e EXCEPT !.hour = e.hour + 1, !.day = e.day + 1]
            \in [hour : Nat, hourReset : Nat, day : Nat, dayReset : Nat]
      BY <3>2, <3>3
    <3>5. [e EXCEPT !.hour = @ + 1, !.day = @ + 1]
            \in [hour : Nat, hourReset : Nat, day : Nat, dayReset : Nat]
      BY <3>4
    <3> QED
      BY <3>5 DEF e
  <2> QED
    BY <1>5, <1>n, <2>1 DEF RecordInMemory, TypeOK
<1>6. ASSUME NEW r \in Requests, RecordHour(r) PROVE TypeOK'
  <2>1. Counted(limits["hour"], "hour", now) \in [start : -1 .. LastTick, count : Nat]
    BY CountedType DEF TypeOK, Windows
  <2> QED
    BY <1>6, <1>n, <2>1 DEF RecordHour, TypeOK
<1>7. ASSUME NEW r \in Requests, RecordDay(r) PROVE TypeOK'
  <2>1. Counted(limits["day"], "day", at[r]) \in [start : -1 .. LastTick, count : Nat]
    BY CountedType DEF TypeOK, Windows
  <2>2. 0 \in Ticks
    BY Constants DEF Ticks
  <2> QED
    BY <1>7, <1>n, <2>1, <2>2 DEF RecordDay, TypeOK
<1>8. ASSUME Finish \/ Tick PROVE TypeOK'
  <2>1. now' \in Ticks /\ finished' \in -1 .. LastTick
    BY <1>8, Constants DEF Finish, Tick, TypeOK, Ticks
  <2> QED
    BY <1>8, <2>1 DEF Finish, Tick, TypeOK
<1>9. CASE UNCHANGED vars
  BY <1>9 DEF vars, TypeOK
<1>10. ASSUME NEW r \in Requests, Fail(r) PROVE TypeOK'
  <2>1. uncounted' \in [Windows -> SUBSET accepted'] /\ faults' \in Nat
    BY <1>10 DEF Fail, TypeOK
  <2>2. 0 \in Ticks
    BY Constants DEF Ticks
  <2> QED
    BY <1>10, <2>1, <2>2 DEF Fail, TypeOK
<1>11. CASE Restart
  <2>1. NoEntry \in [hour : Nat, hourReset : Nat, day : Nat, dayReset : Nat]
    BY DEF NoEntry
  <2>2. -1 \in -1 .. LastTick /\ faults' \in Nat
    BY <1>11, Constants DEF Restart, TypeOK
  <2> QED
    BY <1>11, <2>1, <2>2 DEF Restart, TypeOK
<1> QED
  BY <1>1, <1>2, <1>3, <1>4, <1>5, <1>6, <1>7, <1>8, <1>9, <1>10, <1>11
  DEF Next, CreateJob

\* The declared types hold for any limits, windows and number of requests.
THEOREM RateLimitTypes == Spec => []TypeOK
<1>1. Init => TypeOK
  BY InitLimit DEF LimitInv
<1> QED
  BY <1>1, LimitTypeStep, PTL DEF Spec

-----------------------------------------------------------------------------
(* Clocks, requests in memory and denials *)

\* The types but those of the counters.
LEMMA SimpleTypes ==
  ASSUME TypeOK
  PROVE  /\ now \in Nat /\ "day" \in Windows /\ "hour" \in Windows
         /\ backend = "memory" \/ backend = "postgres"
         /\ pc \in [Requests -> {"idle", "today", "thisHour", "save",
                                 "saveUnchecked", "record", "recordDay"}]
         /\ at \in [Requests -> Nat] /\ day \in [Requests -> Nat]
         /\ job \in [Requests -> Nat] /\ uncounted \in [Windows -> SUBSET accepted]
         /\ entry.hour \in Nat /\ entry.hourReset \in Nat
         /\ entry.day \in Nat /\ entry.dayReset \in Nat
         /\ \A w \in Windows : limits[w].start \in Int /\ limits[w].count \in Nat
BY Constants DEF TypeOK, Ticks, Windows

\* A count that was read afresh is of a window that has not passed; when its
\* window had passed the count is 0.
LEMMA RefreshedFacts ==
  ASSUME TypeOK, ClocksSound
  PROVE  /\ now < Refreshed.hourReset /\ Refreshed.hourReset <= now + Hour
         /\ entry.hourReset <= Refreshed.hourReset
         /\ now < Refreshed.dayReset /\ Refreshed.dayReset <= WindowStart("day", now) + Day
         /\ WindowStart("day", Refreshed.dayReset) = Refreshed.dayReset
         /\ now < entry.hourReset => /\ Refreshed.hour = entry.hour
                                     /\ Refreshed.hourReset = entry.hourReset
         /\ now >= entry.hourReset => Refreshed.hour = 0 /\ Refreshed.hourReset = now + Hour
         /\ now < entry.dayReset => /\ Refreshed.day = entry.day
                                    /\ Refreshed.dayReset = entry.dayReset
         /\ now >= entry.dayReset => Refreshed.day = 0
<1>1. Length("day") = Day
  BY DEF Length
<1>2. /\ now < WindowStart("day", now) + Day /\ WindowStart("day", now) \in Nat
      /\ WindowStart("day", WindowStart("day", now) + Day) = WindowStart("day", now) + Day
  BY <1>1, SimpleTypes, WindowFacts, NextWindow
<1> QED
  BY <1>2, SimpleTypes, Constants DEF Refreshed, ClocksSound

\* What the counters leave behind.
LEMMA RefreshKeeps ==
  ASSUME TypeOK, ClocksSound, Refresh
  PROVE  /\ backend = "memory" => entry' = Refreshed
         /\ backend = "postgres" => entry' = entry
         /\ entry'.hourReset <= now + Hour
         /\ entry.hourReset <= entry'.hourReset /\ entry'.hourReset \in Nat
         /\ entry'.dayReset <= WindowStart("day", now) + Day
         /\ WindowStart("day", entry'.dayReset) = entry'.dayReset
BY RefreshedFacts, RefreshedType, SimpleTypes DEF Refresh, ClocksSound

LEMMA CountedFacts ==
  ASSUME NEW w \in Windows, NEW t \in Nat, NEW row, row.start \in Int, row.count \in Nat,
         row \in [start : -1 .. LastTick, count : Nat]
  PROVE  LET start == WindowStart(w, t) IN
         /\ start > row.start =>
              Counted(row, w, t).start = start /\ Counted(row, w, t).count = 1
         /\ start = row.start =>
              Counted(row, w, t).start = start /\ Counted(row, w, t).count = row.count + 1
         /\ start < row.start => Counted(row, w, t) = row
BY WindowFacts DEF Counted

LEMMA ClocksStep ==
  ASSUME TypeOK, ClocksSound, OneAtATime, [Next]_vars
  PROVE  ClocksSound'
<1> USE SimpleTypes
<1>n. \A a \in accepted : a.at \in Nat
  BY Constants DEF TypeOK, Ticks
<1>1. ASSUME now' = now, accepted' = accepted, at' = at, limits' = limits,
             entry' = entry \/ Refresh
      PROVE  ClocksSound'
  BY <1>1, RefreshKeeps DEF ClocksSound, WindowStart
<1>2. ASSUME NEW r \in Requests, Save(r) PROVE ClocksSound'
  <2> DEFINE a == [nr |-> Cardinality(accepted) + 1, at |-> now]
  <2>1. /\ now' = now /\ at' = at /\ limits' = limits /\ entry' = entry
        /\ accepted' = accepted \/ accepted' = accepted \cup {a}
    BY <1>2 DEF Save
  <2>2. Cardinality(accepted) \in Nat /\ IsFiniteSet(accepted)
    BY FS_CardinalityType DEF TypeOK
  <2>3. a.nr = Cardinality(accepted) + 1 /\ a.at = now
    OBVIOUS
  <2> HIDE DEF a
  <2>4. a \notin accepted
    BY <2>2, <2>3 DEF ClocksSound
  <2>5. Cardinality(accepted \cup {a}) = Cardinality(accepted) + 1
    BY <2>2, <2>4, FS_AddElement
  <2>6. \A x \in accepted' : x.at <= now /\ x.nr <= Cardinality(accepted')
    <3>1. \A x \in accepted : x.nr \in Nat /\ x.nr <= Cardinality(accepted)
      BY DEF ClocksSound, TypeOK
    <3>2. CASE accepted' = accepted
      BY <3>2 DEF ClocksSound
    <3>3. CASE accepted' = accepted \cup {a}
      <4>1. Cardinality(accepted') = Cardinality(accepted) + 1
        BY <2>5, <3>3
      <4>2. \A x \in accepted : x.at <= now /\ x.nr <= Cardinality(accepted) + 1
        BY <2>2, <3>1 DEF ClocksSound
      <4> QED
        BY <2>2, <2>3, <3>3, <4>1, <4>2
    <3> QED
      BY <2>1, <3>2, <3>3
  <2> QED
    BY <2>1, <2>6 DEF ClocksSound, WindowStart
<1>3. ASSUME NEW r \in Requests, RecordInMemory(r) PROVE ClocksSound'
  <2>1. /\ now' = now /\ accepted' = accepted /\ at' = at /\ limits' = limits
        /\ entry'.hourReset = Refreshed.hourReset /\ entry'.dayReset = Refreshed.dayReset
    BY <1>3, RefreshedType DEF RecordInMemory
  <2> QED
    BY <2>1, RefreshedFacts DEF ClocksSound, WindowStart
<1>4. ASSUME NEW r \in Requests, NEW w \in Windows, NEW t \in Nat, t <= now,
             now' = now, accepted' = accepted, entry' = entry,
             limits' = [limits EXCEPT ![w] = Counted(@, w, t)],
             \A q \in Requests : at'[q] <= now
      PROVE  ClocksSound'
  <2>1. WindowStart(w, t) <= WindowStart(w, now) /\ WindowStart(w, t) \in Nat
        /\ WindowStart(w, now) \in Nat
    BY <1>4, WindowFacts, NextWindow
  <2>2. limits[w] \in [start : -1 .. LastTick, count : Nat]
    BY DEF TypeOK
  <2>3. limits[w].start <= WindowStart(w, now)
    BY DEF ClocksSound
  <2>4. Counted(limits[w], w, t).start <= WindowStart(w, now)
    <3> DEFINE row == limits[w]
               start == WindowStart(w, t)
               new == Counted(row, w, t)
    <3>1. row \in [start : -1 .. LastTick, count : Nat] /\ row.start \in Int /\ row.count \in Nat
      BY <2>2
    <3>2. /\ start > row.start => new.start = start
          /\ start = row.start => new.start = start
          /\ start < row.start => new = row
      BY <1>4, <3>1, CountedFacts
    <3> HIDE DEF new, start, row
    <3>3. start \in Int /\ row.start \in Int /\ start <= WindowStart(w, now)
          /\ row.start <= WindowStart(w, now)
      BY <2>1, <2>3, <3>1 DEF start, row
    <3>4. new.start <= WindowStart(w, now)
      BY <3>2, <3>3
    <3> QED
      BY <3>4 DEF new, row
  <2>5. \A v \in Windows : limits'[v] = IF v = w THEN Counted(limits[w], w, t) ELSE limits[v]
    BY <1>4 DEF TypeOK
  <2>6. \A v \in Windows : limits'[v].start <= WindowStart(v, now)
    BY <2>4, <2>5 DEF ClocksSound
  <2> QED
    BY <1>4, <2>6 DEF ClocksSound, WindowStart
<1>5. ASSUME NEW r \in Requests, RecordHour(r) PROVE ClocksSound'
  <2>1. /\ now' = now /\ accepted' = accepted /\ entry' = entry
        /\ limits' = [limits EXCEPT !["hour"] = Counted(@, "hour", now)]
        /\ at' = [at EXCEPT ![r] = now]
    BY <1>5 DEF RecordHour
  <2>2. \A q \in Requests : at'[q] <= now
    BY <2>1 DEF ClocksSound
  <2> QED
    BY <1>4, <2>1, <2>2
<1>6. ASSUME NEW r \in Requests, RecordDay(r) PROVE ClocksSound'
  <2>1. /\ now' = now /\ accepted' = accepted /\ entry' = entry
        /\ limits' = [limits EXCEPT !["day"] = Counted(@, "day", at[r])]
        /\ at' = [at EXCEPT ![r] = 0]
    BY <1>6 DEF RecordDay
  <2>2. \A q \in Requests : at'[q] <= now
    BY <2>1 DEF ClocksSound
  <2>3. at[r] \in Nat /\ at[r] <= now
    BY DEF ClocksSound
  <2> QED
    BY <1>4, <2>1, <2>2, <2>3
<1>7. ASSUME Tick PROVE ClocksSound'
  <2>1. /\ now' = now + 1 /\ accepted' = accepted /\ at' = at /\ limits' = limits
        /\ entry' = entry
    BY <1>7 DEF Tick
  <2>2. \A w \in Windows : /\ WindowStart(w, now) <= WindowStart(w, now + 1)
                           /\ WindowStart(w, now) \in Nat /\ WindowStart(w, now + 1) \in Nat
    <3>1. now <= now + 1 /\ now + 1 \in Nat
      OBVIOUS
    <3> QED
      BY <3>1, NextWindow, WindowFacts
  <2>3. \A a \in accepted : a.at <= now + 1 /\ a.nr <= Cardinality(accepted)
    BY <1>n DEF ClocksSound
  <2>4. \A q \in Requests : at[q] <= now + 1
    BY DEF ClocksSound
  <2>5. \A w \in Windows : limits[w].start <= WindowStart(w, now + 1)
    BY <2>2 DEF ClocksSound
  <2>6. entry.hourReset <= now + 1 + Hour
        /\ entry.dayReset <= WindowStart("day", now + 1) + Day
    BY <2>2, Constants DEF ClocksSound
  <2> QED
    BY <2>1, <2>3, <2>4, <2>5, <2>6 DEF ClocksSound, WindowStart
<1>8. CASE UNCHANGED vars
  BY <1>1, <1>8 DEF vars
<1>9. ASSUME NEW r \in Requests, Fail(r) PROVE ClocksSound'
  <2>1. /\ now' = now /\ accepted' = accepted /\ limits' = limits /\ entry' = entry
        /\ at' = [at EXCEPT ![r] = 0]
    BY <1>9 DEF Fail
  <2>2. \A q \in Requests : at'[q] <= now
    BY <2>1 DEF ClocksSound
  <2> QED
    BY <2>1, <2>2 DEF ClocksSound, WindowStart
<1>10. CASE Restart
  <2>1. /\ now' = now /\ accepted' = accepted /\ limits' = limits /\ at' = at
        /\ entry'.hourReset = 0 /\ entry'.dayReset = 0
    BY <1>10 DEF Restart, NoEntry
  <2>2. WindowStart("day", 0) = 0 /\ WindowStart("day", now) \in Nat
    BY WindowFacts
  <2>3. entry'.hourReset <= now + Hour /\ entry'.dayReset <= WindowStart("day", now) + Day
    BY <2>1, <2>2, Constants
  <2> QED
    BY <2>1, <2>2, <2>3 DEF ClocksSound, WindowStart
<1> QED
  BY <1>1, <1>2, <1>3, <1>5, <1>6, <1>7, <1>8, <1>9, <1>10
  DEF Next, CreateJob, Begin, CountToday, Decide, Finish

LEMMA OneStep ==
  ASSUME TypeOK, ClocksSound, OneAtATime, [Next]_vars
  PROVE  OneAtATime'
<1> SUFFICES ASSUME backend' = "memory" PROVE OneAtATime'
  BY DEF OneAtATime
<1> USE SimpleTypes
<1>0. backend = "memory"
  BY DEF Next, CreateJob, Begin, CountToday, Decide, Save, RecordInMemory, RecordHour,
         RecordDay, Fail, Finish, Restart, Tick, vars
<1>a. \A a \in accepted : a.at \in Nat
  BY Constants DEF TypeOK, Ticks
\* A step of a request that was alone, or comes alone, and refreshes.
<1>1. ASSUME NEW r \in Requests, pc[r] # "idle" \/ Idle,
             \A q \in Requests : q # r => pc'[q] = pc[q],
             now' = now, entry.hourReset <= entry'.hourReset, entry'.hourReset \in Nat,
             pc'[r] # "recordDay", pc'[r] = "save" => now < entry'.hourReset,
             uncounted' = uncounted,
             \A a \in accepted' : a \in accepted \/ (a.at = now /\ now < entry'.hourReset)
      PROVE  OneAtATime'
  <2>1. \A q \in Requests : q # r => pc[q] = "idle"
    BY <1>0, <1>1 DEF OneAtATime, Idle
  <2>2. \A a \in accepted' \ uncounted'["hour"] : a.at < entry'.hourReset
    BY <1>0, <1>1, <1>a DEF OneAtATime
  <2> QED
    BY <1>1, <2>1, <2>2 DEF OneAtATime
<1>2. ASSUME NEW r \in Requests, \E bypass \in BOOLEAN : Begin(r, bypass) PROVE OneAtATime'
  BY <1>0, <1>1, <1>2 DEF Begin
<1>3. ASSUME NEW r \in Requests, CountToday(r) PROVE OneAtATime'
  <2>1. Refresh /\ pc[r] # "idle" /\ pc' = [pc EXCEPT ![r] = "thisHour"] /\ now' = now
        /\ accepted' = accepted /\ uncounted' = uncounted
    BY <1>3 DEF CountToday
  <2> QED
    BY <1>1, <2>1, RefreshKeeps
<1>4. ASSUME NEW r \in Requests, Decide(r) PROVE OneAtATime'
  <2>1. Refresh /\ pc[r] # "idle" /\ now' = now /\ accepted' = accepted
        /\ uncounted' = uncounted
        /\ (pc' = [pc EXCEPT ![r] = "idle"] \/ pc' = [pc EXCEPT ![r] = "save"])
    BY <1>4 DEF Decide
  <2>2. now < entry'.hourReset
    BY <1>0, <2>1, RefreshKeeps, RefreshedFacts
  <2>3. pc'[r] # "recordDay" /\ \A q \in Requests : q # r => pc'[q] = pc[q]
    BY <2>1
  <2> QED
    BY <1>1, <2>1, <2>2, <2>3, RefreshKeeps
<1>5. ASSUME NEW r \in Requests, Save(r) PROVE OneAtATime'
  <2> DEFINE a == [nr |-> Cardinality(accepted) + 1, at |-> now]
  <2>1. /\ pc[r] # "idle" /\ now' = now /\ entry' = entry
        /\ pc' = [pc EXCEPT ![r] = "record"]
        /\ accepted' = IF pc[r] = "save" THEN accepted \cup {a} ELSE accepted
        /\ uncounted' = uncounted
    BY <1>5 DEF Save
  <2>2. a.at = now
    OBVIOUS
  <2> HIDE DEF a
  <2>3. pc[r] = "save" => now < entry.hourReset
    BY <1>0 DEF OneAtATime
  <2>4. \A x \in accepted' : x \in accepted \/ (x.at = now /\ now < entry'.hourReset)
    BY <2>1, <2>2, <2>3
  <2> QED
    BY <1>1, <2>1, <2>4
<1>6. ASSUME NEW r \in Requests, RecordInMemory(r) PROVE OneAtATime'
  <2>1. /\ pc[r] # "idle" /\ now' = now /\ accepted' = accepted
        /\ uncounted' = uncounted /\ pc' = [pc EXCEPT ![r] = "idle"]
        /\ entry'.hourReset = Refreshed.hourReset
    BY <1>6, RefreshedType DEF RecordInMemory
  <2> QED
    BY <1>1, <2>1, RefreshedFacts, RefreshedType
<1>7. ASSUME NEW r \in Requests, RecordHour(r) \/ RecordDay(r) PROVE OneAtATime'
  BY <1>0, <1>7 DEF RecordHour, RecordDay, OneAtATime
<1>8. ASSUME Finish \/ Tick PROVE OneAtATime'
  BY <1>0, <1>8 DEF Finish, Tick, OneAtATime, Idle
<1>9. CASE UNCHANGED vars
  BY <1>0, <1>9 DEF vars, OneAtATime
<1>10. ASSUME NEW r \in Requests, Fail(r) PROVE OneAtATime'
  BY <1>0, <1>10 DEF Fail
<1>11. CASE Restart
  <2>1. pc' = [r \in Requests |-> "idle"] /\ accepted' \ uncounted'["hour"] = {}
    BY <1>11 DEF Restart
  <2> QED
    BY <2>1 DEF OneAtATime
<1> QED
  BY <1>2, <1>3, <1>4, <1>5, <1>6, <1>7, <1>8, <1>9, <1>10, <1>11 DEF Next, CreateJob

\* Requests have jobs of their own.
LEMMA JobsStep ==
  ASSUME TypeOK, TypeOK', ClocksSound, JobsSound, [Next]_vars
  PROVE  JobsSound'
<1> USE SimpleTypes
<1>c. Cardinality(accepted) \in Nat
  BY FS_CardinalityType DEF TypeOK
<1>1. ASSUME accepted' = accepted,
             \A r \in Requests : job'[r] = job[r] \/ job'[r] = 0,
             \A r \in Requests : pc'[r] = "recordDay" =>
               /\ (pc[r] = "recordDay" /\ at'[r] = at[r]) \/ at'[r] = now
               /\ job'[r] = job[r]
      PROVE  JobsSound'
  <2>1. \A r \in Requests : job'[r] <= Cardinality(accepted')
    BY <1>c, <1>1 DEF JobsSound
  <2>2. \A r, q \in Requests : job'[r] = job'[q] /\ job'[r] # 0 => r = q
    BY <1>1 DEF JobsSound
  <2>3. \A r \in Requests : pc'[r] = "recordDay" =>
          \A a \in accepted : a.nr = job'[r] => a.at <= at'[r]
    BY <1>1 DEF JobsSound, ClocksSound
  <2> QED
    BY <1>1, <2>1, <2>2, <2>3 DEF JobsSound
<1>2. ASSUME NEW r \in Requests, Save(r) PROVE JobsSound'
  <2> DEFINE n == Cardinality(accepted) + 1
             a == [nr |-> n, at |-> now]
  <2>1. CASE pc[r] # "save"
    BY <1>1, <1>2, <2>1 DEF Save
  <2>2. CASE pc[r] = "save"
    <3>1. /\ accepted' = accepted \cup {a} /\ job' = [job EXCEPT ![r] = n]
          /\ pc' = [pc EXCEPT ![r] = "record"] /\ at' = at
      BY <1>2, <2>2 DEF Save
    <3>2. a.nr = n /\ n \in Nat /\ n > Cardinality(accepted)
      BY <1>c
    <3> HIDE DEF a
    <3>3. a \notin accepted
      BY <1>c, <3>2 DEF ClocksSound
    <3>4. Cardinality(accepted') = n
      BY <3>1, <3>3, FS_AddElement DEF TypeOK
    <3> HIDE DEF n
    <3>5. \A q \in Requests : job[q] \in Nat /\ job[q] < n
      BY <1>c, <3>2 DEF JobsSound
    <3>6. \A q \in Requests : job'[q] = IF q = r THEN n ELSE job[q]
      BY <3>1
    <3>7. \A q \in Requests : job'[q] <= Cardinality(accepted')
      BY <3>2, <3>4, <3>5, <3>6
    <3>8. \A q, p \in Requests : job'[q] = job'[p] /\ job'[q] # 0 => q = p
      BY <3>2, <3>5, <3>6 DEF JobsSound
    <3>9. \A q \in Requests : pc'[q] = "recordDay" =>
            \A x \in accepted' : x.nr = job'[q] => x.at <= at'[q]
      <4> SUFFICES ASSUME NEW q \in Requests, pc'[q] = "recordDay",
                          NEW x \in accepted', x.nr = job'[q]
                   PROVE  x.at <= at'[q]
        OBVIOUS
      <4>1. q # r /\ pc[q] = "recordDay" /\ job'[q] = job[q]
        BY <3>1, <3>6
      <4>2. x # a
        BY <3>2, <3>5, <4>1
      <4> QED
        BY <3>1, <4>1, <4>2 DEF JobsSound
    <3>10. \A x \in accepted' : x.nr > 0
      BY <1>c, <3>1, <3>2 DEF JobsSound
    <3> QED
      BY <3>7, <3>8, <3>9, <3>10 DEF JobsSound
  <2> QED
    BY <2>1, <2>2
<1>3. ASSUME NEW r \in Requests, RecordHour(r) PROVE JobsSound'
  BY <1>1, <1>3 DEF RecordHour
<1>4. ASSUME NEW r \in Requests, RecordInMemory(r) \/ RecordDay(r) \/ Fail(r)
      PROVE  JobsSound'
  BY <1>1, <1>4 DEF RecordInMemory, RecordDay, Fail
<1>5. CASE Restart
  BY <1>1, <1>5 DEF Restart
<1>6. ASSUME NEW r \in Requests, NEW bypass \in BOOLEAN, Begin(r, bypass) PROVE JobsSound'
  BY <1>1, <1>6 DEF Begin
<1>7. ASSUME NEW r \in Requests, CountToday(r) \/ Decide(r) PROVE JobsSound'
  BY <1>1, <1>7 DEF CountToday, Decide
<1>8. CASE Finish \/ Tick \/ UNCHANGED vars
  BY <1>1, <1>8 DEF Finish, Tick, vars
<1> QED
  BY <1>2, <1>3, <1>4, <1>5, <1>6, <1>7, <1>8 DEF Next, CreateJob

LEMMA DenialStep ==
  ASSUME TypeOK, ClocksSound, DenialSound, [Next]_vars
  PROVE  DenialSound'
<1> USE SimpleTypes
<1> SUFFICES ASSUME backend' = "memory" PROVE DenialSound'
  BY DEF DenialSound
<1>0. backend = "memory"
  BY DEF Next, CreateJob, Begin, CountToday, Decide, Save, RecordInMemory, RecordHour,
         RecordDay, Fail, Finish, Restart, Tick, vars
<1>1. ASSUME denied' = denied, entry' = entry \/ Refresh PROVE DenialSound'
  <2>1. entry' = entry \/ entry' = Refreshed
    BY <1>0, <1>1, RefreshKeeps
  <2>2. entry' = Refreshed =>
          /\ entry'.hour = 0 \/ (entry'.hour = entry.hour /\ entry'.hourReset = entry.hourReset)
          /\ entry'.day = 0 \/ (entry'.day = entry.day /\ entry'.dayReset = entry.dayReset)
    BY RefreshedFacts
  <2> QED
    BY <1>0, <1>1, <2>1, <2>2 DEF DenialSound
<1>2. ASSUME denied' = NoDenial PROVE DenialSound'
  BY <1>2 DEF DenialSound, NoDenial
<1>3. ASSUME NEW r \in Requests, Decide(r) PROVE DenialSound'
  <2>1. Refresh
    BY <1>3 DEF Decide
  <2>2. CASE denied' = denied
    BY <1>1, <2>1, <2>2
  <2>3. CASE denied' = [window |-> "day", until |-> RetryAt("day")]
    <3>1. denied'.window = "day" /\ denied'.until = WindowStart("day", now) + Day
      BY <2>3 DEF RetryAt
    <3> QED
      BY <2>1, <3>1, RefreshKeeps DEF DenialSound
  <2>4. CASE denied' = [window |-> "hour", until |-> RetryAt("hour")]
    <3>1. denied'.window = "hour" /\ denied'.until = now + Hour
      BY <2>4 DEF RetryAt
    <3> QED
      BY <2>1, <3>1, RefreshKeeps DEF DenialSound
  <2> QED
    BY <1>3, <2>2, <2>3, <2>4 DEF Decide
<1>4. CASE UNCHANGED vars
  BY <1>1, <1>4 DEF vars
<1>5. CASE Restart
  <2>1. entry'.hour = 0 /\ entry'.day = 0
    BY <1>5 DEF Restart, NoEntry
  <2> QED
    BY <2>1 DEF DenialSound
<1> QED
  BY <1>1, <1>2, <1>3, <1>4, <1>5
  DEF Next, CreateJob, Begin, CountToday, Save, RecordInMemory, RecordHour, RecordDay,
      Fail, Finish, Tick

\* In memory, a client that waits as long as it was told is let in, if nothing
\* was submitted meanwhile, whatever the limits and whichever was exceeded.
THEOREM RetriesSucceedInMemory == Spec => []MemoryRetryAfterHonoured
<1> DEFINE Inv == TypeOK /\ ClocksSound /\ OneAtATime /\ DenialSound
<1>1. Init => Inv
  BY InitLimit DEF LimitInv
<1>2. Inv /\ [Next]_vars => Inv'
  BY LimitTypeStep, ClocksStep, OneStep, DenialStep
<1>3. Inv => MemoryRetryAfterHonoured
  <2> SUFFICES ASSUME Inv, backend = "memory", denied.window # "none", now >= denied.until
               PROVE  CountJobs(denied.window) < Limit(denied.window)
    BY DEF MemoryRetryAfterHonoured, RetryAfterHonoured
  <2>1. denied.window \in {"hour", "day"} /\ denied.until \in Nat
    BY DEF TypeOK, Windows
  <2>2. CASE denied.window = "hour"
    <3>1. Refreshed.hour = 0
      BY <2>1, <2>2, SimpleTypes, RefreshedFacts DEF DenialSound
    <3> QED
      BY <2>2, <3>1, Constants DEF CountJobs, Limit
  <2>3. CASE denied.window = "day"
    <3>1. Refreshed.day = 0
      BY <2>1, <2>3, SimpleTypes, RefreshedFacts DEF DenialSound
    <3> QED
      BY <2>3, <3>1, Constants DEF CountJobs, Limit
  <2> QED
    BY <2>1, <2>2, <2>3
<1> QED
  BY <1>1, <1>2, <1>3, PTL DEF Spec

-----------------------------------------------------------------------------
(* Windows *)

\* The numbers that are compared are numbers.
Tallied ==
  \A w \in Windows :
    /\ IsFiniteSet(Accepted(w)) /\ Cardinality(Accepted(w)) \in Nat
    /\ IsFiniteSet(Owing(w)) /\ Cardinality(Owing(w)) \in Nat
    /\ IsFiniteSet(Passed(w)) /\ Cardinality(Passed(w)) \in Nat
    /\ Known(w) \in Nat /\ Overlap \in Int

LEMMA Tallies == TypeOK => Tallied
<1> SUFFICES ASSUME TypeOK, NEW w \in Windows
             PROVE  /\ IsFiniteSet(Accepted(w)) /\ Cardinality(Accepted(w)) \in Nat
                    /\ IsFiniteSet(Owing(w)) /\ Cardinality(Owing(w)) \in Nat
                    /\ IsFiniteSet(Passed(w)) /\ Cardinality(Passed(w)) \in Nat
                    /\ Known(w) \in Nat /\ Overlap \in Int
  BY DEF Tallied
<1>1. Accepted(w) \in SUBSET accepted /\ IsFiniteSet(accepted)
  BY DEF Accepted, TypeOK
<1>2. Owing(w) \in SUBSET Requests /\ Passed(w) \in SUBSET Requests
  BY DEF Owing, Passed
<1>3. IsFiniteSet(Accepted(w)) /\ IsFiniteSet(Owing(w)) /\ IsFiniteSet(Passed(w))
  BY <1>1, <1>2, Constants, FS_Subset
<1>4. Refreshed.day \in Nat
  BY RefreshedType
<1>5. Known(w) \in Nat
  BY <1>4, SimpleTypes DEF Known
<1>6. Cardinality(Requests) \in Nat
  BY Constants, FS_CardinalityType
<1> QED
  BY <1>3, <1>5, <1>6, FS_CardinalityType DEF Overlap

\* The requests that count in one window at a time: all in postgres, one in memory.
InFlight ==
  \A w \in Windows : Cardinality(Owing(w)) + Cardinality(Passed(w)) <= 1 + Overlap

LEMMA FlightBound == TypeOK /\ OneAtATime => InFlight
<1> SUFFICES ASSUME TypeOK, OneAtATime, NEW w \in Windows
             PROVE  Cardinality(Owing(w)) + Cardinality(Passed(w)) <= 1 + Overlap
  BY DEF InFlight
<1> DEFINE o == Owing(w)
           p == Passed(w)
<1>1. o \subseteq Requests /\ p \subseteq Requests /\ o \cap p = {}
  BY DEF Owing, Owes, Passed
<1>2. /\ IsFiniteSet(o) /\ IsFiniteSet(p) /\ IsFiniteSet(Requests)
      /\ Cardinality(o) \in Nat /\ Cardinality(p) \in Nat /\ Cardinality(Requests) \in Nat
  BY Tallies, Constants, FS_CardinalityType DEF Tallied
<1>3. \A r \in o \cup p : r \in Requests /\ pc[r] # "idle"
  BY DEF Owing, Owes, Passed
<1> HIDE DEF o, p
<1>4. CASE backend = "postgres"
  <2>1. o \in SUBSET (Requests \ p) /\ Requests \cap p = p
    BY <1>1
  <2>2. IsFiniteSet(Requests \ p)
        /\ Cardinality(Requests \ p) = Cardinality(Requests) - Cardinality(p)
    BY <1>2, <2>1, FS_Difference
  <2>3. Cardinality(o) <= Cardinality(Requests \ p)
    BY <2>1, <2>2, FS_Subset
  <2> QED
    BY <1>2, <1>4, <2>2, <2>3 DEF Overlap, o, p
<1>5. CASE backend = "memory"
  <2>1. \A r, q \in o \cup p : r = q
    BY <1>3, <1>5 DEF OneAtATime
  <2>2. /\ o = {} \/ \E r : o = {r}
        /\ p = {} \/ \E r : p = {r}
        /\ o = {} \/ p = {}
    <3>1. ASSUME NEW S, \A r, q \in S : r = q PROVE S = {} \/ \E r : S = {r}
      <4>1. ASSUME NEW r \in S PROVE S = {r}
        BY <3>1
      <4> QED
        BY <4>1
    <3>2. (\A r, q \in o : r = q) /\ (\A r, q \in p : r = q)
      BY <2>1
    <3>3. o = {} \/ p = {}
      <4>1. ASSUME NEW r \in o, NEW q \in p PROVE FALSE
        <5>1. r = q
          BY <2>1
        <5> QED
          BY <1>1, <5>1
      <4> QED
        BY <4>1
    <3> QED
      BY <3>1, <3>2, <3>3
  <2>3. /\ Cardinality(o) <= 1 /\ Cardinality(p) <= 1
        /\ Cardinality(o) = 0 \/ Cardinality(p) = 0
    <3>1. \A r : Cardinality({r}) = 1
      BY FS_Singleton
    <3>2. Cardinality({}) = 0
      BY FS_EmptySet
    <3>3. /\ o = {} => Cardinality(o) = 0
          /\ p = {} => Cardinality(p) = 0
          /\ (\E r : o = {r}) => Cardinality(o) = 1
          /\ (\E r : p = {r}) => Cardinality(p) = 1
      BY <3>1, <3>2
    <3> QED
      BY <2>2, <3>3
  <2> QED
    BY <1>2, <1>5, <2>3 DEF Overlap, o, p
<1> QED
  BY <1>4, <1>5, SimpleTypes

\* A step of one request leaves the others owing what they did.
LEMMA OwingKept ==
  ASSUME NEW w \in Windows, NEW r \in Requests, Accepted(w) \subseteq Accepted(w)',
         \A q \in Requests : q # r => pc'[q] = pc[q] /\ job'[q] = job[q]
  PROVE  Owing(w) \ {r} \subseteq Owing(w)'
BY DEF Owing, Owes

LEMMA LessOne ==
  ASSUME NEW S, NEW T, NEW r, IsFiniteSet(S), IsFiniteSet(T), S \ {r} \subseteq T
  PROVE  Cardinality(S) - 1 <= Cardinality(T)
<1>1. /\ Cardinality(S) \in Nat /\ Cardinality(T) \in Nat
      /\ IsFiniteSet(S \ {r}) /\ Cardinality(S \ {r}) \in Nat
  BY FS_CardinalityType, FS_RemoveElement
<1>2. Cardinality(S \ {r}) = IF r \in S THEN Cardinality(S) - 1 ELSE Cardinality(S)
  BY FS_RemoveElement
<1>3. Cardinality(S \ {r}) <= Cardinality(T)
  BY FS_Subset
<1> QED
  BY <1>1, <1>2, <1>3

\* The three ways in which a window stays sound: its counts follow; it has
\* begun anew; a request has passed its check.
LEMMA WindowKept ==
  ASSUME TypeOK, TypeOK', NEW w \in Windows, WindowSound(w), backend' = backend,
         Accepted(w)' = Accepted(w), Passed(w)' \subseteq Passed(w),
         Known(w) + Cardinality(Owing(w)) <= Known(w)' + Cardinality(Owing(w)')
  PROVE  WindowSound(w)'
<1>1. /\ Cardinality(Accepted(w)) \in Nat /\ Cardinality(Passed(w)) \in Nat
      /\ Cardinality(Owing(w)) \in Nat /\ Known(w) \in Nat /\ IsFiniteSet(Passed(w))
      /\ Overlap \in Int
  BY Tallies DEF Tallied
<1>t. \A v \in Windows : /\ Cardinality(Owing(v)') \in Nat /\ Known(v)' \in Nat
                         /\ Cardinality(Passed(v)') \in Nat
  <2>1. TypeOK' => Tallied'
    BY Tallies, PTL
  <2> QED
    BY <2>1 DEF Tallied
<1>2. Cardinality(Passed(w)') <= Cardinality(Passed(w))
  BY <1>1, FS_Subset
<1>3. Overlap' = Overlap /\ Limit(w) \in Nat
  BY Constants DEF Overlap
<1> QED
  BY <1>1, <1>t, <1>2, <1>3 DEF WindowSound

\* The same of the state a step leads to.
LEMMA AfterStep ==
  ASSUME TypeOK', OneAtATime'
  PROVE  Tallied' /\ InFlight'
<1>1. TypeOK' => Tallied'
  BY Tallies, PTL
<1>2. TypeOK' /\ OneAtATime' => InFlight'
  BY FlightBound, PTL
<1> QED
  BY <1>1, <1>2

LEMMA WindowEmptied ==
  ASSUME TypeOK', OneAtATime', NEW w \in Windows, Accepted(w)' = {}
  PROVE  WindowSound(w)'
<1>1. Tallied' /\ InFlight'
  BY AfterStep
<1>2. Cardinality(Accepted(w)') = 0
  BY FS_EmptySet
<1>3. Limit(w) \in Nat /\ Limit(w) >= 1
  BY Constants
<1>4. /\ Cardinality(Owing(w)') \in Nat /\ Known(w)' \in Nat /\ Overlap' \in Int
      /\ Cardinality(Passed(w)') \in Nat
      /\ Cardinality(Owing(w)') + Cardinality(Passed(w)') <= 1 + Overlap'
  BY <1>1 DEF Tallied, InFlight
<1> QED
  BY <1>2, <1>3, <1>4 DEF WindowSound

LEMMA WindowPassed ==
  ASSUME TypeOK, TypeOK', OneAtATime', NEW w \in Windows, WindowSound(w), backend' = backend,
         Accepted(w)' = Accepted(w), Known(w)' = Known(w), Owing(w)' = Owing(w),
         Known(w) < Limit(w)
  PROVE  WindowSound(w)'
<1>1. Tallied' /\ InFlight'
  BY AfterStep
<1>2. /\ Cardinality(Accepted(w)) \in Nat /\ Known(w) \in Nat /\ Limit(w) \in Nat
      /\ Cardinality(Owing(w)) \in Nat /\ Cardinality(Passed(w)') \in Nat /\ Overlap' \in Int
      /\ Cardinality(Owing(w)) + Cardinality(Passed(w)') <= 1 + Overlap'
  BY <1>1, Tallies, Constants DEF Tallied, InFlight
<1> QED
  BY <1>2 DEF WindowSound

\* Reading the counters leaves a window as it was, or begins it anew.
LEMMA RefreshWindow ==
  ASSUME TypeOK, ClocksSound, OneAtATime, NEW w \in Windows, Refresh,
         now' = now, accepted' = accepted, limits' = limits, backend' = backend,
         uncounted' = uncounted
  PROVE  \/ Accepted(w)' = {}
         \/ /\ Accepted(w)' = Accepted(w) /\ Known(w)' = Known(w)
            /\ CountJobs(w) < Limit(w) => Known(w) < Limit(w)
<1> USE SimpleTypes
<1>1. CASE backend = "postgres"
  <2>1. entry' = entry
    BY <1>1 DEF Refresh
  <2>2. Known(w)' = Known(w) /\ Accepted(w)' = Accepted(w)
    BY <1>1, <2>1 DEF Known, Accepted, From, WindowStart
  <2>3. CountJobs(w) < Limit(w) => Known(w) < Limit(w)
    BY <1>1, Constants DEF CountJobs, Known
  <2> QED
    BY <2>2, <2>3
<1>2. CASE backend = "memory" /\ w = "day"
  <2>1. entry' = Refreshed
    BY <1>2 DEF Refresh
  <2>2. Accepted(w)' = Accepted(w)
    BY <1>2 DEF Accepted, From, WindowStart
  <2>3. entry'.day = Refreshed.day /\ now < entry'.dayReset /\ entry'.dayReset \in Nat
    BY <2>1, RefreshedFacts, RefreshedType
  <2>4. Refreshed.day' = entry'.day
    BY <2>3 DEF Refreshed
  <2>5. Known(w) = Refreshed.day /\ Known(w)' = Refreshed.day' /\ CountJobs(w) = Refreshed.day
    BY <1>2 DEF Known, CountJobs
  <2> QED
    BY <2>2, <2>3, <2>4, <2>5
<1>3. CASE backend = "memory" /\ w = "hour"
  <2>1. entry' = Refreshed /\ From(w) = entry.hourReset - Hour
        /\ From(w)' = entry'.hourReset - Hour
    BY <1>3 DEF Refresh, From
  <2>2. CASE now < entry.hourReset
    <3>1. entry'.hourReset = entry.hourReset /\ entry'.hour = entry.hour
          /\ Refreshed.hour = entry.hour
      BY <2>1, <2>2, RefreshedFacts
    <3>2. Accepted(w)' = Accepted(w)
      BY <2>1, <3>1 DEF Accepted
    <3>3. Known(w)' = entry'.hour /\ Known(w) = entry.hour /\ CountJobs(w) = Refreshed.hour
      BY <1>3 DEF Known, CountJobs
    <3> QED
      BY <3>1, <3>2, <3>3
  <2>3. CASE now >= entry.hourReset
    <3>1. From(w)' = now
      BY <2>1, <2>3, RefreshedFacts, Constants
    <3>2. \A a \in accepted \ uncounted["hour"] : a.at < now
      <4>1. \A a \in accepted : a.at \in Nat
        BY Constants DEF TypeOK, Ticks
      <4> QED
        BY <1>3, <2>3, <4>1 DEF OneAtATime
    <3>3. \A a \in accepted : a.at \in Int
      BY Constants DEF TypeOK, Ticks
    <3>4. Accepted(w)' = {}
      BY <1>3, <3>1, <3>2, <3>3 DEF Accepted
    <3> QED
      BY <3>4
  <2> QED
    BY <2>2, <2>3
<1> QED
  BY <1>1, <1>2, <1>3 DEF Windows

\* A request submits: it leaves those that have passed and is to be counted.
LEMMA WindowSaved ==
  ASSUME TypeOK, TypeOK', ClocksSound, OneAtATime, NEW w \in Windows, WindowSound(w),
         NEW r \in Requests, Save(r)
  PROVE  WindowSound(w)'
<1> USE SimpleTypes
<1> DEFINE a == [nr |-> Cardinality(accepted) + 1, at |-> now]
<1>1. /\ now' = now /\ entry' = entry /\ limits' = limits /\ backend' = backend /\ at' = at
      /\ pc[r] \in {"save", "saveUnchecked"} /\ pc' = [pc EXCEPT ![r] = "record"]
      /\ accepted' = IF pc[r] = "save" THEN accepted \cup {a} ELSE accepted
      /\ day' = day /\ uncounted' = uncounted
      /\ job' = IF pc[r] = "save" THEN [job EXCEPT ![r] = a.nr] ELSE job
  BY DEF Save
<1>2. a.at = now /\ a.nr = Cardinality(accepted) + 1
  OBVIOUS
<1> HIDE DEF a
<1>3. From(w)' = From(w) /\ Known(w)' = Known(w) /\ Overlap' = Overlap
  BY <1>1 DEF From, Known, Refreshed, WindowStart, Overlap
<1>4. Owing(w) \in SUBSET (Requests \ {r})
  BY <1>1 DEF Owing, Owes
<1>5. Passed(w)' = Passed(w) \ {r} /\ (pc[r] = "save" <=> r \in Passed(w))
  BY <1>1 DEF Passed
<1>t. TypeOK' => Tallied'
  BY Tallies, PTL
<1>6. /\ Tallied /\ Tallied'
      /\ pc[r] = "save" => Cardinality(Passed(w)') = Cardinality(Passed(w)) - 1
      /\ pc[r] # "save" => Cardinality(Passed(w)') = Cardinality(Passed(w))
  <2>1. Tallied /\ IsFiniteSet(Passed(w))
    BY Tallies DEF Tallied
  <2>2. Cardinality(Passed(w) \ {r}) = IF r \in Passed(w) THEN Cardinality(Passed(w)) - 1
                                       ELSE Cardinality(Passed(w))
    BY <2>1, FS_RemoveElement
  <2> QED
    BY <1>5, <1>t, <2>1, <2>2
<1>f. /\ IsFiniteSet(Owing(w)) /\ IsFiniteSet(Owing(w)')
      /\ Cardinality(Owing(w)) \in Nat /\ Cardinality(Owing(w)') \in Nat
  BY <1>6 DEF Tallied
<1>7. CASE pc[r] # "save"
  <2>1. Accepted(w)' = Accepted(w)
    BY <1>1, <1>3, <1>7 DEF Accepted
  <2>2. Owing(w) \subseteq Owing(w)'
    BY <1>1, <1>4, <2>1, OwingKept
  <2>3. Cardinality(Owing(w)) <= Cardinality(Owing(w)')
    BY <1>f, <2>2, FS_Subset
  <2>4. Known(w) + Cardinality(Owing(w)) <= Known(w)' + Cardinality(Owing(w)')
    BY <1>3, <1>6, <1>f, <2>3 DEF Tallied
  <2> QED
    BY <1>1, <1>5, <2>1, <2>4, WindowKept
<1>8. CASE pc[r] = "save"
  <2>1. From(w) <= now /\ now < From(w) + Length(w)
    <3>1. CASE backend = "memory" /\ w = "hour"
      <4>1. now < entry.hourReset /\ entry.hourReset <= now + Hour
        BY <1>8, <3>1 DEF OneAtATime, ClocksSound
      <4> QED
        BY <3>1, <4>1, Constants DEF From, Length
    <3>2. CASE ~(backend = "memory" /\ w = "hour")
      BY <3>2, WindowFacts DEF From
    <3> QED
      BY <3>1, <3>2
  <2>3. a \notin accepted
    <3>1. \A x \in accepted : x.nr \in Nat /\ x.nr <= Cardinality(accepted)
      BY DEF ClocksSound, TypeOK
    <3>2. Cardinality(accepted) \in Nat
      BY FS_CardinalityType DEF TypeOK
    <3> QED
      BY <1>2, <3>1, <3>2
  <2>2. Accepted(w)' = Accepted(w) \cup {a} /\ a \notin Accepted(w)
    <3>1. a \notin uncounted[w]
      BY <2>3
    <3> QED
      BY <1>1, <1>2, <1>3, <1>8, <2>1, <2>3, <3>1 DEF Accepted
  <2>4. Cardinality(Accepted(w)') = Cardinality(Accepted(w)) + 1
    <3>1. IsFiniteSet(Accepted(w)) /\ a \notin Accepted(w)
      BY <1>6, <2>2 DEF Tallied
    <3>2. Cardinality(Accepted(w) \cup {a}) = Cardinality(Accepted(w)) + 1
      BY <3>1, FS_AddElement
    <3> QED
      BY <2>2, <3>2
  <2>6. Cardinality(Owing(w)) + 1 <= Cardinality(Owing(w)')
    <3>1. Owing(w) \subseteq Owing(w)'
      BY <1>1, <1>4, <2>2, OwingKept
    <3>2. r \in Owing(w)'
      BY <1>1, <1>8, <2>2 DEF Owing, Owes
    <3>3. Cardinality(Owing(w) \cup {r}) = Cardinality(Owing(w)) + 1
          /\ IsFiniteSet(Owing(w) \cup {r})
      BY <1>4, <1>f, FS_AddElement
    <3>4. Cardinality(Owing(w) \cup {r}) <= Cardinality(Owing(w)')
      BY <1>f, <3>1, <3>2, FS_Subset
    <3> QED
      BY <3>3, <3>4
  <2>5. /\ Cardinality(Accepted(w)) \in Nat /\ Cardinality(Owing(w)) \in Nat
        /\ Cardinality(Passed(w)) \in Nat /\ Known(w) \in Nat /\ Overlap \in Int
        /\ Limit(w) \in Nat
    BY <1>6, Constants DEF Tallied
  <2> QED
    BY <1>3, <1>6, <1>8, <1>f, <2>4, <2>5, <2>6 DEF WindowSound
<1> QED
  BY <1>7, <1>8

\* A submission is counted in memory.
LEMMA WindowRecorded ==
  ASSUME TypeOK, TypeOK', ClocksSound, OneAtATime, OneAtATime', NEW w \in Windows,
         WindowSound(w), NEW r \in Requests, RecordInMemory(r)
  PROVE  WindowSound(w)'
<1> USE SimpleTypes
<1> DEFINE e == Refreshed
<1>1. /\ now' = now /\ accepted' = accepted /\ backend = "memory" /\ backend' = backend
      /\ pc[r] = "record" /\ pc' = [pc EXCEPT ![r] = "idle"] /\ at' = at /\ day' = day
      /\ entry' = [e EXCEPT !.hour = @ + 1, !.day = @ + 1]
      /\ uncounted' = uncounted /\ job' = [job EXCEPT ![r] = 0]
  BY DEF RecordInMemory
<1>2. e \in [hour : Nat, hourReset : Nat, day : Nat, dayReset : Nat]
  BY RefreshedType
<1>3. /\ now < e.dayReset
      /\ now < entry.hourReset => e.hour = entry.hour /\ e.hourReset = entry.hourReset
      /\ now >= entry.hourReset => e.hourReset = now + Hour
  BY RefreshedFacts
<1>e. Known("day") = e.day
  BY <1>1 DEF Known
<1> HIDE DEF e
<1>4. /\ entry'.hour = e.hour + 1 /\ entry'.hourReset = e.hourReset
      /\ entry'.day = e.day + 1 /\ entry'.dayReset = e.dayReset
  BY <1>1, <1>2
<1>5. Passed(w)' \subseteq Passed(w)
  BY <1>1 DEF Passed
\* The window goes on, with one more counted.
<1>6. ASSUME From(w)' = From(w), Known(w)' = Known(w) + 1 PROVE WindowSound(w)'
  <2>1. Accepted(w)' = Accepted(w)
    BY <1>1, <1>6 DEF Accepted
  <2>2. Owing(w) \ {r} \subseteq Owing(w)'
    BY <1>1, <2>1, OwingKept
  <2>3. Tallied /\ Tallied'
    <3>1. TypeOK' => Tallied'
      BY Tallies, PTL
    <3> QED
      BY <3>1, Tallies
  <2>4. Cardinality(Owing(w)) - 1 <= Cardinality(Owing(w)')
    BY <2>2, <2>3, LessOne DEF Tallied
  <2>5. Known(w) + Cardinality(Owing(w)) <= Known(w)' + Cardinality(Owing(w)')
    BY <1>6, <2>3, <2>4 DEF Tallied
  <2> QED
    BY <1>1, <1>5, <2>1, <2>5, WindowKept
<1>7. CASE w = "day"
  <2>1. From(w)' = From(w)
    BY <1>1, <1>7 DEF From, WindowStart
  <2>2. Refreshed.day' = entry'.day
    BY <1>1, <1>2, <1>3, <1>4 DEF Refreshed
  <2>3. Known(w)' = Refreshed.day'
    BY <1>1, <1>7 DEF Known
  <2> QED
    BY <1>4, <1>6, <1>7, <1>e, <2>1, <2>2, <2>3
<1>8. CASE w = "hour" /\ now < entry.hourReset
  <2>1. From(w)' = From(w) /\ Known(w)' = Known(w) + 1
    BY <1>1, <1>3, <1>4, <1>8 DEF From, Known
  <2> QED
    BY <1>6, <2>1
<1>9. CASE w = "hour" /\ now >= entry.hourReset
  <2>1. From(w)' = now
    BY <1>1, <1>3, <1>4, <1>9, Constants DEF From
  <2>2. \A a \in accepted \ uncounted["hour"] : a.at \in Int /\ a.at < now
    <3>1. \A a \in accepted \ uncounted["hour"] : a.at \in Nat /\ a.at < entry.hourReset
      BY <1>1, Constants DEF TypeOK, Ticks, OneAtATime
    <3> QED
      BY <1>9, <3>1
  <2>3. Accepted(w)' = {}
    BY <1>1, <1>9, <2>1, <2>2 DEF Accepted
  <2> QED
    BY <2>3, WindowEmptied
<1> QED
  BY <1>7, <1>8, <1>9 DEF Windows

\* A submission is counted in the row of the window v of tick t, if that is
\* still the current one.
LEMMA WindowCounted ==
  ASSUME TypeOK, TypeOK', ClocksSound, NEW v \in Windows, NEW w \in Windows,
         NEW t \in Nat, t <= now, WindowSound(w), NEW r \in Requests,
         now' = now, accepted' = accepted, entry' = entry, backend' = backend,
         backend = "postgres", limits' = [limits EXCEPT ![v] = Counted(@, v, t)],
         uncounted' = uncounted, Passed(w)' \subseteq Passed(w),
         \A q \in Requests : q # r => pc'[q] = pc[q] /\ job'[q] = job[q],
         ~(w = v /\ t >= WindowStart(w, now)) /\ r \in Owing(w) =>
           Owes(r, w)' /\ job'[r] = job[r]
  PROVE  WindowSound(w)'
<1> USE SimpleTypes
<1> DEFINE s == WindowStart(w, now)
           row == limits[w]
           new == Counted(row, w, t)
           start == WindowStart(w, t)
<1>1. From(w) = s /\ From(w)' = s /\ s \in Nat /\ start \in Nat /\ start <= s
  BY WindowFacts, NextWindow DEF From, WindowStart
<1>2. row.start \in Int /\ row.count \in Nat /\ row.start <= s
      /\ row \in [start : -1 .. LastTick, count : Nat]
  BY DEF ClocksSound, TypeOK
<1>3. t >= s => start = s
  <2>1. s <= now /\ now < s + Length(w) /\ Length(w) \in Nat
    BY WindowFacts, Constants
  <2>2. s <= t /\ t < s + Length(w) => start = s
    BY WindowFacts
  <2> HIDE DEF start, s
  <2> QED
    BY <1>1, <2>1, <2>2
<1>4. t < s => start < s
  <2>1. start <= t
    BY WindowFacts
  <2> HIDE DEF start, s
  <2> QED
    BY <1>1, <2>1
<1>5. /\ start > row.start => new.start = start /\ new.count = 1
      /\ start = row.start => new.start = start /\ new.count = row.count + 1
      /\ start < row.start => new = row
  BY <1>2, CountedFacts
<1>6. /\ Known(w) = IF row.start = s THEN row.count ELSE 0
      /\ w = v => Known(w)' = IF new.start = s THEN new.count ELSE 0
      /\ w # v => Known(w)' = Known(w)
  <2>1. limits'[w] = IF w = v THEN new ELSE row
    BY DEF TypeOK
  <2> QED
    BY <1>1, <2>1 DEF Known
<1>7. Accepted(w)' = Accepted(w)
  BY <1>1 DEF Accepted
<1>8. Tallied /\ Tallied'
  <2>1. TypeOK' => Tallied'
    BY Tallies, PTL
  <2> QED
    BY <2>1, Tallies
<1>f. /\ IsFiniteSet(Owing(w)) /\ IsFiniteSet(Owing(w)')
      /\ Cardinality(Owing(w)) \in Nat /\ Cardinality(Owing(w)') \in Nat
  BY <1>8 DEF Tallied
<1>9. Owing(w) \ {r} \subseteq Owing(w)'
  BY <1>7, OwingKept
<1>m. ~(w = v /\ t >= s) => Owing(w) \subseteq Owing(w)'
  <2>1. ~(w = v /\ t >= s) /\ r \in Owing(w) => r \in Owing(w)'
    BY <1>7 DEF Owing
  <2> QED
    BY <1>9, <2>1
<1> HIDE DEF s, row, new, start
<1>10. Known(w) + Cardinality(Owing(w)) <= Known(w)' + Cardinality(Owing(w)')
  <2>1. CASE w = v /\ t >= s
    <3>1. Known(w)' = Known(w) + 1 /\ Known(w) \in Nat
      BY <1>1, <1>2, <1>3, <1>5, <1>6, <2>1
    <3>2. Cardinality(Owing(w)) - 1 <= Cardinality(Owing(w)')
      BY <1>9, <1>f, LessOne
    <3> QED
      BY <1>f, <3>1, <3>2
  <2>2. CASE ~(w = v /\ t >= s)
    <3>1. Known(w)' = Known(w) /\ Known(w) \in Nat
      BY <1>1, <1>2, <1>4, <1>5, <1>6, <2>2
    <3>2. Cardinality(Owing(w)) <= Cardinality(Owing(w)')
      BY <1>f, <1>m, <2>2, FS_Subset
    <3> QED
      BY <1>f, <3>1, <3>2
  <2> QED
    BY <2>1, <2>2
<1> QED
  BY <1>7, <1>10, WindowKept

\* A request reads a count, and passes the check of that window or does not.
LEMMA WindowChecked ==
  ASSUME TypeOK, TypeOK', ClocksSound, OneAtATime, OneAtATime', NEW w \in Windows,
         WindowSound(w), NEW r \in Requests, CountToday(r) \/ Decide(r)
  PROVE  WindowSound(w)'
<1> USE SimpleTypes
<1>1. /\ Refresh /\ now' = now /\ accepted' = accepted /\ limits' = limits
      /\ backend' = backend /\ at' = at /\ pc[r] \in {"today", "thisHour"}
      /\ uncounted' = uncounted /\ job' = job
      /\ \A q \in Requests : q # r => pc'[q] = pc[q] /\ day'[q] = day[q]
      /\ pc'[r] \in {"thisHour", "save", "idle"}
  BY DEF CountToday, Decide
<1>2. CASE Accepted(w)' = {}
  BY <1>2, WindowEmptied
<1>3. CASE /\ Accepted(w)' = Accepted(w) /\ Known(w)' = Known(w)
           /\ CountJobs(w) < Limit(w) => Known(w) < Limit(w)
  <2>1. Owing(w)' = Owing(w)
    <3>1. ASSUME NEW q \in Requests PROVE Owes(q, w)' <=> Owes(q, w)
      <4>1. CASE q = r
        BY <1>1, <4>1 DEF Owes
      <4>2. CASE q # r
        BY <1>1, <4>2 DEF Owes
      <4> QED
        BY <4>1, <4>2
    <3> QED
      BY <1>1, <1>3, <3>1 DEF Owing
  <2>2. CASE CountJobs(w) < Limit(w)
    BY <1>1, <1>3, <2>1, <2>2, WindowPassed
  <2>3. CASE ~(CountJobs(w) < Limit(w))
    <3>1. Known(w) + Cardinality(Owing(w)) <= Known(w)' + Cardinality(Owing(w)')
      <4>1. Cardinality(Owing(w)') = Cardinality(Owing(w))
        BY <2>1
      <4> QED
        BY <1>3, <4>1, Tallies DEF Tallied
    <3>2. Passed(w)' \subseteq Passed(w)
      <4>1. ASSUME NEW q \in Requests, q # r, q \in Passed(w)' PROVE q \in Passed(w)
        BY <1>1, <4>1 DEF Passed
      <4>2. CASE CountToday(r)
        <5>1. pc'[r] = "thisHour" /\ day'[r] = CountJobs("day")
          BY <4>2 DEF CountToday
        <5>2. r \notin Passed(w)'
          BY <2>3, <5>1, RefreshedType, Constants DEF Passed, Limit, Windows
        <5> QED
          BY <4>1, <5>2 DEF Passed
      <4>3. CASE Decide(r)
        <5>1. pc[r] = "thisHour" /\ pc'[r] \in {"save", "idle"}
              /\ (pc'[r] = "save" => day[r] < PerDay /\ CountJobs("hour") < PerHour)
          <6>1. CountJobs("hour") \in Nat /\ PerHour \in Nat /\ PerDay \in Nat /\ day[r] \in Nat
            BY RefreshedType, Constants DEF Windows, TypeOK
          <6> QED
            BY <4>3, <6>1 DEF Decide
        <5>2. r \in Passed(w)' => r \in Passed(w)
          BY <2>3, <5>1 DEF Passed, Limit, Windows
        <5> QED
          BY <4>1, <5>2 DEF Passed
      <4> QED
        BY <4>2, <4>3
    <3> QED
      BY <1>1, <1>3, <3>1, <3>2, WindowKept
  <2> QED
    BY <2>2, <2>3
<1> QED
  BY <1>1, <1>2, <1>3, RefreshWindow

\* The clock moves on: the window does, or it is over and another begins.
LEMMA WindowTicked ==
  ASSUME TypeOK, TypeOK', ClocksSound, OneAtATime', NEW w \in Windows,
         WindowSound(w), Tick
  PROVE  WindowSound(w)'
<1> USE SimpleTypes
<1>1. /\ now' = now + 1 /\ accepted' = accepted /\ limits' = limits /\ entry' = entry
      /\ backend' = backend /\ at' = at /\ pc' = pc /\ day' = day
      /\ uncounted' = uncounted /\ job' = job
  BY DEF Tick
<1>2. ASSUME From(w)' = From(w), Known(w)' = Known(w) PROVE WindowSound(w)'
  <2>1. Accepted(w)' = Accepted(w) /\ Passed(w)' = Passed(w)
    BY <1>1, <1>2 DEF Accepted, Passed
  <2>4. Owing(w)' = Owing(w)
    BY <1>1, <2>1 DEF Owing, Owes
  <2>2. Cardinality(Owing(w)') = Cardinality(Owing(w))
    BY <2>4
  <2>3. Known(w) + Cardinality(Owing(w)) <= Known(w)' + Cardinality(Owing(w)')
    BY <1>2, <2>2, Tallies DEF Tallied
  <2> QED
    BY <1>1, <2>1, <2>3, WindowKept
<1>3. CASE backend = "memory" /\ w = "hour"
  <2>1. From(w)' = From(w) /\ Known(w)' = Known(w)
    BY <1>1, <1>3 DEF From, Known
  <2> QED
    BY <1>2, <2>1
<1>4. CASE ~(backend = "memory" /\ w = "hour")
  <2> DEFINE s == WindowStart(w, now)
             n == now + 1
             len == Length(w)
  <2>1. From(w) = s /\ From(w)' = WindowStart(w, n)
    <3>1. From(w) = s /\ From(w)' = WindowStart(w, now')
      BY <1>1, <1>4 DEF From
    <3>2. WindowStart(w, now') = WindowStart(w, n)
      BY <1>1
    <3> QED
      BY <3>1, <3>2
  <2>2. s \in Nat /\ s <= now /\ now < s + len /\ len \in Nat /\ n \in Nat /\ n = now + 1
    <3>1. now \in Nat /\ n \in Nat /\ n = now + 1
      OBVIOUS
    <3>2. s \in Nat /\ s <= now /\ now < s + len
      BY <3>1, WindowFacts
    <3>3. len \in Nat
      BY Constants
    <3> QED
      BY <3>1, <3>2, <3>3
  <2>3. CASE n < s + len
    <3>1. WindowStart(w, n) = s
      BY <2>2, <2>3, WindowFacts
    <3>2. Known(w)' = Known(w)
      <4>1. CASE backend = "postgres"
        BY <1>1, <2>1, <3>1, <4>1 DEF Known
      <4>2. CASE backend = "memory"
        <5>1. w = "day" /\ len = Day
          BY <1>4, <4>2 DEF Windows, Length
        <5>2. Refreshed.day = IF now >= entry.dayReset THEN 0 ELSE entry.day
          BY DEF Refreshed
        <5>3. Refreshed.day' = IF n >= entry.dayReset THEN 0 ELSE entry.day
          BY <1>1 DEF Refreshed
        <5>4. n # entry.dayReset \/ n = s
          <6>1. WindowStart("day", entry.dayReset) = entry.dayReset
            BY DEF ClocksSound
          <6> QED
            BY <3>1, <5>1, <6>1
        <5>5. n # s
          BY <2>2
        <5>6. Refreshed.day' = Refreshed.day
          BY <2>2, <5>2, <5>3, <5>4, <5>5
        <5> QED
          BY <1>1, <4>2, <5>1, <5>6 DEF Known
      <4> QED
        BY <4>1, <4>2
    <3> QED
      BY <1>2, <2>1, <3>1, <3>2
  <2>4. CASE n >= s + len
    <3>1. n = s + len
      BY <2>2, <2>4
    <3>2. WindowStart(w, n) = n
      BY <3>1, NextWindow
    <3>3. \A a \in accepted : a.at \in Nat /\ a.at <= now
      BY Constants DEF TypeOK, Ticks, ClocksSound
    <3>4. Accepted(w)' = {}
      BY <1>1, <2>1, <2>2, <3>2, <3>3 DEF Accepted
    <3> QED
      BY <3>4, WindowEmptied
  <2> QED
    BY <2>2, <2>3, <2>4
<1> QED
  BY <1>3, <1>4

\* A request fails: the job it had yet to count is no longer counted upon.
LEMMA WindowFailed ==
  ASSUME TypeOK, TypeOK', JobsSound, NEW w \in Windows, WindowSound(w),
         NEW r \in Requests, Fail(r)
  PROVE  WindowSound(w)'
<1> USE SimpleTypes
<1>1. /\ now' = now /\ accepted' = accepted /\ limits' = limits /\ entry' = entry
      /\ backend' = backend /\ pc' = [pc EXCEPT ![r] = "idle"]
      /\ day' = [day EXCEPT ![r] = 0] /\ job' = [job EXCEPT ![r] = 0]
      /\ uncounted'[w] = uncounted[w] \cup {a \in accepted : a.nr = job[r] /\ Owes(r, w)}
  BY DEF Fail
<1>2. From(w)' = From(w) /\ Known(w)' = Known(w) /\ Overlap' = Overlap
  BY <1>1 DEF From, Known, Refreshed, WindowStart, Overlap
<1>3. Accepted(w)' = {a \in Accepted(w) : ~(a.nr = job[r] /\ Owes(r, w))}
  BY <1>1, <1>2 DEF Accepted
<1>4. Passed(w)' \subseteq Passed(w)
  BY <1>1 DEF Passed
<1>5. Tallied /\ Tallied'
  <2>1. TypeOK' => Tallied'
    BY Tallies, PTL
  <2> QED
    BY <2>1, Tallies
<1>6. /\ Cardinality(Accepted(w)) \in Nat /\ Cardinality(Accepted(w)') \in Nat
      /\ Cardinality(Passed(w)) \in Nat /\ Cardinality(Passed(w)') \in Nat
      /\ Cardinality(Owing(w)) \in Nat /\ Cardinality(Owing(w)') \in Nat
      /\ Known(w) \in Nat /\ Overlap \in Int /\ Limit(w) \in Nat
      /\ IsFiniteSet(Accepted(w)) /\ IsFiniteSet(Passed(w))
      /\ IsFiniteSet(Owing(w)) /\ IsFiniteSet(Owing(w)')
  BY <1>5, Constants DEF Tallied
<1>7. /\ Cardinality(Accepted(w)') <= Cardinality(Accepted(w))
      /\ Cardinality(Passed(w)') <= Cardinality(Passed(w))
  BY <1>3, <1>4, <1>6, FS_Subset
<1>8. Owing(w) \ {r} \subseteq Owing(w)'
  <2> SUFFICES ASSUME NEW q \in Owing(w), q # r PROVE q \in Owing(w)'
    OBVIOUS
  <2>1. q \in Requests /\ Owes(q, w) /\ Owes(q, w)' /\ job'[q] = job[q]
    BY <1>1 DEF Owing, Owes
  <2>2. PICK a \in Accepted(w) : a.nr = job[q]
    BY DEF Owing
  <2>3. a.nr # job[r]
    <3>1. a.nr \in Nat /\ a.nr > 0
      BY DEF Accepted, TypeOK, JobsSound
    <3> QED
      BY <2>1, <2>2, <3>1 DEF JobsSound
  <2>4. a \in Accepted(w)'
    BY <1>3, <2>3
  <2> QED
    BY <2>1, <2>2, <2>4 DEF Owing
<1>9. CASE r \in Owing(w)
  <2>1. PICK a \in Accepted(w) : a.nr = job[r] /\ Owes(r, w)
    BY <1>9 DEF Owing
  <2>2. Accepted(w)' \in SUBSET (Accepted(w) \ {a})
    BY <1>3, <2>1
  <2>3. Cardinality(Accepted(w) \ {a}) = Cardinality(Accepted(w)) - 1
        /\ IsFiniteSet(Accepted(w) \ {a})
    BY <1>6, <2>1, FS_RemoveElement
  <2>4. Cardinality(Accepted(w)') <= Cardinality(Accepted(w)) - 1
    BY <2>2, <2>3, FS_Subset
  <2>5. Cardinality(Owing(w)) - 1 <= Cardinality(Owing(w)')
    BY <1>6, <1>8, LessOne
  <2> QED
    BY <1>2, <1>6, <1>7, <2>4, <2>5 DEF WindowSound
<1>10. CASE r \notin Owing(w)
  <2>1. Cardinality(Owing(w)) <= Cardinality(Owing(w)')
    BY <1>6, <1>8, <1>10, FS_Subset
  <2> QED
    BY <1>2, <1>6, <1>7, <2>1 DEF WindowSound
<1> QED
  BY <1>9, <1>10

\* In every step, every window stays sound.
LEMMA WindowsStep ==
  ASSUME TypeOK, TypeOK', ClocksSound, OneAtATime, OneAtATime', JobsSound, WindowsSound,
         [Next]_vars
  PROVE  WindowsSound'
<1> USE SimpleTypes
<1> SUFFICES ASSUME NEW w \in Windows PROVE WindowSound(w)'
  BY DEF WindowsSound
<1>w. WindowSound(w)
  BY DEF WindowsSound
<1>1. ASSUME now' = now, accepted' = accepted, limits' = limits, entry' = entry,
             backend' = backend, at' = at, day' = day, uncounted' = uncounted, job' = job,
             \A r \in Requests : /\ pc'[r] \in {"save", "record", "recordDay", "thisHour"}
                                      => pc'[r] = pc[r]
                                 /\ pc[r] \in {"record", "recordDay"} => pc'[r] = pc[r]
      PROVE  WindowSound(w)'
  <2>1. From(w)' = From(w) /\ Known(w)' = Known(w)
    BY <1>1 DEF From, Known, Refreshed, WindowStart
  <2>2. Accepted(w)' = Accepted(w)
    BY <1>1, <2>1 DEF Accepted
  <2>3. Passed(w)' \subseteq Passed(w)
    BY <1>1 DEF Passed
  <2>4. Owing(w)' = Owing(w)
    BY <1>1, <2>2 DEF Owing, Owes
  <2>5. Cardinality(Owing(w)') = Cardinality(Owing(w))
    BY <2>4
  <2>6. Known(w) + Cardinality(Owing(w)) <= Known(w)' + Cardinality(Owing(w)')
    BY <2>1, <2>5, Tallies DEF Tallied
  <2> QED
    BY <1>1, <1>w, <2>2, <2>3, <2>6, WindowKept
<1>2. ASSUME NEW r \in Requests, NEW bypass \in BOOLEAN, Begin(r, bypass)
      PROVE  WindowSound(w)'
  <2>1. \A q \in Requests : pc'[q] = pc[q] \/ (q = r /\ pc'[q] \in {"today", "saveUnchecked"})
    BY <1>2 DEF Begin
  <2>2. pc[r] = "idle"
    BY <1>2 DEF Begin
  <2> QED
    BY <1>1, <1>2, <2>1, <2>2 DEF Begin
<1>3. ASSUME NEW r \in Requests, CountToday(r) \/ Decide(r) PROVE WindowSound(w)'
  BY <1>3, <1>w, WindowChecked
<1>4. ASSUME NEW r \in Requests, Save(r) PROVE WindowSound(w)'
  BY <1>4, <1>w, WindowSaved
<1>5. ASSUME NEW r \in Requests, RecordInMemory(r) PROVE WindowSound(w)'
  BY <1>5, <1>w, WindowRecorded
<1>6. ASSUME NEW r \in Requests, RecordHour(r) PROVE WindowSound(w)'
  <2>1. /\ now' = now /\ accepted' = accepted /\ entry' = entry /\ backend' = backend
        /\ backend = "postgres" /\ day' = day /\ pc[r] = "record"
        /\ limits' = [limits EXCEPT !["hour"] = Counted(@, "hour", now)]
        /\ pc' = [pc EXCEPT ![r] = "recordDay"] /\ uncounted' = uncounted /\ job' = job
    BY <1>6 DEF RecordHour
  <2>2. Passed(w)' \subseteq Passed(w)
    BY <2>1 DEF Passed
  <2>3. From(w)' = From(w) /\ From(w) <= now /\ From(w) = WindowStart(w, now)
    BY <2>1, WindowFacts DEF From, WindowStart
  <2>4. now >= WindowStart(w, now) /\ "hour" \in Windows /\ now <= now
    BY <2>3 DEF Windows
  <2>5. w # "hour" /\ r \in Owing(w) => Owes(r, w)' /\ job'[r] = job[r]
    BY <2>1 DEF Owes, Windows
  <2>6. \A q \in Requests : q # r => pc'[q] = pc[q] /\ job'[q] = job[q]
    BY <2>1
  <2> QED
    BY <1>w, <2>1, <2>2, <2>4, <2>5, <2>6, WindowCounted
<1>7. ASSUME NEW r \in Requests, RecordDay(r) PROVE WindowSound(w)'
  <2>1. /\ now' = now /\ accepted' = accepted /\ entry' = entry /\ backend' = backend
        /\ day' = day /\ pc[r] = "recordDay"
        /\ limits' = [limits EXCEPT !["day"] = Counted(@, "day", at[r])]
        /\ pc' = [pc EXCEPT ![r] = "idle"] /\ uncounted' = uncounted
        /\ job' = [job EXCEPT ![r] = 0]
    BY <1>7 DEF RecordDay
  <2>2. backend = "postgres"
    BY <2>1 DEF OneAtATime
  <2>3. Passed(w)' \subseteq Passed(w)
    BY <2>1 DEF Passed
  <2>4. From(w) = WindowStart(w, now) /\ WindowStart(w, now) \in Nat
    BY <2>2, WindowFacts DEF From
  <2>5. at[r] \in Nat /\ at[r] <= now /\ "day" \in Windows
    BY Constants DEF TypeOK, Ticks, ClocksSound, Windows
  <2>6. ~(w = "day" /\ at[r] >= WindowStart(w, now)) => r \notin Owing(w)
    <3>1. ASSUME NEW a \in Accepted(w), a.nr = job[r] PROVE at[r] >= WindowStart(w, now)
      <4>1. a \in accepted /\ From(w) <= a.at /\ a.at \in Nat
        BY Constants DEF Accepted, TypeOK, Ticks
      <4>2. a.at <= at[r]
        BY <2>1, <3>1, <4>1 DEF JobsSound
      <4> QED
        BY <2>4, <2>5, <4>1, <4>2
    <3>2. w # "day" => ~Owes(r, w)
      BY <2>1 DEF Owes
    <3> QED
      BY <3>1, <3>2 DEF Owing
  <2>7. \A q \in Requests : q # r => pc'[q] = pc[q] /\ job'[q] = job[q]
    BY <2>1
  <2> QED
    BY <1>w, <2>1, <2>2, <2>3, <2>5, <2>6, <2>7, WindowCounted
<1>8. ASSUME Finish PROVE WindowSound(w)'
  BY <1>1, <1>8 DEF Finish
<1>9. ASSUME Tick PROVE WindowSound(w)'
  BY <1>9, <1>w, WindowTicked
<1>10. CASE UNCHANGED vars
  BY <1>1, <1>10 DEF vars
<1>11. ASSUME NEW r \in Requests, Fail(r) PROVE WindowSound(w)'
  BY <1>11, <1>w, WindowFailed
<1>12. CASE Restart
  <2>1. uncounted'[w] = accepted'
    BY <1>12 DEF Restart
  <2>2. Accepted(w)' = {}
    BY <2>1 DEF Accepted
  <2> QED
    BY <2>2, WindowEmptied
<1> QED
  BY <1>2, <1>3, <1>4, <1>5, <1>6, <1>7, <1>8, <1>9, <1>10, <1>11, <1>12
  DEF Next, CreateJob

LEMMA LimitStep == LimitInv /\ [Next]_vars => LimitInv'
BY LimitTypeStep, ClocksStep, OneStep, JobsStep, DenialStep, WindowsStep DEF LimitInv

\* In either backend, however requests overlap, fail and restart, the jobs accepted
\* in a day are no more than the daily limit, the requests in flight less one, and
\* the jobs whose count failed or was lost with the process.
THEOREM DaysAreLimited == Spec => []DailyLimit
<1>1. Init => LimitInv
  BY InitLimit
<1>2. LimitInv => DailyLimit
  <2> SUFFICES ASSUME LimitInv PROVE DailyLimit
    OBVIOUS
  <2>1. WindowSound("day") /\ TypeOK
    BY DEF LimitInv, WindowsSound, Windows
  <2>2. AcceptedIn("day", WindowStart("day", now), WindowStart("day", now) + Day)
          = Cardinality(Accepted("day"))
    BY DEF AcceptedIn, Accepted, From, Length
  <2>3. /\ Cardinality(Accepted("day")) \in Nat /\ Cardinality(Passed("day")) \in Nat
        /\ Overlap \in Int /\ PerDay \in Nat
    BY <2>1, Tallies, Constants DEF Tallied, Windows
  <2> QED
    BY <2>1, <2>2, <2>3 DEF DailyLimit, WindowSound, Limit
<1> QED
  BY <1>1, <1>2, LimitStep, PTL DEF Spec

\* The same of the hourly limit, in postgres' clock hours and in memory's hours
\* from the first count after a reset.
THEOREM HoursAreLimited == Spec => []HourlyLimit
<1>1. Init => LimitInv
  BY InitLimit
<1>2. LimitInv => HourlyLimit
  <2> SUFFICES ASSUME LimitInv PROVE HourlyLimit
    OBVIOUS
  <2> DEFINE h == IF backend = "postgres" THEN WindowStart("hour", now)
                  ELSE entry.hourReset - Hour
  <2>1. WindowSound("hour") /\ TypeOK
    BY DEF LimitInv, WindowsSound, Windows
  <2>2. h = From("hour")
    BY <2>1, SimpleTypes DEF From
  <2>3. AcceptedIn("hour", h, h + Hour) = Cardinality(Accepted("hour"))
    BY <2>2 DEF AcceptedIn, Accepted, Length
  <2>4. /\ Cardinality(Accepted("hour")) \in Nat /\ Cardinality(Passed("hour")) \in Nat
        /\ Overlap \in Int /\ PerHour \in Nat
    BY <2>1, Tallies, Constants DEF Tallied, Windows
  <2> QED
    BY <2>1, <2>3, <2>4 DEF HourlyLimit, WindowSound, Limit
<1> QED
  BY <1>1, <1>2, LimitStep, PTL DEF Spec
=============================================================================
