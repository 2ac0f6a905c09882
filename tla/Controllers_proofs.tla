------------------------- MODULE Controllers_proofs -------------------------
(***************************************************************************)
(* Proofs about GGnWindow, AIMD, ExpAvg and Search, for every window       *)
(* length, unit, precision, bound and set of times.                        *)
(***************************************************************************)
EXTENDS GGnWindow, AIMD, ExpAvg, Search, SequenceTheorems, TLAPS

\* Arithmetic that the provers need to be told.
LEMMA BoundMonotonic ==
  ASSUME NEW a \in Nat, NEW b \in Nat, a <= b, NEW u \in Nat
  PROVE  /\ (2 * a + 1) * u \in Nat /\ (2 * b + 1) * u \in Nat
         /\ (2 * a + 1) * u <= (2 * b + 1) * u
<1> DEFINE n == 2 * a + 1
           m == 2 * b + 1
<1>1. n \in Nat /\ m \in Nat /\ n <= m
  OBVIOUS
<1> HIDE DEF n, m
<1>2. n * u \in Nat /\ m * u \in Nat /\ n * u <= m * u
  BY <1>1
<1> QED
  BY <1>2 DEF n, m

LEMMA SquareOver ==
  ASSUME NEW u \in Nat \ {0}, NEW d \in Nat, d >= u
  PROVE  (u * u) \div d \in Nat /\ (u * u) \div d <= u
<1>1. u * u <= u * d /\ u * u \in Nat /\ u * d \in Nat
  OBVIOUS
<1> DEFINE k == (u * u) \div d
<1>2. k \in Nat /\ d * k <= u * u
  BY <1>1
<1>3. d * k <= d * u
  BY <1>1, <1>2
<1> QED
  BY <1>2, <1>3

LEMMA HalfWithoutFraction ==
  ASSUME NEW u \in Nat \ {0}, NEW x \in Nat
  PROVE  (x \div (2 * u)) * u \in Nat /\ (x \div (2 * u)) * u <= x
<1> DEFINE k == x \div (2 * u)
<1>1. k \in Nat /\ (2 * u) * k <= x
  OBVIOUS
<1>2. k * u \in Nat /\ (2 * u) * k = 2 * (k * u)
  BY <1>1
<1> QED
  BY <1>1, <1>2

-----------------------------------------------------------------------------
(* AIMD *)

\* Where the threads of each controller can be.
PlacesOK ==
  /\ aimd = "pull" => /\ at["putter"] \in {"idle", "incr", "write", "max"}
                      /\ at["handler"] \in {"idle", "dec", "limit"}
  /\ aimd = "push" => at["putter"] \in {"token", "incr", "write", "max", "idle"}

CountInv ==
  /\ AIMDTypeOK /\ PlacesOK
  /\ q_len - Exact <= missed /\ Exact - q_len <= missed

LimitInv == q_len_limit <= (2 * q_len_max + 1) * Unit

\* One job or token of a push controller is under way, and still is if no update
\* of the count was missed.
UnderWay ==
  on_fly + Counted(at["putter"] = "token")
         + Counted(at["handler"] \in {"dec", "limit", "test", "token"})

StreamInv == aimd = "push" => UnderWay <= 1 /\ (missed = 0 => UnderWay = 1)

AIMDInv == CountInv /\ LimitInv /\ StreamInv

LEMMA AIMDInitInv == AIMDInit => AIMDInv
<1> SUFFICES ASSUME AIMDInit PROVE AIMDInv
  OBVIOUS
<1>1. Unit \in Nat /\ 2 * Unit \in Nat /\ 2 * Unit <= (2 * 2 + 1) * Unit
  BY UnitAssumption
<1>2. /\ q_len_max = 2 /\ q_len_limit = 2 * Unit /\ on_fly = 0 /\ q_len = 0 /\ missed = 0
      /\ aimd \in {"push", "pull"} /\ copy = [t \in Threads |-> 0]
      /\ at["handler"] = "idle" /\ at["putter"] = IF aimd = "push" THEN "token" ELSE "idle"
      /\ at \in [Threads -> {"idle", "token"}]
  BY DEF AIMDInit, Threads
<1>3. LimitInv
  BY <1>1, <1>2 DEF LimitInv
<1>4. CountInv
  <2>1. Exact = 0
    <3>1. \/ aimd = "push" /\ at["putter"] = "token" /\ at["handler"] = "idle"
          \/ aimd = "pull" /\ at["putter"] = "idle" /\ at["handler"] = "idle"
      BY <1>2
    <3>2. /\ Counted(at["handler"] = "dec") = 0 /\ Counted(at["putter"] = "max") = 0
          /\ Counted(at["putter"] \in {"incr", "write"}) = 0
          /\ Counted(at["handler"] \in {"incr", "write"}) = 0
      BY <3>1 DEF Counted
    <3>3. on_fly = 0
      BY <1>2
    <3> QED
      BY <3>2, <3>3 DEF Exact
  <2>2. AIMDTypeOK
    BY <1>1, <1>2 DEF AIMDTypeOK
  <2>3. PlacesOK
    BY <1>2 DEF PlacesOK
  <2> QED
    BY <1>2, <2>1, <2>2, <2>3 DEF CountInv
<1>5. StreamInv
  BY <1>2 DEF StreamInv, UnderWay, Counted
<1> QED
  BY <1>3, <1>4, <1>5 DEF AIMDInv

\* The limit stays a number, at most one above twice the longest queue.
LEMMA Limits ==
  ASSUME AIMDTypeOK, LimitInv, NEW late \in BOOLEAN
  PROVE  /\ PushLimit(late) \in Nat /\ PullLimit(late) \in Nat
         /\ PushLimit(late) <= (2 * q_len_max + 1) * Unit
         /\ PullLimit(late) <= (2 * q_len_max + 1) * Unit
<1> DEFINE b == 2 * q_len_max * Unit
<1>1. /\ q_len_limit \in Nat /\ Unit \in Nat \ {0} /\ b \in Nat
      /\ (2 * q_len_max + 1) * Unit = b + Unit
  BY UnitAssumption DEF AIMDTypeOK
<1>2. q_len_limit >= Unit => /\ (Unit * Unit) \div q_len_limit \in Nat
                             /\ (Unit * Unit) \div q_len_limit <= Unit
  BY <1>1, SquareOver
<1>3. /\ (q_len_limit \div (2 * Unit)) * Unit \in Nat
      /\ (q_len_limit \div (2 * Unit)) * Unit <= q_len_limit
  BY <1>1, HalfWithoutFraction
<1>4. q_len_limit \div 2 \in Nat /\ q_len_limit \div 2 <= q_len_limit
  BY <1>1
<1>5. q_len_limit <= b + Unit
  BY <1>1 DEF LimitInv
<1> HIDE DEF b
<1>6. /\ Increase(q_len_limit, q_len_limit <= Unit) \in Nat
      /\ Increase(q_len_limit, q_len_limit < Unit) \in Nat
      /\ Increase(q_len_limit, q_len_limit <= Unit) <= b + Unit
      /\ Increase(q_len_limit, q_len_limit < Unit) <= b + Unit
  <2> DEFINE step == (Unit * Unit) \div q_len_limit
  <2>1. q_len_limit >= Unit => step \in Nat /\ step <= Unit
    BY <1>2
  <2> HIDE DEF step
  <2>2. \A small \in BOOLEAN : Increase(q_len_limit, small) =
          IF q_len_limit >= b THEN q_len_limit
          ELSE q_len_limit + IF small THEN Unit ELSE step
    BY DEF Increase, b, step
  <2>3. /\ (q_len_limit <= Unit) \in BOOLEAN /\ (q_len_limit < Unit) \in BOOLEAN
    OBVIOUS
  <2>4. /\ Increase(q_len_limit, q_len_limit <= Unit) =
             IF q_len_limit >= b THEN q_len_limit
             ELSE q_len_limit + IF q_len_limit <= Unit THEN Unit ELSE step
        /\ Increase(q_len_limit, q_len_limit < Unit) =
             IF q_len_limit >= b THEN q_len_limit
             ELSE q_len_limit + IF q_len_limit < Unit THEN Unit ELSE step
    BY <2>2, <2>3
  <2> QED
    BY <1>1, <1>5, <2>1, <2>4
<1> QED
  BY <1>1, <1>3, <1>4, <1>5, <1>6 DEF PushLimit, PullLimit

\* The distance of two counts, over a third.
LEMMA ByWayOf ==
  ASSUME NEW e \in Int, NEW q \in Int, NEW c \in Int, NEW n \in Int,
         q - e <= n, e - q <= n
  PROVE  c - e <= n + Distance(q, c) /\ e - c <= n + Distance(q, c)
         /\ Distance(q, c) \in Nat
BY DEF Distance

\* The threads that put and their places, for a step of either.
LEMMA GoStep ==
  ASSUME CountInv, NEW t \in Threads, NEW from, NEW to, Go(t, from, to)
  PROVE  /\ aimd' = aimd /\ at[t] = from /\ at'[t] = to
         /\ \A u \in Threads \ {t} : at'[u] = at[u]
         /\ to \in {"idle", "token", "incr", "write", "max", "dec", "limit", "test", "raised"}
            => at' \in [Threads -> {"idle", "token", "incr", "write", "max", "dec", "limit",
                                    "test", "raised"}]
BY DEF CountInv, AIMDTypeOK, Go

LEMMA CountTypes ==
  CountInv =>
    /\ q_len \in Nat /\ q_len_limit \in Nat /\ q_len_max \in Nat /\ on_fly \in Nat
    /\ missed \in Nat /\ copy \in [Threads -> Nat] /\ Exact \in Int
    /\ aimd \in {"push", "pull"} /\ UnderWay \in Int
    /\ \A t \in Threads : copy[t] \in Nat
BY DEF CountInv, AIMDTypeOK, Exact, UnderWay, Counted

LEMMA TestPutStep == ASSUME AIMDInv, TestPut PROVE AIMDInv'
<1> USE DEF AIMDInv, Threads
<1>1. /\ aimd = "pull" /\ Go("putter", "idle", "incr")
      /\ UNCHANGED <<copy, q_len, q_len_limit, q_len_max, on_fly, missed>>
  BY DEF TestPut
<1>2. /\ aimd' = aimd /\ at["putter"] = "idle" /\ at'["putter"] = "incr"
      /\ at'["handler"] = at["handler"]
      /\ at' \in [Threads -> {"idle", "token", "incr", "write", "max", "dec", "limit",
                              "test", "raised"}]
  BY <1>1, GoStep
<1>3. CountInv'
  BY <1>1, <1>2 DEF CountInv, AIMDTypeOK, PlacesOK, Exact, Counted
<1>4. LimitInv' /\ StreamInv'
  BY <1>1, <1>2 DEF LimitInv, StreamInv
<1> QED
  BY <1>3, <1>4

LEMMA PutStep == ASSUME AIMDInv, NEW t \in Threads, Put(t) PROVE AIMDInv'
<1> USE DEF AIMDInv
<1>0. t \in {"putter", "handler"} /\ {"putter", "handler"} = Threads
  BY DEF Threads
<1>t. /\ q_len \in Nat /\ q_len_limit \in Nat /\ q_len_max \in Nat /\ on_fly \in Nat
      /\ missed \in Nat /\ copy \in [Threads -> Nat] /\ Exact \in Int
      /\ aimd \in {"push", "pull"} /\ copy[t] \in Nat
  BY CountTypes
<1>1. CASE LetGo(t)
  <2>1. /\ Go(t, "token", "incr") /\ on_fly' = on_fly + 1
        /\ UNCHANGED <<copy, q_len, q_len_limit, q_len_max, missed>>
    BY <1>1 DEF LetGo
  <2>2. /\ aimd' = aimd /\ at[t] = "token" /\ at'[t] = "incr"
        /\ \A u \in Threads \ {t} : at'[u] = at[u]
        /\ at' \in [Threads -> {"idle", "token", "incr", "write", "max", "dec", "limit",
                                "test", "raised"}]
    BY <2>1, GoStep
  <2>3. aimd = "push"
    BY <1>0, <1>t, <2>2 DEF CountInv, PlacesOK
  <2>4. Exact' = Exact /\ UnderWay' = UnderWay
    BY <1>0, <1>t, <2>1, <2>2, <2>3 DEF Exact, UnderWay, Counted
  <2>5. CountInv'
    BY <1>0, <1>t, <2>1, <2>2, <2>3, <2>4 DEF CountInv, AIMDTypeOK, PlacesOK
  <2>6. LimitInv' /\ StreamInv'
    BY <2>1, <2>2, <2>4 DEF LimitInv, StreamInv
  <2> QED
    BY <2>5, <2>6
<1>2. CASE ReadForPut(t)
  <2>1. /\ Go(t, "incr", "write") /\ copy' = [copy EXCEPT ![t] = q_len]
        /\ UNCHANGED <<q_len, q_len_limit, q_len_max, on_fly, missed>>
    BY <1>2 DEF ReadForPut
  <2>2. /\ aimd' = aimd /\ at[t] = "incr" /\ at'[t] = "write"
        /\ \A u \in Threads \ {t} : at'[u] = at[u]
        /\ at' \in [Threads -> {"idle", "token", "incr", "write", "max", "dec", "limit",
                                "test", "raised"}]
    BY <2>1, GoStep
  <2>3. Exact' = Exact /\ UnderWay' = UnderWay /\ copy' \in [Threads -> Nat]
    BY <1>0, <1>t, <2>1, <2>2 DEF Exact, UnderWay, Counted
  <2>4. CountInv'
    BY <1>0, <1>t, <2>1, <2>2, <2>3 DEF CountInv, AIMDTypeOK, PlacesOK
  <2>5. LimitInv' /\ StreamInv'
    BY <2>1, <2>2, <2>3 DEF LimitInv, StreamInv
  <2> QED
    BY <2>4, <2>5
<1>3. CASE WriteForPut(t)
  <2>1. /\ Go(t, "write", "max") /\ q_len' = copy[t] + 1
        /\ missed' = missed + Distance(q_len, copy[t])
        /\ UNCHANGED <<copy, q_len_limit, q_len_max, on_fly>>
    BY <1>3 DEF WriteForPut
  <2>2. /\ aimd' = aimd /\ at[t] = "write" /\ at'[t] = "max"
        /\ \A u \in Threads \ {t} : at'[u] = at[u]
        /\ at' \in [Threads -> {"idle", "token", "incr", "write", "max", "dec", "limit",
                                "test", "raised"}]
    BY <2>1, GoStep
  <2>3. aimd = "pull" => t = "putter"
    BY <1>0, <2>2 DEF CountInv, PlacesOK
  <2>4. Exact' = Exact + 1 /\ UnderWay' = UnderWay
    BY <1>0, <1>t, <2>1, <2>2, <2>3 DEF Exact, UnderWay, Counted
  <2>5. /\ copy[t] - Exact <= missed' /\ Exact - copy[t] <= missed'
        /\ missed' \in Nat /\ missed' >= missed
    <3> DEFINE c == copy[t]
    <3>1. c \in Nat /\ missed' = missed + Distance(q_len, c)
      BY <1>t, <2>1
    <3> HIDE DEF c
    <3>2. q_len - Exact <= missed /\ Exact - q_len <= missed
      BY DEF CountInv
    <3>3. /\ c - Exact <= missed + Distance(q_len, c) /\ Exact - c <= missed + Distance(q_len, c)
          /\ Distance(q_len, c) \in Nat
      BY <1>t, <3>1, <3>2, ByWayOf
    <3>4. c - Exact <= missed' /\ Exact - c <= missed' /\ missed' \in Nat /\ missed' >= missed
      BY <1>t, <3>1, <3>3
    <3> QED
      BY <3>4 DEF c
  <2>6. CountInv'
    <3>1. q_len' - Exact' <= missed' /\ Exact' - q_len' <= missed' /\ q_len' \in Nat
      BY <1>t, <2>1, <2>4, <2>5
    <3> QED
      BY <1>0, <1>t, <2>1, <2>2, <2>5, <3>1 DEF CountInv, AIMDTypeOK, PlacesOK
  <2>7. StreamInv'
    BY <1>t, <2>2, <2>4, <2>5 DEF StreamInv
  <2>8. LimitInv'
    BY <2>1 DEF LimitInv
  <2> QED
    BY <2>6, <2>7, <2>8
<1>4. CASE KeepMax(t)
  <2>1. /\ Go(t, "max", "idle") /\ q_len_max' = Larger(q_len_max, q_len)
        /\ on_fly' = IF aimd = "pull" THEN on_fly + 1 ELSE on_fly
        /\ UNCHANGED <<copy, q_len, q_len_limit, missed>>
    BY <1>4 DEF KeepMax
  <2>2. /\ aimd' = aimd /\ at[t] = "max" /\ at'[t] = "idle"
        /\ \A u \in Threads \ {t} : at'[u] = at[u]
        /\ at' \in [Threads -> {"idle", "token", "incr", "write", "max", "dec", "limit",
                                "test", "raised"}]
    BY <2>1, GoStep
  <2>3. aimd = "pull" => t = "putter"
    BY <1>0, <2>2 DEF CountInv, PlacesOK
  <2>4. Exact' = Exact /\ (aimd = "push" => UnderWay' = UnderWay)
    BY <1>0, <1>t, <2>1, <2>2, <2>3 DEF Exact, UnderWay, Counted
  <2>5. q_len_max' \in Nat /\ q_len_max' >= q_len_max
    BY <1>t, <2>1 DEF Larger
  <2>6. CountInv'
    <3>1. on_fly' \in Nat
      BY <1>t, <2>1
    <3> QED
      BY <1>0, <1>t, <2>1, <2>2, <2>4, <2>5, <3>1 DEF CountInv, AIMDTypeOK, PlacesOK
  <2>7. StreamInv'
    BY <2>1, <2>2, <2>4 DEF StreamInv
  <2>8. LimitInv'
    <3> DEFINE old == (2 * q_len_max + 1) * Unit
               new == (2 * q_len_max' + 1) * Unit
    <3>1. old \in Nat /\ new \in Nat /\ old <= new
      <4>1. Unit \in Nat
        BY UnitAssumption
      <4> QED
        BY <1>t, <2>5, <4>1, BoundMonotonic
    <3>2. q_len_limit <= old
      BY DEF LimitInv
    <3> HIDE DEF old, new
    <3>3. q_len_limit' <= new
      BY <1>t, <2>1, <3>1, <3>2
    <3> QED
      BY <3>3 DEF LimitInv, new
  <2> QED
    BY <2>6, <2>7, <2>8
<1> QED
  BY <1>1, <1>2, <1>3, <1>4 DEF Put

LEMMA HandleResultStep == ASSUME AIMDInv, HandleResult PROVE AIMDInv'
<1> USE DEF AIMDInv
<1>0. Threads = {"putter", "handler"} /\ "handler" \in Threads
  BY DEF Threads
<1>t. /\ q_len \in Nat /\ q_len_limit \in Nat /\ q_len_max \in Nat /\ on_fly \in Nat
      /\ missed \in Nat /\ copy \in [Threads -> Nat] /\ Exact \in Int
      /\ aimd \in {"push", "pull"} /\ copy["handler"] \in Nat
  BY <1>0, CountTypes
<1>1. CASE TakeResult
  <2>1. /\ Go("handler", "idle", "dec") /\ on_fly > 0 /\ on_fly' = on_fly - 1
        /\ copy' = [copy EXCEPT !["handler"] = q_len]
        /\ UNCHANGED <<q_len, q_len_limit, q_len_max, missed>>
    BY <1>1 DEF TakeResult
  <2>2. /\ aimd' = aimd /\ at["handler"] = "idle" /\ at'["handler"] = "dec"
        /\ at'["putter"] = at["putter"]
        /\ at' \in [Threads -> {"idle", "token", "incr", "write", "max", "dec", "limit",
                                "test", "raised"}]
    BY <1>0, <2>1, GoStep
  <2>3. Exact' = Exact /\ UnderWay' = UnderWay /\ copy' \in [Threads -> Nat]
        /\ on_fly' \in Nat
    BY <1>0, <1>t, <2>1, <2>2 DEF Exact, UnderWay, Counted
  <2>4. CountInv'
    BY <1>t, <2>1, <2>2, <2>3 DEF CountInv, AIMDTypeOK, PlacesOK
  <2>5. LimitInv' /\ StreamInv'
    BY <2>1, <2>2, <2>3 DEF LimitInv, StreamInv
  <2> QED
    BY <2>4, <2>5
<1>2. CASE WriteForResult
  <2> DEFINE c == copy["handler"]
  <2>1. /\ Go("handler", "dec", "limit") /\ q_len' = Cut(c - 1)
        /\ missed' = missed + Distance(q_len, c) + (IF c = 0 THEN 1 ELSE 0)
        /\ UNCHANGED <<copy, q_len_limit, q_len_max, on_fly>>
    BY <1>2 DEF WriteForResult
  <2>2. /\ aimd' = aimd /\ at["handler"] = "dec" /\ at'["handler"] = "limit"
        /\ at'["putter"] = at["putter"]
        /\ at' \in [Threads -> {"idle", "token", "incr", "write", "max", "dec", "limit",
                                "test", "raised"}]
    BY <1>0, <2>1, GoStep
  <2>3. Exact' = Exact - 1 /\ UnderWay' = UnderWay
    BY <1>0, <1>t, <2>1, <2>2 DEF Exact, UnderWay, Counted
  <2> HIDE DEF c
  <2>4. c \in Nat
    BY <1>t DEF c
  <2>5. /\ c - Exact <= missed + Distance(q_len, c) /\ Exact - c <= missed + Distance(q_len, c)
        /\ Distance(q_len, c) \in Nat
    BY <1>t, <2>4, ByWayOf DEF CountInv
  <2>6. q_len' = IF c = 0 THEN 0 ELSE c - 1
    BY <2>1, <2>4 DEF Cut, Larger
  <2>7. /\ q_len' - Exact' <= missed' /\ Exact' - q_len' <= missed'
        /\ q_len' \in Nat /\ missed' \in Nat /\ missed' >= missed
    BY <1>t, <2>1, <2>3, <2>4, <2>5, <2>6
  <2>8. CountInv'
    BY <1>t, <2>1, <2>2, <2>7 DEF CountInv, AIMDTypeOK, PlacesOK
  <2>9. StreamInv'
    BY <1>t, <2>2, <2>3, <2>7 DEF StreamInv
  <2>10. LimitInv'
    BY <2>1 DEF LimitInv
  <2> QED
    BY <2>8, <2>9, <2>10
<1>3. CASE AdaptLimit
  <2>1. PICK late \in BOOLEAN :
          q_len_limit' = IF aimd = "push" THEN PushLimit(late) ELSE PullLimit(late)
    BY <1>3 DEF AdaptLimit
  <2>2. /\ Go("handler", "limit", IF aimd = "push" THEN "test" ELSE "idle")
        /\ UNCHANGED <<copy, q_len, q_len_max, on_fly, missed>>
    BY <1>3 DEF AdaptLimit
  <2>3. /\ aimd' = aimd /\ at["handler"] = "limit"
        /\ at'["handler"] = IF aimd = "push" THEN "test" ELSE "idle"
        /\ at'["putter"] = at["putter"]
        /\ at' \in [Threads -> {"idle", "token", "incr", "write", "max", "dec", "limit",
                                "test", "raised"}]
    BY <1>0, <2>2, GoStep
  <2>4. Exact' = Exact /\ (aimd = "push" => UnderWay' = UnderWay)
    BY <1>0, <1>t, <2>2, <2>3 DEF Exact, UnderWay, Counted
  <2>5. q_len_limit' \in Nat /\ q_len_limit' <= (2 * q_len_max + 1) * Unit
    BY <2>1, Limits DEF CountInv
  <2>6. CountInv'
    BY <1>t, <2>2, <2>3, <2>4, <2>5 DEF CountInv, AIMDTypeOK, PlacesOK
  <2>7. LimitInv'
    BY <2>2, <2>5 DEF LimitInv
  <2>8. StreamInv'
    BY <2>2, <2>3, <2>4 DEF StreamInv
  <2> QED
    BY <2>6, <2>7, <2>8
<1>4. CASE TestNext
  <2> DEFINE to == IF MayPut THEN "token" ELSE IF q_len_limit = 0 THEN "raised" ELSE "idle"
  <2>1. /\ Go("handler", "test", to)
        /\ UNCHANGED <<copy, q_len, q_len_limit, q_len_max, on_fly, missed>>
    BY <1>4 DEF TestNext
  <2>2. /\ aimd' = aimd /\ at["handler"] = "test" /\ at'["handler"] = to
        /\ at'["putter"] = at["putter"]
        /\ at' \in [Threads -> {"idle", "token", "incr", "write", "max", "dec", "limit",
                                "test", "raised"}]
    BY <1>0, <2>1, GoStep
  <2>3. aimd = "push"
    BY <1>t, <2>2 DEF CountInv, PlacesOK
  <2>4. Exact' = Exact
    BY <1>0, <1>t, <2>1, <2>2 DEF Exact, Counted
  <2>5. CountInv'
    BY <1>t, <2>1, <2>2, <2>3, <2>4 DEF CountInv, AIMDTypeOK, PlacesOK
  <2>6. LimitInv'
    BY <2>1 DEF LimitInv
  <2>7. StreamInv'
    <3>1. UnderWay' = IF MayPut THEN UnderWay ELSE UnderWay - 1
      BY <1>0, <1>t, <2>1, <2>2 DEF UnderWay, Counted
    <3>2. UnderWay <= 1 /\ (missed = 0 => UnderWay = 1) /\ UnderWay \in Int
      BY <2>3, CountTypes DEF StreamInv
    <3>3. missed = 0 => MayPut
      <4> SUFFICES ASSUME missed = 0 PROVE q_len = 0
        BY DEF MayPut
      <4>1. on_fly = 0 /\ at["putter"] # "token"
        BY <1>t, <2>2, <3>2 DEF UnderWay, Counted
      <4>2. Exact <= 0
        BY <2>2, <2>3, <4>1 DEF Exact, Counted
      <4> QED
        BY <1>t, <4>2 DEF CountInv
    <3> QED
      BY <1>t, <2>1, <2>2, <3>1, <3>2, <3>3 DEF StreamInv
  <2> QED
    BY <2>5, <2>6, <2>7
<1> QED
  BY <1>1, <1>2, <1>3, <1>4 DEF HandleResult

LEMMA AIMDStep == AIMDInv /\ [AIMDNext]_aimdVars => AIMDInv'
<1> SUFFICES ASSUME AIMDInv, [AIMDNext]_aimdVars PROVE AIMDInv'
  OBVIOUS
<1>1. CASE UNCHANGED aimdVars
  BY <1>1 DEF aimdVars, AIMDInv, CountInv, LimitInv, StreamInv, AIMDTypeOK, PlacesOK, Exact,
              UnderWay, Counted
<1> QED
  BY <1>1, TestPutStep, PutStep, HandleResultStep DEF AIMDNext

\* The unlocked count of either controller is off by no more than the updates
\* that its threads made each other miss, and its limit stays within one of
\* twice the longest queue.
THEOREM CountIsOffByMisses == AIMDSpec => []AIMDWindow
<1>1. AIMDInv => AIMDWindow
  BY DEF AIMDInv, CountInv, LimitInv, AIMDWindow
<1> QED
  BY <1>1, AIMDInitInv, AIMDStep, PTL DEF AIMDSpec

\* Whatever the delays, a push controller has one job on the fly at most, and its
\* stream ends only if its constructor and the first result raced for the count.
THEOREM StreamEndsOnlyRaced == AIMDSpec => []PushStream
<1>1. ASSUME AIMDInv PROVE PushStream
  <2> SUFFICES ASSUME aimd = "push"
               PROVE  /\ on_fly <= 1
                      /\ on_fly = 0 /\ at["putter"] = "idle"
                           /\ at["handler"] \in {"idle", "raised"} => missed > 0
    BY DEF PushStream
  <2>1. on_fly \in Nat /\ missed \in Nat
    BY <1>1, CountTypes DEF AIMDInv
  <2>2. UnderWay <= 1 /\ (missed = 0 => UnderWay = 1)
    BY <1>1 DEF AIMDInv, StreamInv
  <2> QED
    BY <2>1, <2>2 DEF UnderWay, Counted
<1> QED
  BY <1>1, AIMDInitInv, AIMDStep, PTL DEF AIMDSpec

-----------------------------------------------------------------------------
(* ExpAvg *)

\* Averages are of positive times, and only "md" has a permit.
AvgInv ==
  /\ AvgTypeOK
  /\ AverageStaysInRange
  /\ gap # NoTime => gap > 0 /\ shortest \in Nat /\ longest \in Nat /\ shortest <= longest

LEMMA AvgUpdateKeepsInv ==
  ASSUME AvgInv, AvgUpdate
  PROVE  AvgInv'
<1>1. PICK t \in Times : /\ gap' \in NextGaps(t)
                         /\ shortest' = Extreme(t, shortest, TRUE)
                         /\ longest' = Extreme(t, longest, FALSE)
  BY DEF AvgUpdate
<1>2. t \in Nat /\ t > 0 /\ NoTime \notin Nat
  BY TimesAssumption
<1>3. /\ UNCHANGED <<averager, thread, made, puts>>
      /\ answers' = answers + 1
      /\ permits' \in {permits, permits + 1}
  BY DEF AvgUpdate
<1>4. CASE gap = NoTime
  <2>1. gap' = t /\ shortest' = t /\ longest' = t
    BY <1>1, <1>4 DEF NextGaps, Extreme, AvgInv, AverageStaysInRange
  <2> QED
    BY <1>2, <1>3, <2>1 DEF AvgInv, AvgTypeOK, AverageStaysInRange
<1>5. CASE gap # NoTime
  <2>1. /\ gap \in Nat /\ gap > 0 /\ shortest \in Nat /\ longest \in Nat
        /\ shortest <= gap /\ shortest <= longest
        /\ gap <= longest \/ (averager = "md" /\ gap < 2 * longest)
        /\ shortest # NoTime /\ longest # NoTime
    BY <1>2, <1>5 DEF AvgInv, AvgTypeOK, AverageStaysInRange
  <2>2. /\ shortest' = (IF t < shortest THEN t ELSE shortest)
        /\ longest' = (IF t > longest THEN t ELSE longest)
    BY <1>1, <2>1 DEF Extreme
  <2>3. \/ averager = "md" /\ t > gap /\ gap' = 2 * gap
        \/ gap' = (gap + t) \div 2
        \/ gap' = (gap + t + 1) \div 2
    BY <1>1, <1>5 DEF NextGaps, Averaged, Halves
  <2>4. /\ gap' \in Nat /\ gap' > 0
        /\ shortest' \in Nat /\ longest' \in Nat /\ shortest' <= longest' /\ shortest' <= gap'
        /\ gap' <= longest' \/ (averager = "md" /\ gap' < 2 * longest')
    BY <1>2, <2>1, <2>2, <2>3
  <2>5. gap' # NoTime /\ averager' = averager
    BY <1>2, <1>3, <2>4
  <2>6. AvgTypeOK'
    BY <1>3, <2>4 DEF AvgInv, AvgTypeOK
  <2>7. AverageStaysInRange'
    BY <2>4, <2>5 DEF AverageStaysInRange
  <2> QED
    BY <2>4, <2>6, <2>7 DEF AvgInv
<1> QED
  BY <1>4, <1>5

LEMMA AvgStep == AvgInv /\ [AvgNext]_avgVars => AvgInv'
<1> SUFFICES ASSUME AvgInv, [AvgNext]_avgVars PROVE AvgInv'
  OBVIOUS
<1>1. ASSUME Made PROVE AvgInv'
  BY <1>1 DEF Made, PutToken, AvgInv, AvgTypeOK, AverageStaysInRange
<1>2. ASSUME AvgRun PROVE AvgInv'
  <2>1. /\ UNCHANGED <<averager, gap, made, answers, shortest, longest>>
        /\ thread' \in {"check", "sleep", "died", "top", "sync"}
        /\ permits' \in Nat /\ puts' \in Nat
    BY <1>2 DEF AvgRun, AvgCheck, AvgSleep, MDProbe, MDSynced, MDSleep, MDSlept, PutToken,
                AvgInv, AvgTypeOK
  <2> QED
    BY <2>1 DEF AvgInv, AvgTypeOK, AverageStaysInRange
<1>3. CASE UNCHANGED avgVars
  BY <1>3 DEF avgVars, AvgInv, AvgTypeOK, AverageStaysInRange
<1> QED
  BY <1>1, <1>2, <1>3, AvgUpdateKeepsInv DEF AvgNext

\* For any positive times in any order, the averaged gap stays between the
\* extremes seen, the doubled one below twice the longest.
THEOREM AverageIsBounded == AvgSpec => []AverageStaysInRange
<1>1. AvgInit => AvgInv
  BY TimesAssumption DEF AvgInit, AvgInv, AvgTypeOK, AverageStaysInRange
<1>2. AvgInv => AverageStaysInRange
  BY DEF AvgInv
<1> QED
  BY <1>1, <1>2, AvgStep, PTL DEF AvgSpec

-----------------------------------------------------------------------------
(* ExpAvg: the tokens before the first result.                             *)

\* Until the constructor of "avg" has put its token nothing can come back, and
\* "md" waits for the result of its probe before it puts another token.
TokenInv ==
  /\ answers <= puts
  /\ gap = NoTime <=> answers = 0
  /\ gap = NoTime => permits = 0
  /\ averager = "avg" =>
       /\ thread \in {"check", "sleep", "died"}
       /\ gap = NoTime \/ thread = "died" => puts = IF made THEN 1 ELSE 0
       /\ ~made => gap = NoTime
  /\ averager = "md" =>
       /\ made /\ thread \in {"top", "sync", "sleep"}
       /\ gap = NoTime => \/ thread = "top" /\ puts = 0
                          \/ thread = "sync" /\ puts = 1

LEMMA TokenStep == AvgInv /\ TokenInv /\ [AvgNext]_avgVars => TokenInv'
<1> SUFFICES ASSUME AvgInv, TokenInv, [AvgNext]_avgVars PROVE TokenInv'
  OBVIOUS
<1>1. /\ answers \in Nat /\ puts \in Nat /\ permits \in Nat /\ made \in BOOLEAN
      /\ averager \in {"avg", "md"}
  BY DEF AvgInv, AvgTypeOK
<1>2. CASE Made
  BY <1>1, <1>2 DEF Made, PutToken, TokenInv
<1>3. CASE AvgRun
  <2>1. UNCHANGED <<averager, gap, made, answers>>
    BY <1>3 DEF AvgRun
  <2>2. CASE AvgCheck \/ AvgSleep
    BY <1>1, <2>1, <2>2 DEF AvgCheck, AvgSleep, PutToken, TokenInv
  <2>3. CASE MDProbe \/ MDSynced
    BY <1>1, <2>1, <2>3 DEF MDProbe, MDSynced, PutToken, TokenInv
  <2>4. CASE MDSleep \/ MDSlept
    BY <1>1, <2>1, <2>4 DEF MDSleep, MDSlept, PutToken, TokenInv
  <2> QED BY <1>3, <2>2, <2>3, <2>4 DEF AvgRun
<1>4. CASE AvgUpdate
  <2>1. /\ answers' = answers + 1 /\ puts - answers > 0
        /\ UNCHANGED <<averager, thread, made, puts>>
    BY <1>4 DEF AvgUpdate, num_jobs_on_fly
  <2>2. gap' # NoTime
    BY <1>4, AvgUpdateKeepsInv, TimesAssumption DEF AvgUpdate, AvgInv, AvgTypeOK,
       AverageStaysInRange, NextGaps, Averaged, Halves
  <2> QED BY <1>1, <2>1, <2>2 DEF TokenInv
<1>5. CASE UNCHANGED avgVars
  BY <1>5 DEF avgVars, TokenInv
<1> QED
  BY <1>2, <1>3, <1>4, <1>5 DEF AvgNext

\* Before the first result there is one job at most, and a thread that fell
\* asleep without a gap puts no token any more.
THEOREM OneTokenFirst == AvgSpec => []OneTokenBeforeFirstResult
<1>1. AvgInit => AvgInv
  BY TimesAssumption DEF AvgInit, AvgInv, AvgTypeOK, AverageStaysInRange
<1>2. AvgInit => TokenInv
  <2> SUFFICES ASSUME AvgInit PROVE TokenInv
    OBVIOUS
  <2>1. /\ gap = NoTime /\ permits = 0 /\ puts = 0 /\ answers = 0
        /\ thread = IF averager = "avg" THEN "check" ELSE "top"
        /\ made <=> averager = "md"
    BY DEF AvgInit
  <2>2. averager = "avg" => averager # "md"
    OBVIOUS
  <2> QED BY <2>1, <2>2 DEF TokenInv
<1>3. TokenInv /\ AvgInv => OneTokenBeforeFirstResult
  BY DEF TokenInv, AvgInv, AvgTypeOK, OneTokenBeforeFirstResult
<1> QED
  BY <1>1, <1>2, <1>3, AvgStep, TokenStep, PTL DEF AvgSpec

-----------------------------------------------------------------------------
(* Search *)

SearchInv == SearchTypeOK /\ SearchBrackets

LEMMA SearchStep == SearchInv /\ [SearchNext]_searchVars => SearchInv'
<1> SUFFICES ASSUME SearchInv, [SearchNext]_searchVars PROVE SearchInv'
  OBVIOUS
<1> USE DEF SearchInv, SearchTypeOK, SearchBrackets, HasValue, Reaches
<1>1. ASSUME Bracket PROVE SearchInv'
  <2>1. r' \in Nat
    BY <1>1 DEF Bracket
  <2> QED
    BY <1>1, <2>1 DEF Bracket
<1>2. ASSUME Bisect, IsNarrow PROVE SearchInv'
  BY <1>2 DEF Bisect, IsNarrow
<1>3. ASSUME Bisect, ~IsNarrow PROVE SearchInv'
  <2> DEFINE m == (l + r) \div 2
  <2>1. l < r /\ m \in Nat /\ m <= r
    BY <1>3, PrecisionAssumption DEF IsNarrow
  <2>2. phase = "bisect" /\ Halve(m) /\ UNCHANGED <<search, start, enough, reachable, limit>>
    BY <1>3 DEF Bisect
  <2> HIDE DEF m
  <2>3. HasValue(m)
    BY <2>1, <2>2
  <2> QED
    BY <2>1, <2>2, <2>3 DEF Halve
<1>4. CASE UNCHANGED searchVars
  BY <1>4 DEF searchVars
<1> QED
  BY <1>1, <1>2, <1>3, <1>4 DEF SearchNext

\* For every function and every precision: the halving works on a bracket of the
\* position sought, never compares None, and what it returns is within the
\* precision; without such a position nothing is returned.
THEOREM SearchIsSound == SearchSpec => []SearchBrackets
<1>1. ASSUME SearchInit PROVE SearchInv
  <2>1. /\ start \in Nat /\ r \in Nat /\ l = start /\ phase = "bracket"
        /\ search \in {"rate", "bound"}
    BY <1>1, PrecisionAssumption, ReachAssumption DEF SearchInit
  <2>2. enough \in Nat /\ limit \in Nat /\ reachable \in BOOLEAN
    <3>1. MaxPos \in Nat /\ enough \in 1..MaxPos
      BY <1>1, PrecisionAssumption DEF SearchInit
    <3>2. CASE search = "rate"
      <4>1. reachable = TRUE /\ limit \in {0} \cup enough..MaxPos
        BY <1>1, <3>2 DEF SearchInit
      <4> QED
        BY <3>1, <4>1
    <3>3. CASE search # "rate"
      <4>1. reachable \in BOOLEAN /\ limit = MaxPos
        BY <1>1, <3>3 DEF SearchInit
      <4> QED
        BY <3>1, <4>1
    <3> QED
      BY <3>2, <3>3
  <2> QED
    BY <2>1, <2>2 DEF SearchInv, SearchTypeOK, SearchBrackets
<1>2. SearchInv => SearchBrackets
  BY DEF SearchInv
<1> QED
  BY <1>1, <1>2, SearchStep, PTL DEF SearchSpec

-----------------------------------------------------------------------------
(* GGnWindow: the running total never drifts from the window.              *)

\* The part of the type invariant the window needs.
Types ==
  /\ result_q \in Seq(ServTimes)
  /\ cum_serv_time \in Int
  /\ sums \in Seq(Int) /\ sums # <<>>

WindowInv == Types /\ WindowIsTheLastResults /\ TotalIsTheWindow

\* What a step does to the window, index by index.
LEMMA SlideEntries ==
  ASSUME NEW q \in Seq(ServTimes), Len(q) <= MaxLen, NEW t \in ServTimes
  PROVE  /\ Slide(q, t) \in Seq(ServTimes)
         /\ Len(q) = MaxLen =>
              /\ Len(Slide(q, t)) = Len(q)
              /\ \A i \in 1..(Len(q) - 1) : Slide(q, t)[i] = q[i + 1]
              /\ Slide(q, t)[Len(q)] = t
         /\ Len(q) # MaxLen =>
              /\ Len(Slide(q, t)) = Len(q) + 1
              /\ \A i \in 1..Len(q) : Slide(q, t)[i] = q[i]
              /\ Slide(q, t)[Len(q) + 1] = t
<1>1. CASE Len(q) = MaxLen
  <2>1. /\ Tail(q) \in Seq(ServTimes) /\ Len(Tail(q)) = Len(q) - 1
        /\ \A i \in 1..Len(Tail(q)) : Tail(q)[i] = q[i + 1]
        /\ Len(q) \in Nat \ {0}
    BY <1>1, MaxLenAssumption, HeadTailProperties, EmptySeq
  <2>2. /\ Slide(q, t) \in Seq(ServTimes)
        /\ Len(Slide(q, t)) = Len(Tail(q)) + 1
        /\ \A i \in 1..Len(Tail(q)) : Slide(q, t)[i] = Tail(q)[i]
        /\ Slide(q, t)[Len(Tail(q)) + 1] = t
    BY <1>1, <2>1, AppendProperties DEF Slide
  <2>3. Len(Tail(q)) + 1 = Len(q)
    BY <2>1
  <2> QED
    BY <1>1, <2>1, <2>2, <2>3
<1>2. CASE Len(q) # MaxLen
  BY <1>2, AppendProperties DEF Slide
<1> QED
  BY <1>1, <1>2

LEMMA WindowInit == WInit => WindowInv
  BY MaxLenAssumption
  DEF WInit, WindowInv, Types, WindowIsTheLastResults, TotalIsTheWindow, Count

LEMMA WindowStep ==
  ASSUME WindowInv, NEW t \in ServTimes, NEW share \in Shares, Update(t, share)
  PROVE  WindowInv'
<1> DEFINE q == result_q
           n == Len(q)
           m == Len(sums)
<1>1. /\ q \in Seq(ServTimes) /\ n \in Nat /\ m \in Nat \ {0} /\ t \in Int
      /\ sums \in Seq(Int) /\ \A i \in 1..m : sums[i] \in Int
      /\ MaxLen \in Nat \ {0} /\ cum_serv_time \in Int
      /\ \A i \in 1..n : q[i] \in Int
  BY MaxLenAssumption, ServTimesAssumption, LenProperties, EmptySeq DEF WindowInv, Types
<1>2. /\ n = IF m - 1 < MaxLen THEN m - 1 ELSE MaxLen
      /\ \A i \in 1..n : q[i] = sums[m - 1 - n + i + 1] - sums[m - 1 - n + i]
      /\ cum_serv_time = sums[m - 1 + 1] - sums[m - 1 + 1 - n]
  BY DEF WindowInv, WindowIsTheLastResults, TotalIsTheWindow, Count
<1>3. /\ sums' \in Seq(Int) /\ Len(sums') = m + 1
      /\ \A i \in 1..m : sums'[i] = sums[i]
      /\ sums'[m + 1] = sums[m] + t
  <2>1. sums[m] + t \in Int /\ sums' = Append(sums, sums[m] + t)
    BY <1>1 DEF Update
  <2> QED
    BY <1>1, <2>1, AppendProperties
<1>4. /\ q' = Slide(q, t)
      /\ cum_serv_time' = cum_serv_time + t - (IF n = MaxLen THEN q[1] ELSE 0)
  BY DEF Update, Dropped
<1>5. n <= MaxLen
  BY <1>1, <1>2
<1>6. /\ q' \in Seq(ServTimes)
      /\ n = MaxLen => /\ Len(q') = n
                       /\ \A i \in 1..(n - 1) : q'[i] = q[i + 1]
                       /\ q'[n] = t
      /\ n # MaxLen => /\ Len(q') = n + 1
                       /\ \A i \in 1..n : q'[i] = q[i]
                       /\ q'[n + 1] = t
  BY <1>1, <1>4, <1>5, SlideEntries
<1>7. sums' # <<>>
  BY <1>1, <1>3, EmptySeq
<1>8. Types'
  BY <1>1, <1>3, <1>4, <1>6, <1>7 DEF Types
<1> HIDE DEF n, m, q
<1>9. CASE n = MaxLen
  <2>1. m - 1 >= n /\ Len(q') = n /\ m - n \in 1..m /\ n \in Nat \ {0}
    BY <1>1, <1>2, <1>6, <1>9
  <2>2. ASSUME NEW i \in 1..n
        PROVE  q'[i] = sums'[m - n + i + 1] - sums'[m - n + i]
    <3>1. CASE i = n
      <4>1. m - n + i = m BY <1>1, <2>1, <3>1
      <4>2. q'[i] = t /\ sums'[m + 1] = sums[m] + t /\ sums'[m] = sums[m] /\ sums[m] \in Int
        BY <1>1, <1>3, <1>6, <1>9, <3>1
      <4> QED BY <1>1, <4>1, <4>2
    <3>2. CASE i # n
      <4>1. /\ i \in 1..(n - 1) /\ i + 1 \in 1..n
            /\ m - n + i + 1 \in 1..m /\ m - n + i \in 1..m
            /\ m - 1 - n + (i + 1) + 1 = m - n + i + 1
            /\ m - 1 - n + (i + 1) = m - n + i
        BY <1>1, <2>1, <3>2
      <4>2. q'[i] = q[i + 1] BY <1>6, <1>9, <4>1
      <4>3. q[i + 1] = sums[m - n + i + 1] - sums[m - n + i] BY <1>2, <4>1
      <4> QED BY <1>3, <4>1, <4>2, <4>3
    <3> QED BY <3>1, <3>2
  <2>3. cum_serv_time' = sums'[m + 1] - sums'[m + 1 - n]
    <3>1. q[1] = sums[m - n + 1] - sums[m - n]
      <4>1. 1 \in 1..n /\ m - 1 - n + 1 + 1 = m - n + 1 /\ m - 1 - n + 1 = m - n
        BY <1>1, <2>1
      <4> QED BY <1>2, <4>1
    <3>2. m - n + 1 \in 1..m /\ m + 1 - n = m - n + 1 /\ m - 1 + 1 = m /\ m - 1 + 1 - n = m - n
      BY <1>1, <2>1
    <3>3. cum_serv_time = sums[m] - sums[m - n]
      BY <1>2, <3>2
    <3>4. m \in 1..m BY <1>1
    <3> DEFINE a == sums[m]
               b == sums[m - n]
               d == sums[m - n + 1]
    <3>5. /\ a \in Int /\ b \in Int /\ d \in Int
          /\ sums'[m - n + 1] = d /\ sums'[m + 1] = a + t
      BY <1>1, <1>3, <2>1, <3>2, <3>4
    <3>6. /\ cum_serv_time' = cum_serv_time + t - q[1]
          /\ cum_serv_time = a - b /\ q[1] = d - b /\ t \in Int
      BY <1>1, <1>4, <1>9, <3>1, <3>3
    <3>7. m + 1 - n = m - n + 1 BY <3>2
    <3> HIDE DEF a, b, d
    <3>8. cum_serv_time' = (a + t) - d
      BY <3>5, <3>6
    <3> QED BY <3>5, <3>7, <3>8
  <2> QED
    BY <1>1, <1>3, <1>8, <1>9, <2>1, <2>2, <2>3
    DEF WindowInv, WindowIsTheLastResults, TotalIsTheWindow, Count, q
<1>10. CASE n # MaxLen
  <2>1. m - 1 = n /\ Len(q') = n + 1 /\ n + 1 <= MaxLen
    BY <1>1, <1>2, <1>6, <1>10
  <2>2. ASSUME NEW i \in 1..(n + 1)
        PROVE  q'[i] = sums'[m - (n + 1) + i + 1] - sums'[m - (n + 1) + i]
    <3>1. m - (n + 1) + i + 1 = i + 1 /\ m - (n + 1) + i = i
      BY <1>1, <2>1
    <3>2. CASE i = n + 1
      <4>1. i = m /\ m \in 1..m /\ sums[m] \in Int /\ t \in Int
        BY <1>1, <2>1, <3>2
      <4>2. q'[i] = t /\ sums'[i + 1] = sums[m] + t /\ sums'[i] = sums[m]
        BY <1>3, <1>6, <1>10, <3>2, <4>1
      <4>3. t = (sums[m] + t) - sums[m] BY <4>1
      <4> QED BY <3>1, <4>2, <4>3
    <3>3. CASE i # n + 1
      <4>1. /\ i \in 1..n /\ i + 1 \in 1..m /\ i \in 1..m
            /\ m - 1 - n + i + 1 = i + 1 /\ m - 1 - n + i = i
        BY <1>1, <2>1, <3>3
      <4>2. q[i] = sums[i + 1] - sums[i] BY <1>2, <4>1
      <4>3. q'[i] = q[i] BY <1>6, <1>10, <4>1
      <4>4. sums'[i + 1] = sums[i + 1] /\ sums'[i] = sums[i] BY <1>3, <4>1
      <4> QED BY <3>1, <4>2, <4>3, <4>4
    <3> QED BY <3>2, <3>3
  <2>3. cum_serv_time' = sums'[m + 1] - sums'[m + 1 - (n + 1)]
    <3>1. m - 1 + 1 = m /\ m - 1 + 1 - n = 1 /\ 1 \in 1..m /\ m \in 1..m /\ m + 1 - (n + 1) = 1
      BY <1>1, <2>1
    <3>2. cum_serv_time = sums[m] - sums[1] BY <1>2, <3>1
    <3>3. /\ sums[m] \in Int /\ sums[1] \in Int /\ t \in Int
          /\ sums'[1] = sums[1] /\ sums'[m + 1] = sums[m] + t
      BY <1>1, <1>3, <3>1
    <3>4. cum_serv_time' = cum_serv_time + t
      BY <1>1, <1>4, <1>10
    <3>5. (sums[m] - sums[1]) + t = (sums[m] + t) - sums[1] BY <3>3
    <3> QED BY <3>1, <3>2, <3>3, <3>4, <3>5
  <2>4. Count' = m /\ Len(q') = n + 1 /\ (n + 1 = IF m < MaxLen THEN m ELSE MaxLen)
    BY <1>1, <1>3, <2>1 DEF Count
  <2> QED
    BY <1>8, <2>2, <2>3, <2>4 DEF WindowInv, WindowIsTheLastResults, TotalIsTheWindow, q
<1> QED
  BY <1>9, <1>10

\* After any number of results the window holds the latest ones, at most
\* maxlen of them, and cum_serv_time is their exact total: update() of the
\* controller, over the integers.
THEOREM WindowIsExact == WSpec => [](WindowIsTheLastResults /\ TotalIsTheWindow)
<1>1. WindowInv /\ [WNext]_windowVars => WindowInv'
  <2> SUFFICES ASSUME WindowInv, [WNext]_windowVars PROVE WindowInv'
    OBVIOUS
  <2>1. CASE WNext
    BY <2>1, WindowStep DEF WNext
  <2>2. CASE UNCHANGED windowVars
    BY <2>2 DEF windowVars, WindowInv, Types, WindowIsTheLastResults, TotalIsTheWindow, Count
  <2> QED
    BY <2>1, <2>2
<1>2. WindowInv => WindowIsTheLastResults /\ TotalIsTheWindow
  BY DEF WindowInv
<1> QED
  BY <1>1, <1>2, WindowInit, PTL DEF WSpec
=============================================================================
