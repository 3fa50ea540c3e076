-------------------------- MODULE MeteringFigures --------------------------
(***************************************************************************)
(* The figure of the last 24 hours: what the buckets of a history tell of  *)
(* any moment, however they were spread, joined, cut and dropped, and      *)
(* that a figure shown as complete is true.                                *)
(***************************************************************************)
EXTENDS MeteringProofs

-----------------------------------------------------------------------------
(* What the buckets of a history tell of any moment since its last gap.    *)

(* A bucket lies within a minute.                                          *)
Minutely(q) == \A i \in 1 .. Len(q) : q[i].end <= (q[i].start \div Bucket + 1) * Bucket

(* Nothing but gaps and the dropped beginning is missing from the time.    *)
Joined(q, gap, last, t) ==
  /\ \A i \in 1 .. Len(q) : \/ q[i].start <= gap
                            \/ i > 1 /\ q[i].start = q[i - 1].end
                            \/ i = 1 /\ q[i].start <= t - Window - Bucket
  /\ \/ last <= gap
     \/ q # <<>> /\ q[Len(q)].end = last
     \/ q = <<>> /\ last <= t - Window - Bucket

(* The buckets from one after the gap on hold what was moved from about    *)
(* its start to the metric: s[t + 1] is Scale times the bytes moved at t.  *)
Bounded(q, gap, metric, s, h) ==
  \A i \in 1 .. Len(q) : \A a \in 0 .. metric :
    q[i].start >= gap =>
      /\ a = 0 \/ a + Lag + Fresh <= q[i].start =>
           h[Len(q)] - h[i - 1] <= s[metric + 1] - s[a + 1]
      /\ a + 1 >= q[i].start + Lag =>
           h[Len(q)] - h[i - 1] >= s[metric + 1] - s[a + 1]

Told(q, gap, metric, s) ==
  \E h : Runs(BytesOf(q), Len(q), h) /\ Bounded(q, gap, metric, s, h)

(* r is q with ps after it, the k + 1st bucket being the first of ps or    *)
(* the last of q, which goes on.                                           *)
GoesOn(q, ps, r, k) ==
  /\ k \in Nat /\ Len(r) = k + Len(ps) /\ k \in {Len(q), Len(q) - 1}
  /\ \A i \in 1 .. k : r[i] = q[i]
  /\ \A j \in 2 .. Len(ps) : r[k + j] = ps[j]
  /\ r[k + 1].end = ps[1].end
  /\ k = Len(q) => r[k + 1] = ps[1]
  /\ k = Len(q) - 1 => /\ r[k + 1].start = q[k + 1].start
                       /\ r[k + 1].bytes = q[k + 1].bytes + ps[1].bytes
                       /\ q[k + 1].start \div Bucket = ps[1].start \div Bucket

LEMMA JoinedParts ==
  ASSUME NEW e \in Seq(Buckets), NEW g \in Seq(Buckets)
  PROVE  /\ Len(e \o g) = Len(e) + Len(g)
         /\ \A i \in 1 .. Len(e) + Len(g) :
              (e \o g)[i] = IF i <= Len(e) THEN e[i] ELSE g[i - Len(e)]
OBVIOUS

LEMMA ExtendedGoesOn ==
  ASSUME NEW q \in Seq(Buckets), NEW ps \in Seq(Buckets), ps # <<>>
  PROVE  \E k \in Nat : GoesOn(q, ps, Extended(q, ps), k)
<1>1. CASE ~Continues(q, ps[1])
  <2> DEFINE r == q \o ps
             k == Len(q)
  <2>1. Extended(q, ps) = r
    BY <1>1 DEF Extended
  <2>2. /\ k \in Nat /\ Len(ps) \in Nat \ {0} /\ Len(r) = k + Len(ps)
        /\ \A i \in 1 .. Len(r) : r[i] = IF i <= k THEN q[i] ELSE ps[i - k]
    OBVIOUS
  <2> HIDE DEF r
  <2>3. \A i \in 1 .. k : r[i] = q[i]
    BY <2>2
  <2>4. \A j \in 1 .. Len(ps) : r[k + j] = ps[j]
    <3> TAKE j \in 1 .. Len(ps)
    <3>1. k + j \in 1 .. Len(r) /\ ~(k + j <= k) /\ (k + j) - k = j
      BY <2>2
    <3> QED BY <2>2, <3>1
  <2>5. r[k + 1] = ps[1] /\ \A j \in 2 .. Len(ps) : r[k + j] = ps[j]
    BY <2>2, <2>4
  <2>6. k # Len(q) - 1
    BY <2>2
  <2>7. GoesOn(q, ps, r, k)
    BY <2>2, <2>3, <2>5, <2>6 DEF GoesOn
  <2> QED BY <2>1, <2>2, <2>7
<1>2. CASE Continues(q, ps[1])
  <2>1. q # <<>> /\ Last(q).start \div Bucket = ps[1].start \div Bucket
    BY <1>2 DEF Continues
  <2> DEFINE b == [Last(q) EXCEPT !.end = ps[1].end, !.bytes = @ + ps[1].bytes]
             f == Front(q)
             g == Tail(ps)
             n == Len(q)
             k == Len(q) - 1
             r == (f \o <<b>>) \o g
  <2>2. /\ f \in Seq(Buckets) /\ Last(q) \in Buckets /\ Last(q) = q[n]
        /\ n \in Nat \ {0} /\ Len(f) = k
        /\ \A i \in 1 .. k : f[i] = q[i]
    BY <2>1, EndsOfSequence
  <2>3. /\ g \in Seq(Buckets) /\ ps[1] \in Buckets
        /\ Len(ps) \in Nat \ {0} /\ Len(g) = Len(ps) - 1
        /\ \A i \in 1 .. Len(ps) - 1 : g[i] = ps[i + 1]
    BY EndsOfSequence
  <2>4. b \in Buckets /\ b.bytes = Last(q).bytes + ps[1].bytes
    BY <2>2, <2>3, BucketGoesOn
  <2>5. b.start = Last(q).start /\ b.end = ps[1].end
    <3>1. DOMAIN Last(q) = {"start", "end", "bytes"}
      BY <2>2 DEF Buckets
    <3> QED BY <3>1
  <2>6. Extended(q, ps) = r
    BY <1>2 DEF Extended
  <2> HIDE DEF b, f, g
  <2>7. /\ Len(r) = k + Len(ps) /\ k \in Nat /\ k + 1 = n /\ k # n
        /\ \A i \in 1 .. Len(r) : r[i] = IF i <= k THEN f[i] ELSE IF i = k + 1 THEN b ELSE g[i - (k + 1)]
    <3> DEFINE e == f \o <<b>>
    <3>1. k \in Nat /\ k + 1 = n /\ k # n
      BY <2>2
    <3> HIDE DEF k
    <3>2. /\ e \in Seq(Buckets) /\ Len(e) = k + 1
          /\ \A i \in 1 .. k + 1 : e[i] = IF i <= k THEN f[i] ELSE b
      BY <2>2, <2>4, <3>1
    <3> HIDE DEF e
    <3>3. /\ Len(e \o g) = k + Len(ps)
          /\ \A i \in 1 .. Len(e \o g) : (e \o g)[i] = IF i <= k + 1 THEN e[i] ELSE g[i - (k + 1)]
      <4>1. /\ Len(e \o g) = Len(e) + Len(g)
            /\ \A i \in 1 .. Len(e) + Len(g) : (e \o g)[i] = IF i <= Len(e) THEN e[i] ELSE g[i - Len(e)]
        <5>1. e \in Seq(Buckets) /\ g \in Seq(Buckets)
          BY <2>3, <3>2
        <5> QED BY <5>1, JoinedParts
      <4>2. Len(e) + Len(g) = k + Len(ps) /\ Len(e) = k + 1
        BY <2>3, <3>1, <3>2
      <4> QED BY <4>1, <4>2
    <3> DEFINE z == e \o g
    <3> HIDE DEF z
    <3>4. Len(z) = k + Len(ps) /\ \A i \in 1 .. Len(z) : z[i] = IF i <= k + 1 THEN e[i] ELSE g[i - (k + 1)]
      BY <3>3 DEF z
    <3>5. ASSUME NEW i \in 1 .. Len(z)
          PROVE  z[i] = IF i <= k THEN f[i] ELSE IF i = k + 1 THEN b ELSE g[i - (k + 1)]
      <4>1. CASE i <= k + 1
        <5>1. i \in 1 .. k + 1 /\ (~(i <= k) => i = k + 1)
          BY <3>1, <4>1
        <5> QED BY <3>2, <3>4, <4>1, <5>1
      <4>2. CASE ~(i <= k + 1)
        <5>1. ~(i <= k) /\ i # k + 1
          BY <3>1, <4>2
        <5> QED BY <3>4, <4>2, <5>1
      <4> QED BY <4>1, <4>2
    <3> QED BY <3>1, <3>4, <3>5 DEF z, e, r
  <2> HIDE DEF r, k, n
  <2>8. \A i \in 1 .. k : r[i] = q[i]
    BY <2>2, <2>3, <2>7
  <2>9. r[k + 1] = b
    BY <2>3, <2>7
  <2>10. \A j \in 2 .. Len(ps) : r[k + j] = ps[j]
    <3> TAKE j \in 2 .. Len(ps)
    <3>1. k + j \in 1 .. Len(r) /\ ~(k + j <= k) /\ k + j # k + 1 /\ (k + j) - (k + 1) = j - 1
          /\ j - 1 \in 1 .. Len(ps) - 1 /\ (j - 1) + 1 = j
      BY <2>3, <2>7
    <3>2. r[k + j] = g[j - 1]
      BY <2>7, <3>1
    <3> QED BY <2>3, <3>1, <3>2
  <2>11. k \in {Len(q), Len(q) - 1} /\ k # Len(q)
    BY <2>7 DEF k, n
  <2>12. q[k + 1] = Last(q)
    BY <2>2, <2>7
  <2>13. GoesOn(q, ps, r, k)
    BY <2>1, <2>4, <2>5, <2>7, <2>8, <2>9, <2>10, <2>11, <2>12 DEF GoesOn
  <2> QED BY <2>6, <2>7, <2>13
<1> QED BY <1>1, <1>2

LEMMA MinutelyExtended ==
  ASSUME NEW q \in Seq(Buckets), NEW ps \in Seq(Buckets), ps # <<>>,
         Minutely(q), Minutely(ps), NEW r, NEW k, GoesOn(q, ps, r, k)
  PROVE  Minutely(r)
<1>1. k \in Nat /\ Len(r) = k + Len(ps) /\ Len(ps) \in Nat \ {0} /\ Len(q) \in Nat
  BY DEF GoesOn
<1>2. ASSUME NEW i \in 1 .. Len(r)
      PROVE  r[i].end <= (r[i].start \div Bucket + 1) * Bucket
  <2>1. CASE i <= k
    <3>1. i \in 1 .. Len(q) /\ r[i] = q[i]
      BY <1>1, <2>1 DEF GoesOn
    <3> QED BY <3>1 DEF Minutely
  <2>2. CASE i = k + 1
    <3>1. ps[1].end <= (ps[1].start \div Bucket + 1) * Bucket
      BY <1>1 DEF Minutely
    <3>2. r[k + 1].end = ps[1].end /\ r[k + 1].start \div Bucket = ps[1].start \div Bucket
      BY DEF GoesOn
    <3> QED BY <2>2, <3>1, <3>2
  <2>3. CASE i > k + 1
    <3> DEFINE j == i - k
    <3>1. j \in 2 .. Len(ps) /\ j \in 1 .. Len(ps) /\ i = k + j
      BY <1>1, <2>3
    <3> HIDE DEF j
    <3>2. r[i] = ps[j]
      BY <3>1 DEF GoesOn
    <3> QED BY <3>1, <3>2 DEF Minutely
  <2> QED BY <1>1, <2>1, <2>2, <2>3
<1> QED BY <1>2 DEF Minutely

(* Bytes moved until then, at each moment.                                 *)
Rising(s, n) ==
  /\ \A x \in 0 .. n : s[x + 1] \in Nat
  /\ \A x \in 0 .. n : \A y \in 0 .. n : x <= y => s[x + 1] <= s[y + 1]

(* The pieces of an interval, from one moment to another.                  *)
Divide(ps, last, n) ==
  /\ ps # <<>> /\ ps[1].start = last /\ ps[Len(ps)].end = n
  /\ \A j \in 2 .. Len(ps) : /\ ps[j].start = ps[j - 1].end
                             /\ ps[j].start >= last + 1 /\ ps[j].start < n

LEMMA JoinedExtended ==
  ASSUME NEW q \in Seq(Buckets), NEW ps \in Seq(Buckets), ps # <<>>,
         NEW gap, NEW last, NEW t, NEW n, Joined(q, gap, last, t), Divide(ps, last, n),
         NEW r, r # <<>>, NEW k, GoesOn(q, ps, r, k)
  PROVE  Joined(r, gap, n, t)
<1>1. k \in Nat /\ Len(r) = k + Len(ps) /\ Len(ps) \in Nat \ {0} /\ Len(q) \in Nat
  BY DEF GoesOn
<1>0. /\ ps[1].start = last /\ ps[Len(ps)].end = n
      /\ \A j \in 2 .. Len(ps) : ps[j].start = ps[j - 1].end
  BY DEF Divide
<1>2. ASSUME NEW i \in 1 .. Len(r)
      PROVE  \/ r[i].start <= gap
             \/ i > 1 /\ r[i].start = r[i - 1].end
             \/ i = 1 /\ r[i].start <= t - Window - Bucket
  <2>1. CASE i <= k
    <3>1. i \in 1 .. Len(q) /\ r[i] = q[i] /\ (i > 1 => r[i - 1] = q[i - 1])
      BY <1>1, <2>1 DEF GoesOn
    <3> QED BY <3>1 DEF Joined
  <2>2. CASE i = k + 1 /\ k = Len(q) - 1
    <3>1. i \in 1 .. Len(q) /\ r[i].start = q[i].start /\ (i > 1 => r[i - 1] = q[i - 1])
      BY <1>1, <2>2 DEF GoesOn
    <3> QED BY <3>1 DEF Joined
  <2>3. CASE i = k + 1 /\ k = Len(q)
    <3>1. r[i] = ps[1] /\ (i > 1 => r[i - 1] = q[Len(q)]) /\ (q = <<>> => i = 1) /\ (q # <<>> => i > 1)
      BY <1>1, <2>3 DEF GoesOn
    <3> QED BY <1>0, <3>1 DEF Joined
  <2>4. CASE i > k + 1
    <3> DEFINE j == i - k
    <3>1. j \in 2 .. Len(ps) /\ i = k + j /\ i - 1 = k + (j - 1) /\ i > 1
          /\ (j - 1 \in 2 .. Len(ps) \/ j - 1 = 1)
      BY <1>1, <2>4
    <3> HIDE DEF j
    <3>2. r[i] = ps[j]
      BY <3>1 DEF GoesOn
    <3>3. r[i - 1].end = ps[j - 1].end
      BY <3>1 DEF GoesOn
    <3> QED BY <1>0, <3>1, <3>2, <3>3
  <2>5. k = Len(q) \/ k = Len(q) - 1
    BY DEF GoesOn
  <2> QED BY <1>1, <2>1, <2>2, <2>3, <2>4, <2>5
<1>3. r[Len(r)].end = n
  <2> DEFINE m == Len(ps)
  <2>0. m \in Nat \ {0} /\ Len(r) = k + m /\ ps[m].end = n /\ r[k + 1].end = ps[1].end
        /\ \A j \in 2 .. m : r[k + j] = ps[j]
    BY <1>0, <1>1 DEF GoesOn
  <2> HIDE DEF m
  <2>1. CASE m = 1
    BY <2>0, <2>1
  <2>2. CASE m # 1
    <3>1. m \in 2 .. m
      BY <2>0, <2>2
    <3> QED BY <2>0, <3>1
  <2> QED BY <2>1, <2>2
<1>4. Len(r) # 0
  BY <1>1
<1> QED BY <1>2, <1>3, <1>4 DEF Joined

LEMMA RunsNat ==
  ASSUME NEW q \in Seq(Buckets), NEW h, Runs(BytesOf(q), Len(q), h)
  PROVE  /\ \A i \in 0 .. Len(q) : h[i] \in Nat /\ h[i] <= h[Len(q)]
         /\ \A i \in 1 .. Len(q) : h[i] = h[i - 1] + q[i].bytes /\ q[i].bytes \in Nat
<1>1. Len(q) \in Nat /\ \A i \in 1 .. Len(q) : q[i].bytes \in Nat /\ BytesOf(q)[i] = q[i].bytes
  <2>1. Len(q) \in Nat /\ \A i \in 1 .. Len(q) : q[i] \in Buckets /\ i \in DOMAIN q
    OBVIOUS
  <2> QED BY <2>1 DEF BytesOf, Buckets
<1>2. \A i \in 1 .. Len(q) : h[i] = h[i - 1] + q[i].bytes /\ q[i].bytes \in Nat
  BY <1>1 DEF Runs
<1> DEFINE n == Len(q)
           T == {i \in 0 .. n : h[i] \in Nat}
           U == {i \in 0 .. n : h[n - i] <= h[n]}
<1>3. \A i \in 0 .. n : i \in T
  <2>1. 0 \in T
    BY <1>1 DEF Runs
  <2>2. \A i \in 1 .. n : i - 1 \in T => i \in T
    BY <1>1, <1>2
  <2> HIDE DEF T
  <2> QED BY <1>1, <2>1, <2>2, InductiveUpTo
<1>4. \A i \in 0 .. n : h[i] \in Nat
  BY <1>3
<1>5. \A i \in 0 .. n : i \in U
  <2>1. 0 \in U
    BY <1>1, <1>4
  <2>2. ASSUME NEW i \in 1 .. n, i - 1 \in U PROVE i \in U
    <3>1. n - (i - 1) \in 1 .. n /\ n - (i - 1) - 1 = n - i /\ n - i \in 0 .. n /\ n \in 0 .. n
          /\ n - (i - 1) \in 0 .. n
      BY <1>1
    <3>2. h[n - (i - 1)] = h[n - i] + q[n - (i - 1)].bytes /\ q[n - (i - 1)].bytes \in Nat
      BY <1>2, <3>1
    <3>3. h[n - (i - 1)] <= h[n]
      BY <2>2
    <3>4. h[n - i] \in Nat /\ h[n] \in Nat /\ h[n - (i - 1)] \in Nat
      BY <1>4, <3>1
    <3>5. h[n - i] <= h[n]
      BY <3>2, <3>3, <3>4
    <3> QED BY <3>1, <3>5
  <2> HIDE DEF U
  <2> QED BY <1>1, <2>1, <2>2, InductiveUpTo
<1>6. ASSUME NEW i \in 0 .. n PROVE h[i] <= h[n]
  <2>1. n - i \in 0 .. n /\ n - (n - i) = i
    BY <1>1
  <2>2. h[n - (n - i)] <= h[n]
    BY <1>5, <2>1
  <2> QED BY <2>1, <2>2
<1> QED BY <1>2, <1>4, <1>6

LEMMA BoundsGrow ==
  ASSUME NEW l \in Nat, NEW e \in Nat, NEW a \in Nat, NEW b \in Nat, NEW last \in Nat,
         NEW metric \in Nat, NEW u \in Nat, NEW sa \in Nat, NEW sm \in Nat, NEW st \in Nat,
         a <= metric => sa <= sm, metric <= a => sm <= sa, sa <= st, sm <= st,
         b < last, last <= metric + e + 1,
         a <= metric => /\ a = 0 \/ a + l + e <= b => u <= sm - sa
                        /\ a + 1 >= b + l => u >= sm - sa
  PROVE  /\ a = 0 \/ a + l + e <= b => u + (st - sm) <= st - sa
         /\ a + 1 >= b + l => u + (st - sm) >= st - sa
OBVIOUS

LEMMA BoundsBegin ==
  ASSUME NEW l \in Nat \ {0}, NEW e \in Nat, NEW a \in Nat, NEW b \in Nat, NEW last \in Nat,
         NEW n \in Nat, NEW metric \in Nat, NEW at \in Nat, NEW w \in Nat,
         NEW sa \in Nat, NEW sm \in Nat, NEW st \in Nat,
         a <= metric => sa <= sm, metric <= a => sm <= sa, sa <= st, sm <= st, a <= at,
         a = at => sa = st,
         last <= metric + e + 1, metric <= last, at <= n, n - last <= l,
         w <= st - sm, (b = last /\ w = 0) \/ b >= last + 1, b < n
  PROVE  /\ a = 0 \/ a + l + e <= b => (st - sm) - w <= st - sa
         /\ a + 1 >= b + l => (st - sm) - w >= st - sa
<1>1. a = 0 \/ a + l + e <= b => a <= metric
  OBVIOUS
<1>2. a + 1 >= b + l => (b = last /\ w = 0 /\ metric <= a) \/ a = at
  OBVIOUS
<1> QED BY <1>1, <1>2

LEMMA RunGoesOn ==
  ASSUME NEW q \in Seq(Buckets), NEW ps \in Seq(Buckets), Len(ps) # 0,
         NEW r \in Seq(Buckets), NEW k, GoesOn(q, ps, r, k),
         NEW h, Runs(BytesOf(q), Len(q), h), NEW g, Runs(BytesOf(ps), Len(ps), g)
  PROVE  \E f : /\ Runs(BytesOf(r), Len(r), f)
                /\ \A i \in 0 .. k : f[i] = h[i]
                /\ \A j \in 1 .. Len(ps) : f[k + j] = h[Len(q)] + g[j]
<1> DEFINE m == Len(ps)
           c == Len(q)
           t == Len(r)
<1>1. k \in Nat /\ t = k + m /\ m \in Nat \ {0} /\ c \in Nat /\ (k = c \/ k = c - 1) /\ k <= c
  <2>1. k \in Nat /\ t = k + m /\ (k = c \/ k = c - 1)
    BY DEF GoesOn
  <2>2. m \in Nat \ {0} /\ c \in Nat
    OBVIOUS
  <2> HIDE DEF m, c, t
  <2> QED BY <2>1, <2>2
<1>2. /\ \A i \in 0 .. c : h[i] \in Nat
      /\ \A i \in 1 .. c : h[i] = h[i - 1] + q[i].bytes /\ q[i].bytes \in Nat
  BY RunsNat
<1>3. /\ \A i \in 0 .. m : g[i] \in Nat
      /\ \A i \in 1 .. m : g[i] = g[i - 1] + ps[i].bytes /\ ps[i].bytes \in Nat
  BY RunsNat
<1>4. h[0] = 0 /\ g[0] = 0
  BY DEF Runs
<1>5. /\ \A i \in 1 .. k : r[i] = q[i]
      /\ \A j \in 2 .. m : r[k + j] = ps[j]
  BY DEF GoesOn
<1>6. /\ k = c => r[k + 1] = ps[1]
      /\ k = c - 1 => r[k + 1].bytes = q[k + 1].bytes + ps[1].bytes
  BY DEF GoesOn
<1>7. \A i \in 1 .. t : BytesOf(r)[i] = r[i].bytes
  <2>1. \A i \in 1 .. t : i \in DOMAIN r
    OBVIOUS
  <2> QED BY <2>1 DEF BytesOf
<1> DEFINE f == [i \in 0 .. t |-> IF i <= k THEN h[i] ELSE h[c] + g[i - k]]
<1> HIDE DEF m, c, t
<1>8. /\ \A i \in 0 .. k : f[i] = h[i]
      /\ \A j \in 1 .. m : f[k + j] = h[c] + g[j]
  <2>1. \A i \in 0 .. k : i \in 0 .. t /\ i <= k
    BY <1>1
  <2>2. \A j \in 1 .. m : k + j \in 0 .. t /\ ~(k + j <= k) /\ (k + j) - k = j
    BY <1>1
  <2> QED BY <2>1, <2>2
<1> HIDE DEF f
<1>9. h[c] \in Nat /\ (c # 0 => h[c] = h[c - 1] + q[c].bytes /\ q[c].bytes \in Nat /\ h[c - 1] \in Nat)
  <2>1. c \in 0 .. c /\ (c # 0 => c \in 1 .. c /\ c - 1 \in 0 .. c)
    BY <1>1
  <2> QED BY <1>2, <2>1
<1>10. g[1] = ps[1].bytes /\ ps[1].bytes \in Nat
  <2>1. 1 \in 1 .. m /\ 1 - 1 = 0
    BY <1>1
  <2>2. g[1] = g[1 - 1] + ps[1].bytes /\ ps[1].bytes \in Nat
    BY <1>3, <2>1
  <2> QED BY <1>4, <2>1, <2>2
<1>11. f[0] = 0
  <2>1. 0 \in 0 .. k
    BY <1>1
  <2> QED BY <1>4, <1>8, <2>1
<1>12. ASSUME NEW i \in 1 .. t PROVE f[i] = f[i - 1] + r[i].bytes
  <2>1. CASE i <= k
    <3>1. i \in 1 .. c /\ i \in 1 .. k /\ i \in 0 .. k /\ i - 1 \in 0 .. k
      BY <1>1, <2>1
    <3>2. f[i] = h[i] /\ f[i - 1] = h[i - 1]
      BY <1>8, <3>1
    <3>3. h[i] = h[i - 1] + q[i].bytes
      BY <1>2, <3>1
    <3>4. r[i] = q[i]
      BY <1>5, <3>1
    <3> QED BY <3>2, <3>3, <3>4
  <2>2. CASE i = k + 1
    <3>1. 1 \in 1 .. m /\ k \in 0 .. k /\ i - 1 = k
      BY <1>1, <2>2
    <3>2. f[i] = h[c] + g[1] /\ f[i - 1] = h[k]
      BY <1>8, <2>2, <3>1
    <3>3. CASE k = c
      <4>1. r[i] = ps[1]
        BY <1>6, <2>2, <3>3
      <4> QED BY <1>10, <3>2, <3>3, <4>1
    <3>4. CASE k = c - 1
      <4>1. c # 0 /\ k + 1 = c
        BY <1>1, <3>4
      <4>2. r[i].bytes = q[c].bytes + ps[1].bytes
        BY <1>6, <2>2, <3>4, <4>1
      <4>3. h[c] = h[k] + q[c].bytes /\ q[c].bytes \in Nat /\ h[k] \in Nat
        BY <1>9, <3>4, <4>1
      <4> QED BY <1>10, <3>2, <4>2, <4>3
    <3> QED BY <1>1, <3>3, <3>4
  <2>3. CASE i > k + 1
    <3> DEFINE j == i - k
    <3>1. j \in 2 .. m /\ j \in 1 .. m /\ j - 1 \in 1 .. m /\ j - 1 \in 0 .. m
          /\ i = k + j /\ i - 1 = k + (j - 1)
      BY <1>1, <2>3
    <3> HIDE DEF j
    <3>2. r[i] = ps[j]
      BY <1>5, <3>1
    <3>3. f[i] = h[c] + g[j] /\ f[i - 1] = h[c] + g[j - 1]
      BY <1>8, <3>1
    <3>4. g[j] = g[j - 1] + ps[j].bytes /\ ps[j].bytes \in Nat /\ g[j - 1] \in Nat
      BY <1>3, <3>1
    <3> QED BY <1>9, <3>2, <3>3, <3>4
  <2> QED BY <1>1, <2>1, <2>2, <2>3
<1>13. Runs(BytesOf(r), t, f)
  BY <1>7, <1>11, <1>12 DEF Runs
<1> QED BY <1>8, <1>13 DEF m, c, t

(* What each bucket of r starts with, and what r's run is from it on: the  *)
(* same bucket of q and all of ps, or a part of ps.                        *)
Parts(q, r, h, f, c, v, last, n) ==
  \A i \in 1 .. Len(r) :
    \/ /\ i \in 1 .. c /\ r[i].start = q[i].start
       /\ f[Len(r)] - f[i - 1] = (h[c] - h[i - 1]) + v
    \/ \E b \in Nat : \E w \in Nat :
         /\ w <= v /\ ((b = last /\ w = 0) \/ b >= last + 1)
         /\ b < n /\ r[i].start = b /\ f[Len(r)] - f[i - 1] = v - w

LEMMA PartsOf ==
  ASSUME NEW q \in Seq(Buckets), NEW ps \in Seq(Buckets),
         NEW last \in Nat, NEW n \in Nat, last < n, Divide(ps, last, n),
         NEW r \in Seq(Buckets), NEW k, GoesOn(q, ps, r, k),
         NEW h, Runs(BytesOf(q), Len(q), h), NEW v \in Nat, Bytes(ps) = v
  PROVE  \E f : /\ Runs(BytesOf(r), Len(r), f)
                /\ Parts(q, r, h, f, Len(q), v, last, n)
<1> DEFINE m == Len(ps)
           c == Len(q)
           t == Len(r)
<1>1. PICK g : Runs(BytesOf(ps), m, g) /\ Bytes(ps) = g[m]
  BY BytesHasRun
<1>2. m # 0 /\ ps[1].start = last
  BY DEF Divide
<1>3. PICK f : /\ Runs(BytesOf(r), t, f)
               /\ \A i \in 0 .. k : f[i] = h[i]
               /\ \A j \in 1 .. m : f[k + j] = h[c] + g[j]
  BY <1>1, <1>2, RunGoesOn
<1>4. k \in Nat /\ t = k + m /\ m \in Nat \ {0} /\ c \in Nat /\ (k = c \/ k = c - 1) /\ k <= c
  <2>1. k \in Nat /\ t = k + m /\ (k = c \/ k = c - 1)
    BY DEF GoesOn
  <2>2. m \in Nat \ {0} /\ c \in Nat
    BY <1>2
  <2> HIDE DEF m, c, t
  <2> QED BY <2>1, <2>2
<1>5. \A i \in 0 .. c : h[i] \in Nat
  BY RunsNat
<1>6. \A i \in 0 .. m : g[i] \in Nat /\ g[i] <= g[m]
  BY <1>1, RunsNat
<1>7. /\ \A i \in 1 .. k : r[i] = q[i]
      /\ \A j \in 2 .. m : r[k + j] = ps[j]
  BY DEF GoesOn
<1>8. /\ k = c => r[k + 1] = ps[1]
      /\ k = c - 1 => r[k + 1].start = q[k + 1].start
  BY DEF GoesOn
<1>9. \A j \in 1 .. m : ps[j].start \in Nat
  <2>1. \A j \in 1 .. m : ps[j] \in Buckets
    OBVIOUS
  <2> QED BY <2>1 DEF Buckets
<1>10. \A j \in 2 .. m : ps[j].start >= last + 1 /\ ps[j].start < n
  BY DEF Divide
<1> HIDE DEF m, c, t
<1>11. g[m] = v /\ h[c] \in Nat /\ f[t] = h[c] + v
  <2>1. m \in 1 .. m /\ c \in 0 .. c
    BY <1>4
  <2>2. f[t] = h[c] + g[m]
    BY <1>3, <1>4, <2>1
  <2> QED BY <1>1, <1>5, <2>1, <2>2
<1>12. ASSUME NEW i \in 1 .. t, ~(i \in 1 .. c /\ r[i].start = q[i].start
                                  /\ f[t] - f[i - 1] = (h[c] - h[i - 1]) + v)
       PROVE  \E b \in Nat : \E w \in Nat :
                /\ w <= v /\ ((b = last /\ w = 0) \/ b >= last + 1)
                /\ b < n /\ r[i].start = b /\ f[t] - f[i - 1] = v - w
  <2>1. CASE i <= k \/ (i = k + 1 /\ k = c - 1)
    <3>1. i \in 1 .. c /\ i - 1 \in 0 .. k /\ i - 1 \in 0 .. c
      BY <1>4, <2>1
    <3>2. r[i].start = q[i].start
      <4>1. CASE i <= k
        <5>1. i \in 1 .. k
          BY <1>4, <4>1
        <5> QED BY <1>7, <5>1
      <4>2. CASE i = k + 1 /\ k = c - 1
        BY <1>8, <4>2
      <4> QED BY <2>1, <4>1, <4>2
    <3>3. f[i - 1] = h[i - 1] /\ h[i - 1] \in Nat
      BY <1>3, <1>5, <3>1
    <3>4. f[t] - f[i - 1] = (h[c] - h[i - 1]) + v
      BY <1>11, <3>3
    <3> QED BY <1>12, <3>1, <3>2, <3>4
  <2>2. CASE i = k + 1 /\ k = c
    <3>1. r[i].start = last
      BY <1>2, <1>8, <2>2
    <3>2. i - 1 = k /\ k \in 0 .. k
      BY <1>4, <2>2
    <3>3. f[i - 1] = h[c]
      BY <1>3, <2>2, <3>2
    <3>4. f[t] - f[i - 1] = v - 0
      BY <1>11, <3>3
    <3>5. 0 \in Nat /\ 0 <= v
      OBVIOUS
    <3> QED BY <3>1, <3>4, <3>5
  <2>3. CASE i > k + 1
    <3> DEFINE j == i - k
    <3>1. j \in 2 .. m /\ j \in 1 .. m /\ j - 1 \in 1 .. m /\ j - 1 \in 0 .. m
          /\ i = k + j /\ i - 1 = k + (j - 1)
      BY <1>4, <2>3
    <3> HIDE DEF j
    <3>2. r[i] = ps[j] /\ ps[j].start >= last + 1 /\ ps[j].start < n /\ ps[j].start \in Nat
      BY <1>7, <1>9, <1>10, <3>1
    <3>3. f[i - 1] = h[c] + g[j - 1]
      BY <1>3, <3>1
    <3>4. g[j - 1] \in Nat /\ g[j - 1] <= v
      BY <1>6, <1>11, <3>1
    <3>5. f[t] - f[i - 1] = v - g[j - 1]
      BY <1>11, <3>3, <3>4
    <3> QED BY <3>2, <3>4, <3>5
  <2> QED BY <1>4, <2>1, <2>2, <2>3
<1>13. Parts(q, r, h, f, c, v, last, n)
  BY <1>12 DEF Parts, t
<1> QED BY <1>3, <1>13 DEF c, t

(* An interval of samples adds what its two metrics tell.                  *)
LEMMA ToldExtended ==
  ASSUME NEW q \in Seq(Buckets), NEW ps \in Seq(Buckets),
         NEW gap \in Nat, NEW metric \in Nat, NEW at \in Nat, NEW last \in Nat, NEW n \in Nat,
         metric < at, at <= n, metric <= last, last <= metric + Fresh + 1,
         last < n, n - last <= Lag,
         NEW s, Told(q, gap, metric, s), Follow(q, last), Divide(ps, last, n), Rising(s, at),
         Bytes(ps) = s[at + 1] - s[metric + 1],
         NEW r \in Seq(Buckets), NEW k, GoesOn(q, ps, r, k)
  PROVE  Told(r, gap, at, s)
<1> DEFINE c == Len(q)
           v == s[at + 1] - s[metric + 1]
<1>1. PICK h : Runs(BytesOf(q), c, h) /\ Bounded(q, gap, metric, s, h)
  BY DEF Told
<1>2. metric \in 0 .. at /\ at \in 0 .. at /\ metric <= at
  OBVIOUS
<1>3. s[metric + 1] \in Nat /\ s[at + 1] \in Nat /\ v \in Nat
  <2>1. s[metric + 1] \in Nat /\ s[at + 1] \in Nat /\ s[metric + 1] <= s[at + 1]
    BY <1>2 DEF Rising
  <2> QED BY <2>1
<1>4. PICK f : Runs(BytesOf(r), Len(r), f) /\ Parts(q, r, h, f, c, v, last, n)
  BY <1>1, <1>3, PartsOf
<1>5. Lag \in Nat \ {0} /\ Fresh \in Nat
  BY MeteringAssumption
<1>6. \A i \in 1 .. c : q[i].start \in Nat /\ q[i].start < last
  <2> TAKE i \in 1 .. c
  <2>1. q[i] \in Buckets /\ q[i].start < q[i].end /\ q[i].end <= last
    BY DEF Follow
  <2>2. q[i].start \in Nat /\ q[i].end \in Nat
    BY <2>1 DEF Buckets
  <2> QED BY <2>1, <2>2
<1>7. \A i \in 0 .. c : h[i] \in Nat /\ h[i] <= h[c]
  BY <1>1, RunsNat
<1>8. c \in Nat
  OBVIOUS
<1>9. \A i \in 1 .. c : \A a \in 0 .. metric :
         q[i].start >= gap =>
           /\ a = 0 \/ a + Lag + Fresh <= q[i].start =>
                h[c] - h[i - 1] <= s[metric + 1] - s[a + 1]
           /\ a + 1 >= q[i].start + Lag =>
                h[c] - h[i - 1] >= s[metric + 1] - s[a + 1]
  BY <1>1 DEF Bounded
<1> HIDE DEF c
<1>12. ASSUME NEW i \in 1 .. Len(r), NEW a \in 0 .. at, r[i].start >= gap
       PROVE  /\ a = 0 \/ a + Lag + Fresh <= r[i].start =>
                   f[Len(r)] - f[i - 1] <= s[at + 1] - s[a + 1]
              /\ a + 1 >= r[i].start + Lag =>
                   f[Len(r)] - f[i - 1] >= s[at + 1] - s[a + 1]
  <2> DEFINE sa == s[a + 1]
             sm == s[metric + 1]
             st == s[at + 1]
  <2>1. /\ sa \in Nat /\ sm \in Nat /\ st \in Nat /\ sa <= st /\ sm <= st /\ a \in Nat /\ a <= at
        /\ a <= metric => sa <= sm
        /\ metric <= a => sm <= sa
        /\ a = at => sa = st
    <3>1. a \in 0 .. at /\ a <= at /\ a \in Nat
      OBVIOUS
    <3>2. sa \in Nat /\ sa <= st /\ sm <= st /\ (a <= metric => sa <= sm) /\ (metric <= a => sm <= sa)
      BY <1>2, <3>1 DEF Rising
    <3> QED BY <1>3, <3>1, <3>2
  <2>2. v = st - sm
    OBVIOUS
  <2>3. a <= metric => a \in 0 .. metric
    BY <2>1
  <2>4. i \in 1 .. c /\ q[i].start >= gap /\ a <= metric =>
           /\ a = 0 \/ a + Lag + Fresh <= q[i].start => h[c] - h[i - 1] <= sm - sa
           /\ a + 1 >= q[i].start + Lag => h[c] - h[i - 1] >= sm - sa
    BY <1>9, <2>3
  <2> HIDE DEF sa, sm, st, v
  <2>5. CASE /\ i \in 1 .. c /\ r[i].start = q[i].start
             /\ f[Len(r)] - f[i - 1] = (h[c] - h[i - 1]) + v
    <3> DEFINE b == q[i].start
               u == h[c] - h[i - 1]
    <3>1. a <= metric =>
            /\ a = 0 \/ a + Lag + Fresh <= b => u <= sm - sa
            /\ a + 1 >= b + Lag => u >= sm - sa
      BY <1>12, <2>4, <2>5
    <3>2. u \in Nat /\ b \in Nat /\ b < last
      <4>1. i - 1 \in 0 .. c /\ c \in 0 .. c
        BY <1>8, <2>5
      <4>2. h[i - 1] \in Nat /\ h[c] \in Nat /\ h[i - 1] <= h[c]
        BY <1>7, <4>1
      <4>3. u \in Nat
        BY <4>2
      <4>4. b \in Nat /\ b < last
        BY <1>6, <2>5
      <4> QED BY <4>3, <4>4
    <3> HIDE DEF u, b
    <3>3. /\ a = 0 \/ a + Lag + Fresh <= b => u + (st - sm) <= st - sa
          /\ a + 1 >= b + Lag => u + (st - sm) >= st - sa
      BY <1>5, <2>1, <3>1, <3>2, BoundsGrow
    <3>4. r[i].start = b /\ f[Len(r)] - f[i - 1] = u + (st - sm)
      BY <2>2, <2>5 DEF u, b
    <3> QED BY <3>3, <3>4 DEF sa, st
  <2>6. ASSUME NEW b \in Nat, NEW w \in Nat, w <= v, (b = last /\ w = 0) \/ b >= last + 1,
               b < n, r[i].start = b, f[Len(r)] - f[i - 1] = v - w
        PROVE  /\ a = 0 \/ a + Lag + Fresh <= r[i].start =>
                    f[Len(r)] - f[i - 1] <= s[at + 1] - s[a + 1]
               /\ a + 1 >= r[i].start + Lag =>
                    f[Len(r)] - f[i - 1] >= s[at + 1] - s[a + 1]
    <3>1. w <= st - sm
      BY <2>2, <2>6
    <3>2. /\ a = 0 \/ a + Lag + Fresh <= b => (st - sm) - w <= st - sa
          /\ a + 1 >= b + Lag => (st - sm) - w >= st - sa
      BY <1>5, <2>1, <2>6, <3>1, BoundsBegin
    <3> QED BY <2>2, <2>6, <3>2 DEF sa, st
  <2> QED BY <1>4, <2>5, <2>6 DEF Parts
<1>13. Bounded(r, gap, at, s, f)
  BY <1>12 DEF Bounded
<1> QED BY <1>4, <1>13 DEF Told

(* Before the gap nothing is told, and nothing has to be.                  *)
LEMMA AllBefore ==
  ASSUME NEW q \in Seq(Buckets), NEW g \in Nat, Follow(q, g), NEW x, NEW s
  PROVE  Told(q, g, x, s) /\ \A last : \A t : last <= g => Joined(q, g, last, t)
<1>1. \A i \in 1 .. Len(q) : q[i].start \in Nat /\ q[i].start < g
  <2> TAKE i \in 1 .. Len(q)
  <2>1. q[i] \in Buckets /\ q[i].start < q[i].end /\ q[i].end <= g
    BY DEF Follow
  <2>2. q[i].start \in Nat /\ q[i].end \in Nat
    BY <2>1 DEF Buckets
  <2> QED BY <2>1, <2>2
<1>2. \A i \in 1 .. Len(q) : q[i].start <= g /\ ~(q[i].start >= g)
  BY <1>1
<1>3. PICK h : Runs(BytesOf(q), Len(q), h)
  BY BytesHasRun
<1>4. Bounded(q, g, x, s, h)
  BY <1>2 DEF Bounded
<1> QED BY <1>2, <1>3, <1>4 DEF Told, Joined

-----------------------------------------------------------------------------
(* The pieces of an interval.                                              *)
LEMMA WithinMinute ==
  ASSUME NEW a \in Nat, NEW b \in Nat \ {0}, NEW k \in Nat, NEW e \in Nat,
         k * b <= a, e <= (k + 1) * b
  PROVE  e <= (a \div b + 1) * b
<1> DEFINE c == a \div b
<1>1. c \in Nat /\ a < b * c + b
  BY DivBounds, DivNat
<1> HIDE DEF c
<1>2. k <= c
  <2> SUFFICES ASSUME k >= c + 1 PROVE FALSE
    BY <1>1
  <2>1. (c + 1) * b <= k * b
    BY <1>1, Z3
  <2>2. (c + 1) * b = b * c + b /\ b * c \in Nat /\ k * b \in Nat
    BY <1>1
  <2> QED BY <1>1, <2>1, <2>2
<1>3. (k + 1) * b <= (c + 1) * b
  BY <1>1, <1>2, Z3
<1>4. (k + 1) * b \in Nat /\ (c + 1) * b \in Nat
  BY <1>1
<1>5. e <= (c + 1) * b
  BY <1>3, <1>4
<1> QED BY <1>5 DEF c

LEMMA PiecesMinutely ==
  ASSUME now \in Nat, NEW p, p.last \in Nat, p.last < now, NEW m,
         Delta(p.counters, m.counters) \in Nat
  PROVE  Minutely(Pieces(p, m))
<1> DEFINE q == Pieces(p, m)
           v == Scale * Delta(p.counters, m.counters)
           f == SpreadFrom(p)
           x == f \div Bucket
           y == (now - 1) \div Bucket
           n == y - x + 1
           w == now - p.last
           start(k) == Max({f, k * Bucket})
           end(k) == Min({now, (k + 1) * Bucket})
<1>1. f \in Nat /\ f < now /\ Bucket \in Nat \ {0}
  BY SpreadFromBounds, MeteringAssumption
<1>2. q = [i \in 1 .. n |->
             [start |-> start(x + i - 1), end |-> end(x + i - 1),
              bytes |-> (v * (end(x + i - 1) - start(x + i - 1))) \div w]]
  BY DEF Pieces
<1>3. x \in Nat /\ y \in Nat
  <2> HIDE DEF f
  <2>1. now - 1 \in Nat
    BY <1>1
  <2> QED BY <1>1, <2>1, DivNat
<1>4. q \in Seq(Buckets)
  BY PiecesFollow
<1> HIDE DEF q, v, f, w
<1> HIDE DEF x, y
<1>5. DOMAIN q = 1 .. n /\ Len(q) \in Nat /\ DOMAIN q = 1 .. Len(q)
  BY <1>2, <1>4
<1>6. ASSUME NEW i \in 1 .. Len(q)
      PROVE  q[i].end <= (q[i].start \div Bucket + 1) * Bucket
  <2> DEFINE k == x + i - 1
  <2>1. k \in Nat /\ i \in 1 .. n
    BY <1>3, <1>5
  <2>2. q[i].start = start(k) /\ q[i].end = end(k)
    BY <1>2, <2>1
  <2>3. q[i] \in Buckets
    BY <1>4
  <2>4. q[i].start \in Nat /\ q[i].end \in Nat
    BY <2>3 DEF Buckets
  <2> HIDE DEF k
  <2>5. k * Bucket \in Nat /\ (k + 1) * Bucket \in Nat
    BY <1>1, <2>1
  <2>6. start(k) >= k * Bucket /\ end(k) <= (k + 1) * Bucket
    BY <1>1, <2>5, MaxOfTwo, MinOfTwo
  <2> DEFINE a == q[i].start
             e == q[i].end
  <2>7. a \in Nat /\ e \in Nat /\ k * Bucket <= a /\ e <= (k + 1) * Bucket
    BY <2>2, <2>4, <2>5, <2>6
  <2> HIDE DEF a, e, start, end
  <2>8. e <= (a \div Bucket + 1) * Bucket
    BY <1>1, <2>1, <2>7, WithinMinute
  <2> QED BY <2>8 DEF a, e
<1>7. Minutely(q)
  BY <1>6 DEF Minutely
<1> QED BY <1>7 DEF q

(* Scale is a multiple of the length of an interval that is not cut short. *)
LEMMA ExactShare ==
  ASSUME NEW w \in Nat \ {0}, NEW z \in Nat, NEW d \in Nat, NEW y \in Nat
  PROVE  (((z * w) * d) * y) \div w = (z * d) * y
<1> DEFINE u == (z * d) * y
<1>1. ((z * w) * d) * y = w * u
  BY Z3
<1>2. u \in Nat
  <2>1. z * d \in Nat
    OBVIOUS
  <2> QED BY <2>1
<1> HIDE DEF u
<1>3. (w * u) \div w = u
  <2> DEFINE c == (w * u) \div w
             t == w * u
  <2>1. t \in Nat
    BY <1>2
  <2> HIDE DEF t
  <2>2. t \div w \in Nat /\ w * (t \div w) <= t /\ t < w * (t \div w) + w
    BY <2>1, DivBounds, DivNat
  <2>3. c \in Nat /\ w * c <= w * u /\ w * u < w * c + w
    BY <2>2 DEF t
  <2> HIDE DEF c
  <2>4. c <= u
    <3> SUFFICES ASSUME c >= u + 1 PROVE FALSE
      BY <1>2, <2>3
    <3>1. w * (u + 1) <= w * c
      BY <1>2, <2>3, Z3
    <3>2. w * (u + 1) = w * u + w /\ w * u \in Nat /\ w * c \in Nat
      BY <1>2, <2>3
    <3> QED BY <2>3, <3>1, <3>2
  <2>5. u <= c
    <3> SUFFICES ASSUME u >= c + 1 PROVE FALSE
      BY <1>2, <2>3
    <3>1. w * (c + 1) <= w * u
      BY <1>2, <2>3, Z3
    <3>2. w * (c + 1) = w * c + w /\ w * u \in Nat /\ w * c \in Nat
      BY <1>2, <2>3
    <3> QED BY <2>3, <3>1, <3>2
  <2>6. c = u
    BY <1>2, <2>3, <2>4, <2>5
  <2> QED BY <2>6 DEF c
<1> QED BY <1>1, <1>3 DEF u

LEMMA PiecesDivide ==
  ASSUME now \in Nat, NEW p, p.last \in Nat, p.last < now, now - p.last <= Lag, NEW m,
         Delta(p.counters, m.counters) \in Nat
  PROVE  /\ Divide(Pieces(p, m), p.last, now)
         /\ Bytes(Pieces(p, m)) = Scale * Delta(p.counters, m.counters)
<1> DEFINE d == Delta(p.counters, m.counters)
           v == Scale * d
           f == p.last
           q == Pieces(p, m)
           w == now - p.last
           z == Scale \div w
           u == z * d
<1>1. SpreadFrom(p) = f
  <2>1. Window \in Nat /\ Extra \in Nat /\ Lag \in Nat /\ Lag <= Window + Extra
    BY MeteringAssumption, FigureAssumption
  <2>2. now - Window - Extra \in Int /\ f >= now - Window - Extra /\ f \in Int
    BY <2>1
  <2>3. Max({f, now - Window - Extra}) = f
    BY <2>2, MaxOfTwo
  <2> QED BY <2>3 DEF SpreadFrom
<1>2. /\ q \in Seq(Buckets) /\ Len(q) \in Nat \ {0}
      /\ q[1].start = f /\ q[Len(q)].end = now
      /\ \A i \in 1 .. Len(q) :
           /\ q[i].bytes = (v * (q[i].end - q[i].start)) \div w
           /\ q[i].start < q[i].end /\ q[i].end <= now /\ q[i].start >= f
           /\ i > 1 => q[i].start = q[i - 1].end
  BY <1>1, PiecesFollow
<1>3. w \in Nat \ {0} /\ w \in 1 .. Lag /\ Lag \in Nat /\ Scale \in Nat
  BY MeteringAssumption
<1>4. z * w = Scale
  BY <1>3, FigureAssumption
<1>5. z \in Nat /\ d \in Nat
  BY <1>3, DivNat
<1>6. w = now - f /\ f \in Nat
  OBVIOUS
<1>7. v = (z * w) * d
  BY <1>4
<1> HIDE DEF d, q, w, z, f, v
<1>8. u \in Nat
  BY <1>5
<1>9. \A i \in 1 .. Len(q) : q[i].start \in Nat /\ q[i].end \in Nat
  <2> TAKE i \in 1 .. Len(q)
  <2>1. q[i] \in Buckets
    BY <1>2
  <2> QED BY <2>1 DEF Buckets
<1>10. ASSUME NEW i \in 1 .. Len(q)
       PROVE  q[i].bytes = u * (q[i].end - q[i].start)
  <2> DEFINE y == q[i].end - q[i].start
  <2>1. y \in Nat
    BY <1>2, <1>9
  <2>2. q[i].bytes = (v * y) \div w
    BY <1>2
  <2> HIDE DEF y
  <2>3. (((z * w) * d) * y) \div w = (z * d) * y
    BY <1>3, <1>5, <2>1, ExactShare
  <2> QED BY <1>7, <2>2, <2>3 DEF y
<1>11. Divide(q, f, now)
  <2>1. ASSUME NEW j \in 2 .. Len(q)
        PROVE  q[j].start = q[j - 1].end /\ q[j].start >= f + 1 /\ q[j].start < now
    <3>1. j \in 1 .. Len(q) /\ j - 1 \in 1 .. Len(q) /\ j > 1
      BY <1>2
    <3>2. q[j].start = q[j - 1].end /\ q[j - 1].start < q[j - 1].end /\ q[j - 1].start >= f
          /\ q[j].start < q[j].end /\ q[j].end <= now
      BY <1>2, <3>1
    <3>3. q[j].start \in Nat /\ q[j].end \in Nat /\ q[j - 1].start \in Nat
      BY <1>9, <3>1
    <3> QED BY <1>6, <3>2, <3>3
  <2>2. q # <<>>
    BY <1>2
  <2> QED BY <1>2, <2>1, <2>2 DEF Divide
<1>12. PICK h : Runs(BytesOf(q), Len(q), h) /\ Bytes(q) = h[Len(q)]
  BY <1>2, BytesHasRun
<1> DEFINE E(i) == IF i = 0 THEN f ELSE q[i].end
           T == {i \in 0 .. Len(q) : h[i] = u * (E(i) - f)}
<1>13. 0 \in T
  <2>1. h[0] = 0 /\ E(0) - f = 0 /\ u * 0 = 0
    BY <1>6, <1>8, <1>12 DEF Runs
  <2> QED BY <1>2, <2>1
<1>14. ASSUME NEW i \in 1 .. Len(q), i - 1 \in T
       PROVE  i \in T
  <2>1. h[i] = h[i - 1] + q[i].bytes
    BY <1>2, <1>12, RunsNat
  <2>2. q[i].start = E(i - 1) /\ E(i) = q[i].end
    BY <1>2
  <2>3. h[i - 1] = u * (q[i].start - f)
    BY <1>14, <2>2
  <2>4. q[i].start - f \in Nat /\ q[i].end - q[i].start \in Nat
    BY <1>2, <1>6, <1>9
  <2> DEFINE x == q[i].start - f
             y == q[i].end - q[i].start
  <2>5. x + y = E(i) - f
    BY <1>6, <1>9, <2>2
  <2>6. h[i] = u * x + u * y /\ x \in Nat /\ y \in Nat
    BY <1>10, <2>1, <2>3, <2>4
  <2> HIDE DEF x, y, E, u
  <2>7. u * x + u * y = u * (x + y)
    BY <1>8, <2>6
  <2>8. h[i] = u * (E(i) - f)
    BY <2>5, <2>6, <2>7
  <2> QED BY <1>2, <2>8
<1>15. h[Len(q)] = u * (now - f)
  <2> HIDE DEF T
  <2>1. \A i \in 0 .. Len(q) : i \in T
    BY <1>2, <1>13, <1>14, InductiveUpTo
  <2>2. Len(q) \in T
    BY <1>2, <2>1
  <2> QED BY <1>2, <2>2 DEF T
<1>16. u * w = Scale * d
  <2>1. (z * d) * w = (z * w) * d
    BY <1>3, <1>5, Z3
  <2> QED BY <1>4, <2>1
<1> QED BY <1>6, <1>11, <1>12, <1>15, <1>16 DEF d, q, f

-----------------------------------------------------------------------------
(* Dropping the first buckets.                                             *)
LEMMA SuffixAt ==
  ASSUME NEW q \in Seq(Buckets), NEW k \in 1 .. Len(q)
  PROVE  /\ SubSeq(q, k, Len(q)) \in Seq(Buckets) /\ Len(SubSeq(q, k, Len(q))) = Len(q) - k + 1
         /\ \A j \in 1 .. Len(q) - k + 1 : SubSeq(q, k, Len(q))[j] = q[j + k - 1]
<1>1. /\ Len(q) \in Nat /\ k \in Nat /\ Len(SubSeq(q, k, Len(q))) = Len(q) - k + 1
      /\ \A j \in 1 .. Len(q) - k + 1 : SubSeq(q, k, Len(q))[j] = q[j + k - 1]
  OBVIOUS
<1> QED BY <1>1, BytesSuffix

LEMMA MinutelySuffix ==
  ASSUME NEW q \in Seq(Buckets), NEW k \in 1 .. Len(q), Minutely(q)
  PROVE  Minutely(SubSeq(q, k, Len(q)))
<1> DEFINE b == SubSeq(q, k, Len(q))
           n == Len(q)
<1>1. n \in Nat /\ k \in Nat /\ k <= n /\ Len(b) = n - k + 1
      /\ \A j \in 1 .. n - k + 1 : b[j] = q[j + k - 1]
  BY SuffixAt
<1> HIDE DEF b
<1>2. ASSUME NEW j \in 1 .. Len(b)
      PROVE  b[j].end <= (b[j].start \div Bucket + 1) * Bucket
  <2> DEFINE i == j + k - 1
  <2>1. b[j] = q[i] /\ i \in 1 .. n
    BY <1>1
  <2> HIDE DEF i
  <2> QED BY <2>1 DEF Minutely
<1>3. Minutely(b)
  BY <1>2 DEF Minutely
<1> QED BY <1>3 DEF b

LEMMA JoinedSuffix ==
  ASSUME NEW q \in Seq(Buckets), NEW k \in 1 .. Len(q), NEW gap, NEW last, NEW t \in Nat,
         Joined(q, gap, last, t),
         k > 1 => q[k - 1].end <= t - Window - Bucket
  PROVE  Joined(SubSeq(q, k, Len(q)), gap, last, t)
<1> DEFINE b == SubSeq(q, k, Len(q))
           n == Len(q)
<1>1. n \in Nat /\ k \in Nat /\ k <= n /\ k >= 1 /\ Len(b) = n - k + 1
      /\ \A j \in 1 .. n - k + 1 : b[j] = q[j + k - 1]
  BY SuffixAt
<1> HIDE DEF b
<1>2. ASSUME NEW j \in 1 .. Len(b)
      PROVE  \/ b[j].start <= gap
             \/ j > 1 /\ b[j].start = b[j - 1].end
             \/ j = 1 /\ b[j].start <= t - Window - Bucket
  <2> DEFINE i == j + k - 1
  <2>0. j \in 1 .. n - k + 1
    BY <1>1
  <2>a. i \in 1 .. n /\ (j = 1 => i = k) /\ (i = 1 => j = 1)
    BY <1>1, <2>0
  <2>1. b[j] = q[i] /\ i \in 1 .. n /\ (j = 1 => i = k) /\ (i = 1 => j = 1)
    BY <1>1, <2>0, <2>a
  <2>2. j > 1 => b[j - 1] = q[i - 1]
    <3> SUFFICES ASSUME j > 1 PROVE b[j - 1] = q[i - 1]
      OBVIOUS
    <3>1. j - 1 \in 1 .. n - k + 1 /\ (j - 1) + k - 1 = i - 1
      BY <1>1
    <3> HIDE DEF i
    <3>2. b[j - 1] = q[(j - 1) + k - 1]
      BY <1>1, <3>1
    <3> QED BY <3>1, <3>2
  <2>3. j = 1 \/ j > 1
    BY <1>1
  <2> HIDE DEF i
  <2>4. \/ q[i].start <= gap
        \/ i > 1 /\ q[i].start = q[i - 1].end
        \/ i = 1 /\ q[i].start <= t - Window - Bucket
    BY <2>1 DEF Joined
  <2> QED BY <2>1, <2>2, <2>3, <2>4
<1>3. Len(b) # 0 /\ b[Len(b)] = q[n]
  <2>1. Len(b) \in 1 .. n - k + 1 /\ Len(b) + k - 1 = n
    BY <1>1
  <2>2. b[Len(b)] = q[Len(b) + k - 1]
    BY <1>1, <2>1
  <2> QED BY <2>1, <2>2
<1>4. q # <<>> /\ b # <<>>
  BY <1>1, <1>3
<1>5. Joined(b, gap, last, t)
  BY <1>2, <1>3, <1>4 DEF Joined
<1> QED BY <1>5 DEF b

LEMMA JoinedNone ==
  ASSUME NEW q \in Seq(Buckets), NEW gap, NEW last, NEW t \in Nat, Joined(q, gap, last, t),
         \A i \in 1 .. Len(q) : q[i].end <= t - Window - Bucket
  PROVE  Joined(<<>>, gap, last, t)
<1>1. q # <<>> => Len(q) \in 1 .. Len(q)
  OBVIOUS
<1> QED BY <1>1 DEF Joined

LEMMA ToldSuffix ==
  ASSUME NEW q \in Seq(Buckets), NEW k \in 1 .. Len(q), NEW gap, NEW metric, NEW s,
         Told(q, gap, metric, s)
  PROVE  Told(SubSeq(q, k, Len(q)), gap, metric, s)
<1> DEFINE b == SubSeq(q, k, Len(q))
           n == Len(q)
<1>1. n \in Nat /\ k \in Nat /\ k <= n /\ k >= 1 /\ Len(b) = n - k + 1 /\ b \in Seq(Buckets)
      /\ \A j \in 1 .. n - k + 1 : b[j] = q[j + k - 1]
  BY SuffixAt
<1>2. PICK h : Runs(BytesOf(q), n, h) /\ Bounded(q, gap, metric, s, h)
  BY DEF Told
<1>3. /\ \A i \in 0 .. n : h[i] \in Nat
      /\ \A i \in 1 .. n : h[i] = h[i - 1] + q[i].bytes /\ q[i].bytes \in Nat
  BY <1>2, RunsNat
<1>4. \A i \in 1 .. n : \A a \in 0 .. metric :
         q[i].start >= gap =>
           /\ a = 0 \/ a + Lag + Fresh <= q[i].start =>
                h[n] - h[i - 1] <= s[metric + 1] - s[a + 1]
           /\ a + 1 >= q[i].start + Lag =>
                h[n] - h[i - 1] >= s[metric + 1] - s[a + 1]
  BY <1>2 DEF Bounded
<1>5. \A j \in 1 .. Len(b) : BytesOf(b)[j] = b[j].bytes
  <2>1. \A j \in 1 .. Len(b) : j \in DOMAIN b
    BY <1>1
  <2> QED BY <2>1 DEF BytesOf
<1> HIDE DEF b, n
<1> DEFINE g == [j \in 0 .. Len(b) |-> h[j + k - 1] - h[k - 1]]
<1>6. \A j \in 0 .. Len(b) : g[j] = h[j + k - 1] - h[k - 1] /\ h[j + k - 1] \in Nat
  <2>1. \A j \in 0 .. Len(b) : j + k - 1 \in 0 .. n
    BY <1>1
  <2> QED BY <1>3, <2>1
<1> HIDE DEF g
<1>7. k - 1 \in 0 .. n /\ h[k - 1] \in Nat /\ Len(b) \in Nat /\ n \in 0 .. n /\ h[n] \in Nat
  <2>1. k - 1 \in 0 .. n /\ Len(b) \in Nat /\ n \in 0 .. n
    BY <1>1
  <2> QED BY <1>3, <2>1
<1>8. Runs(BytesOf(b), Len(b), g)
  <2>1. g[0] = 0
    <3>1. 0 \in 0 .. Len(b) /\ 0 + k - 1 = k - 1
      BY <1>1, <1>7
    <3>2. g[0] = h[k - 1] - h[k - 1]
      BY <1>6, <3>1
    <3> QED BY <1>7, <3>2
  <2>2. ASSUME NEW j \in 1 .. Len(b) PROVE g[j] = g[j - 1] + b[j].bytes
    <3>1. j \in 0 .. Len(b) /\ j - 1 \in 0 .. Len(b) /\ j + k - 1 \in 1 .. n
          /\ (j - 1) + k - 1 = (j + k - 1) - 1
      BY <1>1, <1>7
    <3> DEFINE i == j + k - 1
    <3>2. g[j] = h[i] - h[k - 1] /\ h[i] \in Nat
      BY <1>6, <3>1
    <3>3. g[j - 1] = h[i - 1] - h[k - 1] /\ h[i - 1] \in Nat
      BY <1>6, <3>1
    <3>4. b[j] = q[i]
      BY <1>1
    <3> HIDE DEF i
    <3>5. h[i] = h[i - 1] + q[i].bytes /\ q[i].bytes \in Nat
      BY <1>3, <3>1 DEF i
    <3> QED BY <1>7, <3>2, <3>3, <3>4, <3>5
  <2> QED BY <1>5, <2>1, <2>2 DEF Runs
<1>9. ASSUME NEW j \in 1 .. Len(b), NEW a \in 0 .. metric, b[j].start >= gap
      PROVE  /\ a = 0 \/ a + Lag + Fresh <= b[j].start =>
                  g[Len(b)] - g[j - 1] <= s[metric + 1] - s[a + 1]
             /\ a + 1 >= b[j].start + Lag =>
                  g[Len(b)] - g[j - 1] >= s[metric + 1] - s[a + 1]
  <2> DEFINE i == j + k - 1
  <2>1. i \in 1 .. n /\ b[j] = q[i] /\ j - 1 \in 0 .. Len(b) /\ (j - 1) + k - 1 = i - 1
        /\ Len(b) \in 0 .. Len(b) /\ Len(b) + k - 1 = n
    BY <1>1, <1>7
  <2>2. g[Len(b)] = h[n] - h[k - 1]
    BY <1>6, <2>1
  <2>3. g[j - 1] = h[i - 1] - h[k - 1] /\ h[i - 1] \in Nat
    BY <1>6, <2>1
  <2>4. g[Len(b)] - g[j - 1] = h[n] - h[i - 1]
    BY <1>7, <2>2, <2>3
  <2> HIDE DEF i
  <2>5. q[i].start >= gap
    BY <1>9, <2>1
  <2>6. /\ a = 0 \/ a + Lag + Fresh <= q[i].start =>
             h[n] - h[i - 1] <= s[metric + 1] - s[a + 1]
        /\ a + 1 >= q[i].start + Lag =>
             h[n] - h[i - 1] >= s[metric + 1] - s[a + 1]
    BY <1>4, <2>1, <2>5
  <2> QED BY <2>1, <2>4, <2>6
<1>10. Bounded(b, gap, metric, s, g)
  BY <1>9 DEF Bounded
<1>11. Told(b, gap, metric, s)
  BY <1>8, <1>10 DEF Told
<1> QED BY <1>11 DEF b, n

(* What is collected is older than the window and the minute it begins in. *)
LEMMA CollectedFrom ==
  ASSUME now \in Nat, NEW p \in Histories, Collected(p) # Nothing
  PROVE  \/ /\ Collected(p).buckets = <<>>
            /\ \A i \in 1 .. Len(p.buckets) : p.buckets[i].end <= now - Window - Bucket
         \/ \E k \in 1 .. Len(p.buckets) :
              /\ Collected(p).buckets = SubSeq(p.buckets, k, Len(p.buckets))
              /\ k > 1 => p.buckets[k - 1].end <= now - Window - Bucket
<1> DEFINE q == p.buckets
           d == now - Window - Bucket
           keep == {i \in DOMAIN q : q[i].end >= d}
           b == IF keep = {} THEN <<>> ELSE SubSeq(q, Min(keep), Len(q))
<1>1. q \in Seq(Buckets) /\ DOMAIN p = {"first", "last", "gap", "boot", "counters", "metric", "buckets", "since"}
  BY DEF Histories
<1>2. Collected(p) = [p EXCEPT !.buckets = b]
  BY DEF Collected
<1>3. Collected(p).buckets = b
  <2> HIDE DEF b
  <2> QED BY <1>1, <1>2
<1>4. Window \in Nat /\ Bucket \in Nat
  BY MeteringAssumption
<1>5. d \in Int
  BY <1>4
<1>6. \A i \in 1 .. Len(q) : q[i].end \in Nat /\ i \in DOMAIN q
  <2>1. \A i \in 1 .. Len(q) : q[i] \in Buckets /\ i \in DOMAIN q
    BY <1>1
  <2> QED BY <2>1 DEF Buckets
<1>7. Len(q) \in Nat /\ DOMAIN q = 1 .. Len(q)
  BY <1>1
<1> HIDE DEF d, q
<1>8. \A i \in 1 .. Len(q) : i \notin keep => q[i].end <= d
  BY <1>5, <1>6
<1>9. keep \subseteq Nat /\ keep \subseteq 1 .. Len(q)
  BY <1>7
<1> HIDE DEF keep
<1>10. CASE keep = {}
  <2>1. b = <<>>
    BY <1>10
  <2> HIDE DEF b
  <2> QED BY <1>3, <1>8, <1>10, <2>1 DEF q, d
<1>11. CASE keep # {}
  <2> DEFINE k == Min(keep)
  <2>1. k \in keep /\ \A i \in keep : k <= i
    BY <1>9, <1>11, SmallestOf
  <2>2. b = SubSeq(q, k, Len(q))
    BY <1>11
  <2> HIDE DEF b, k
  <2>3. k \in 1 .. Len(q)
    BY <1>9, <2>1
  <2>4. k > 1 => q[k - 1].end <= d
    <3> SUFFICES ASSUME k > 1 PROVE q[k - 1].end <= d
      OBVIOUS
    <3>1. k - 1 \in 1 .. Len(q) /\ ~(k <= k - 1)
      BY <1>7, <2>3
    <3> QED BY <1>8, <2>1, <3>1
  <2> QED BY <1>3, <2>2, <2>3, <2>4 DEF q, d
<1> QED BY <1>10, <1>11

-----------------------------------------------------------------------------
(* What a history tells, and how fresh its metrics are.                    *)
Scaled(mv) == [i \in DOMAIN mv |-> Scale * mv[i]]

Tells(p, t, s) ==
  p # Nothing => /\ p.metric <= p.last /\ p.last <= p.metric + Fresh + 1
                 /\ Minutely(p.buckets) /\ Joined(p.buckets, p.gap, p.last, t)
                 /\ Told(p.buckets, p.gap, p.metric, s)

LEMMA ScaledMoved ==
  ASSUME MeterTyped
  PROVE  /\ \A n \in 0 .. now : Rising(Scaled(moved), n)
         /\ \A x \in 0 .. now : \A y \in 0 .. now :
              x <= y => Scaled(moved)[y + 1] - Scaled(moved)[x + 1]
                          = Scale * (moved[y + 1] - moved[x + 1])
<1>1. /\ now \in Nat /\ Scale \in Nat
      /\ \A x \in 0 .. now : x + 1 \in 1 .. now + 1 /\ moved[x + 1] \in Nat
      /\ \A x \in 0 .. now : \A y \in 0 .. now : x <= y => moved[x + 1] <= moved[y + 1]
  BY MovedValues
<1>2. moved \in Seq(Nat) /\ Len(moved) = now + 1
  BY DEF MeterTyped
<1>3. \A i \in 1 .. now + 1 : i \in DOMAIN moved
  BY <1>1, <1>2
<1> DEFINE s == Scaled(moved)
<1>4. \A x \in 0 .. now : s[x + 1] = Scale * moved[x + 1]
  BY <1>1, <1>3 DEF Scaled
<1> HIDE DEF s
<1>5. \A x \in 0 .. now : s[x + 1] \in Nat
  <2> TAKE x \in 0 .. now
  <2>1. moved[x + 1] \in Nat
    BY <1>1
  <2> DEFINE a == moved[x + 1]
  <2> HIDE DEF a
  <2>2. a \in Nat => Scale * a \in Nat
    BY <1>1
  <2> QED BY <1>4, <2>1, <2>2 DEF a
<1>6. ASSUME NEW x \in 0 .. now, NEW y \in 0 .. now, x <= y
      PROVE  s[x + 1] <= s[y + 1] /\ s[y + 1] - s[x + 1] = Scale * (moved[y + 1] - moved[x + 1])
  <2> DEFINE a == moved[x + 1]
             b == moved[y + 1]
  <2>1. a \in Nat /\ b \in Nat /\ a <= b
    BY <1>1, <1>6
  <2>2. s[x + 1] = Scale * a /\ s[y + 1] = Scale * b
    BY <1>4
  <2> HIDE DEF a, b
  <2>3. Scale * a <= Scale * b
    BY <1>1, <2>1, Z3
  <2>4. Scale * b - Scale * a = Scale * (b - a)
    BY <1>1, <2>1
  <2> QED BY <2>2, <2>3, <2>4 DEF a, b
<1>7. ASSUME NEW n \in 0 .. now PROVE Rising(s, n)
  <2>1. \A x \in 0 .. n : x \in 0 .. now
    BY <1>1
  <2> QED BY <1>5, <1>6, <2>1 DEF Rising
<1> QED BY <1>6, <1>7 DEF s

LEMMA TellsLater ==
  ASSUME NEW p, NEW t \in Nat, NEW u \in Nat, t <= u, NEW s, NEW r, Tells(p, t, s),
         p # Nothing => p \in Histories,
         p # Nothing => \A x \in 0 .. p.metric : r[x + 1] = s[x + 1]
  PROVE  Tells(p, u, r)
<1> SUFFICES ASSUME p # Nothing PROVE Tells(p, u, r)
  BY DEF Tells
<1> DEFINE q == p.buckets
           m == p.metric
<1>1. /\ m <= p.last /\ p.last <= m + Fresh + 1
      /\ Minutely(q) /\ Joined(q, p.gap, p.last, t) /\ Told(q, p.gap, m, s)
      /\ q \in Seq(Buckets) /\ m \in Nat /\ p.last \in Nat
      /\ \A x \in 0 .. m : r[x + 1] = s[x + 1]
  BY DEF Tells, Histories
<1> HIDE DEF q, m
<1>2. PICK h : Runs(BytesOf(q), Len(q), h) /\ Bounded(q, p.gap, m, s, h)
  BY <1>1 DEF Told
<1>3. m \in 0 .. m
  BY <1>1
<1>4. Bounded(q, p.gap, m, r, h)
  BY <1>1, <1>2, <1>3 DEF Bounded
<1>5. Window \in Nat /\ Bucket \in Nat
  BY MeteringAssumption
<1>6. \A x \in Nat : x <= t - Window - Bucket => x <= u - Window - Bucket
  BY <1>5
<1>7. \A i \in 1 .. Len(q) : q[i].start \in Nat
  <2>1. \A i \in 1 .. Len(q) : q[i] \in Buckets
    BY <1>1
  <2> QED BY <2>1 DEF Buckets
<1>8. Joined(q, p.gap, p.last, u)
  BY <1>1, <1>6, <1>7 DEF Joined
<1> QED BY <1>1, <1>2, <1>4, <1>8 DEF Tells, Told, q, m

LEMMA NewTells ==
  ASSUME now \in Nat, NEW m \in Metrics, m.at <= now, now <= m.at + Fresh + 1, NEW s
  PROVE  Tells(NewHistory(m), now, s)
<1>1. /\ NewHistory(m).metric = m.at /\ NewHistory(m).last = now /\ NewHistory(m).gap = now
      /\ NewHistory(m).buckets = <<>>
  BY DEF NewHistory
<1>2. <<>> \in Seq(Buckets) /\ Follow(<<>>, now) /\ Minutely(<<>>)
  BY DEF Follow, Minutely
<1>3. Told(<<>>, now, m.at, s) /\ Joined(<<>>, now, now, now)
  <2>1. now <= now
    OBVIOUS
  <2> QED BY <1>2, <2>1, AllBefore
<1> QED BY <1>1, <1>2, <1>3 DEF Tells

(* A sample that comes in time adds what was moved; every other one makes  *)
(* a gap of all that is before it.                                         *)
LEMMA AdvancedTells ==
  ASSUME MeterTyped, NEW p \in Histories, p # Nothing, Tells(p, now, Scaled(moved)),
         HistoryFits(p, now), NEW m \in Metrics, Advances(p, m), m.at \in 0 .. now,
         now <= m.at + Fresh + 1,
         Followed(LastOf(p), ReadingOf(m), moved)
  PROVE  Tells(Advanced(p, m), now, Scaled(moved))
<1> DEFINE h == Advanced(p, m)
           s == Scaled(moved)
           q == p.buckets
           ps == Pieces(p, m)
<1>1. /\ q \in Seq(Buckets) /\ p.metric \in Nat /\ p.last \in Nat /\ p.gap \in Nat
      /\ p.metric <= p.last /\ p.last <= p.metric + Fresh + 1
      /\ Minutely(q) /\ Joined(q, p.gap, p.last, now) /\ Told(q, p.gap, p.metric, s)
      /\ Follow(q, p.last)
  BY DEF Histories, HistoryFits, Tells
<1>2. /\ now \in Nat /\ m.at \in Nat /\ m.at <= now /\ p.metric < m.at /\ p.last < now
      /\ p.metric \in 0 .. now /\ p.metric <= m.at
  <2>1. now \in Nat
    BY MovedValues
  <2>2. p.metric < m.at /\ p.last < now /\ m.at \in Nat /\ m.at <= now
    BY <2>1 DEF Advances
  <2> QED BY <1>1, <2>1, <2>2
<1>3. /\ h.last = now /\ h.metric = m.at
      /\ h.gap = (IF WasReset(p, m) \/ Interrupted(p) THEN now ELSE p.gap)
      /\ h.buckets = (IF WasReset(p, m) THEN q ELSE Extended(q, ps))
  BY AdvancedParts
<1>5. h \in Histories
  BY <1>2, AdvancedFits
<1>6. ASSUME ~WasReset(p, m)
      PROVE  /\ Delta(p.counters, m.counters) \in Nat
             /\ Scale * Delta(p.counters, m.counters) = s[m.at + 1] - s[p.metric + 1]
             /\ ps \in Seq(Buckets) /\ ps # <<>> /\ Minutely(ps)
  <2>1. Delta(p.counters, m.counters) \in Nat
    BY <1>6, NoReset
  <2>2. Delta(p.counters, m.counters) = moved[m.at + 1] - moved[p.metric + 1]
    <3>1. LastOf(p).boot = ReadingOf(m).boot /\ SameCards(LastOf(p), ReadingOf(m))
      BY <1>6, ReadingParts DEF WasReset, DeltaValid, SameCards
    <3>2. /\ LastOf(p).counters = p.counters /\ ReadingOf(m).counters = m.counters
          /\ LastOf(p).at = p.metric /\ ReadingOf(m).at = m.at
      BY ReadingParts
    <3> QED BY <3>1, <3>2 DEF Followed, Delta
  <2>3. s[m.at + 1] - s[p.metric + 1] = Scale * (moved[m.at + 1] - moved[p.metric + 1])
    BY <1>2, ScaledMoved
  <2>4. ps \in Seq(Buckets) /\ Len(ps) \in Nat \ {0}
    BY <1>1, <1>2, <2>1, PiecesFollow
  <2>5. Minutely(ps)
    BY <1>1, <1>2, <2>1, PiecesMinutely
  <2>6. ps # <<>>
    BY <2>4
  <2> QED BY <2>1, <2>2, <2>3, <2>4, <2>5, <2>6
<1>7. Minutely(h.buckets)
  <2>1. CASE WasReset(p, m)
    BY <1>1, <1>3, <2>1
  <2>2. CASE ~WasReset(p, m)
    <3>1. h.buckets = Extended(q, ps)
      BY <1>3, <2>2
    <3>2. ps \in Seq(Buckets) /\ ps # <<>> /\ Minutely(ps)
      BY <1>6, <2>2
    <3> HIDE DEF q, ps, h, s
    <3>3. PICK k \in Nat : GoesOn(q, ps, Extended(q, ps), k)
      BY <1>1, <3>2, ExtendedGoesOn
    <3> QED BY <1>1, <3>1, <3>2, <3>3, MinutelyExtended
  <2> QED BY <2>1, <2>2
<1>8. CASE WasReset(p, m) \/ Interrupted(p)
  <2>1. h.gap = now
    BY <1>3, <1>8
  <2>2. h.buckets \in Seq(Buckets) /\ Follow(h.buckets, now)
    <3>1. HistoryFits(h, now)
      BY <1>2, AdvancedFits
    <3>2. h # Nothing \/ h = Nothing
      OBVIOUS
    <3>3. h.buckets \in Seq(Buckets)
      BY <1>5 DEF Histories
    <3>4. CASE ~WasReset(p, m)
      <4>1. h.buckets = Extended(q, ps)
        BY <1>3, <3>4
      <4>2. ps \in Seq(Buckets) /\ Follow(ps, now) /\ ps[1].start >= p.last /\ ps[1].start \in Nat
        BY <1>2, <1>6, <3>4, PiecesFit
      <4> HIDE DEF q, ps, h, s
      <4>3. Follow(q, now)
        BY <1>1, <1>2, FollowLater
      <4>4. q # <<>> => q[Len(q)].end <= ps[1].start
        <5> SUFFICES ASSUME q # <<>> PROVE q[Len(q)].end <= ps[1].start
          OBVIOUS
        <5>1. Len(q) \in 1 .. Len(q) /\ q[Len(q)] \in Buckets
          BY <1>1
        <5>2. q[Len(q)].end <= p.last /\ q[Len(q)].end \in Nat
          BY <1>1, <5>1 DEF Follow, Buckets
        <5> QED BY <1>1, <4>2, <5>2
      <4>5. Follow(Extended(q, ps), now)
        BY <1>1, <1>2, <4>2, <4>3, <4>4, FollowExtended
      <4> QED BY <3>3, <4>1, <4>5
    <3>5. CASE WasReset(p, m)
      <4>1. h.buckets = q
        BY <1>3, <3>5
      <4> HIDE DEF q, ps, h, s
      <4> QED BY <1>1, <1>2, <4>1, FollowLater
    <3> QED BY <3>4, <3>5
  <2>3. Told(h.buckets, now, m.at, s) /\ Joined(h.buckets, now, now, now)
    <3> HIDE DEF h, s
    <3> QED BY <1>2, <2>2, AllBefore
  <2> HIDE DEF h, s
  <2>4. Tells(h, now, s)
    BY <1>2, <1>3, <1>7, <2>1, <2>3 DEF Tells
  <2> QED BY <2>4 DEF h, s
<1>9. CASE ~WasReset(p, m) /\ ~Interrupted(p)
  <2>1. h.gap = p.gap /\ h.buckets = Extended(q, ps)
    BY <1>3, <1>9
  <2>2. now - p.last <= Lag
    <3>1. Fresh <= Lag /\ Fresh \in Nat /\ Lag \in Nat
      BY MeteringAssumption
    <3> QED BY <1>1, <1>2, <1>9, <3>1 DEF Interrupted
  <2>3. /\ Divide(ps, p.last, now) /\ Bytes(ps) = s[m.at + 1] - s[p.metric + 1]
        /\ ps \in Seq(Buckets) /\ ps # <<>>
    BY <1>1, <1>2, <1>6, <1>9, <2>2, PiecesDivide
  <2>4. Rising(s, m.at)
    BY ScaledMoved
  <2>5. Extended(q, ps) \in Seq(Buckets)
    BY <1>5, <2>1 DEF Histories
  <2> HIDE DEF q, ps, h, s
  <2>6. PICK k \in Nat : GoesOn(q, ps, Extended(q, ps), k)
    BY <1>1, <2>3, ExtendedGoesOn
  <2> DEFINE r == Extended(q, ps)
  <2>7. r \in Seq(Buckets) /\ GoesOn(q, ps, r, k)
    BY <2>5, <2>6
  <2> HIDE DEF r
  <2>8. Told(r, p.gap, m.at, s)
    BY <1>1, <1>2, <2>2, <2>3, <2>4, <2>7, ToldExtended
  <2>9. r # <<>>
    <3>1. Len(r) = k + Len(ps) /\ k \in Nat
      BY <2>7 DEF GoesOn
    <3>2. Len(ps) \in Nat \ {0}
      BY <2>3
    <3>3. Len(r) # 0
      BY <3>1, <3>2
    <3> QED BY <3>3
  <2>10. Joined(r, p.gap, now, now)
    BY <1>1, <2>3, <2>7, <2>9, JoinedExtended
  <2>11. Tells(h, now, s)
    BY <1>2, <1>3, <1>7, <2>1, <2>8, <2>10 DEF Tells, r
  <2> QED BY <2>11 DEF h, s
<1> QED BY <1>8, <1>9

LEMMA CollectedTells ==
  ASSUME now \in Nat, NEW p, NEW s, Tells(p, now, s), p # Nothing => p \in Histories
  PROVE  Tells(Collected(p), now, s)
<1> SUFFICES ASSUME Collected(p) # Nothing PROVE Tells(Collected(p), now, s)
  BY DEF Tells
<1> DEFINE h == Collected(p)
           q == p.buckets
<1>1. p # Nothing /\ p \in Histories /\ q \in Seq(Buckets) /\ p.gap \in Nat
  <2>1. p # Nothing
    BY DEF Collected
  <2> QED BY <2>1 DEF Histories
<1>2. /\ p.metric <= p.last /\ p.last <= p.metric + Fresh + 1
      /\ Minutely(q) /\ Joined(q, p.gap, p.last, now) /\ Told(q, p.gap, p.metric, s)
  BY <1>1 DEF Tells
<1>3. h.gap = p.gap /\ h.last = p.last /\ h.metric = p.metric
  BY <1>1, CollectedParts
<1>4. \/ /\ h.buckets = <<>>
         /\ \A i \in 1 .. Len(q) : q[i].end <= now - Window - Bucket
      \/ \E k \in 1 .. Len(q) :
           /\ h.buckets = SubSeq(q, k, Len(q))
           /\ k > 1 => q[k - 1].end <= now - Window - Bucket
  BY <1>1, CollectedFrom
<1> HIDE DEF h, q
<1>5. Minutely(h.buckets) /\ Joined(h.buckets, p.gap, p.last, now) /\ Told(h.buckets, p.gap, p.metric, s)
  <2>1. ASSUME h.buckets = <<>>, \A i \in 1 .. Len(q) : q[i].end <= now - Window - Bucket
        PROVE  Minutely(h.buckets) /\ Joined(h.buckets, p.gap, p.last, now)
               /\ Told(h.buckets, p.gap, p.metric, s)
    <3>1. <<>> \in Seq(Buckets) /\ Follow(<<>>, p.gap) /\ Minutely(<<>>)
      BY DEF Follow, Minutely
    <3>2. Told(<<>>, p.gap, p.metric, s)
      BY <1>1, <3>1, AllBefore
    <3>3. Joined(<<>>, p.gap, p.last, now)
      BY <1>1, <1>2, <2>1, JoinedNone
    <3> QED BY <2>1, <3>1, <3>2, <3>3
  <2>2. ASSUME NEW k \in 1 .. Len(q), h.buckets = SubSeq(q, k, Len(q)),
               k > 1 => q[k - 1].end <= now - Window - Bucket
        PROVE  Minutely(h.buckets) /\ Joined(h.buckets, p.gap, p.last, now)
               /\ Told(h.buckets, p.gap, p.metric, s)
    <3>1. Minutely(SubSeq(q, k, Len(q)))
      BY <1>1, <1>2, MinutelySuffix
    <3>2. Joined(SubSeq(q, k, Len(q)), p.gap, p.last, now)
      BY <1>1, <1>2, <2>2, JoinedSuffix
    <3>3. Told(SubSeq(q, k, Len(q)), p.gap, p.metric, s)
      BY <1>1, <1>2, ToldSuffix
    <3> QED BY <2>2, <3>1, <3>2, <3>3
  <2> QED BY <1>4, <2>1, <2>2
<1> QED BY <1>2, <1>3, <1>5 DEF Tells, h

LEMMA SampledTells ==
  ASSUME MeterTyped, NEW p, Tells(p, now, Scaled(moved)), HistoryFits(p, now),
         NEW m \in Metrics \cup {Nothing}, NEW c,
         m # Nothing => m.at \in 0 .. now,
         Usable(m, c) => now <= m.at + Fresh + 1,
         p # Nothing /\ m # Nothing /\ p.metric < m.at => Followed(LastOf(p), ReadingOf(m), moved)
  PROVE  Tells(Collected(Sampled(p, m, c)), now, Scaled(moved))
<1> DEFINE h == Sampled(p, m, c)
           s == Scaled(moved)
<1>0. now \in Nat
  BY MovedValues
<1>1. Tells(h, now, s) /\ (h # Nothing => h \in Histories)
  <2>1. CASE ~Usable(m, c)
    BY <2>1 DEF Sampled, HistoryFits
  <2>2. CASE Usable(m, c) /\ p = Nothing
    <3>1. m \in Metrics /\ m # Nothing /\ h = NewHistory(m)
      BY <2>2 DEF Usable, Sampled
    <3>2. m.at <= now
      BY <1>0, <3>1
    <3> HIDE DEF h, s
    <3> QED BY <1>0, <2>2, <3>1, <3>2, NewTells, NewHistoryFits
  <2>3. CASE Usable(m, c) /\ p # Nothing /\ Advances(p, m)
    <3>1. m \in Metrics /\ m # Nothing /\ p \in Histories /\ h = Advanced(p, m)
      BY <2>3 DEF Usable, Sampled, HistoryFits
    <3>2. p.metric < m.at /\ m.at \in 0 .. now
      <4>1. p.metric \in Nat
        BY <3>1 DEF Histories
      <4> QED BY <2>3, <3>1, <4>1, <1>0 DEF Advances
    <3>3. Tells(Advanced(p, m), now, s)
      BY <2>3, <3>1, <3>2, AdvancedTells
    <3>4. Advanced(p, m) \in Histories
      BY <1>0, <2>3, <3>1, AdvancedFits
    <3> QED BY <3>1, <3>3, <3>4
  <2>4. CASE Usable(m, c) /\ p # Nothing /\ ~Advances(p, m)
    BY <2>4 DEF Sampled, HistoryFits
  <2> QED BY <2>1, <2>2, <2>3, <2>4
<1> HIDE DEF h, s
<1>2. Tells(Collected(h), now, s)
  BY <1>0, <1>1, CollectedTells
<1> QED BY <1>2 DEF h, s

(* A metric is handled in the unit it was sent in, or in the next one.     *)
StoreRecent(s) ==
  s.latest # Nothing /\ s.contact # Nothing =>
    s.latest.at <= s.contact /\ s.contact <= s.latest.at + 1

FiguresSound ==
  /\ \A m \in wire : m.at <= now /\ now <= m.at + 1
  /\ StoreRecent(store) /\ StoreRecent(storeFile)
  /\ Tells(host, now, Scaled(moved)) /\ Tells(hostFile, now, Scaled(moved))

LEMMA FiguresInit == MeterInit => FiguresSound
BY DEF MeterInit, NewStore, FiguresSound, StoreRecent, Tells

LEMMA UpdateRecent ==
  ASSUME NEW t \in Nat, NEW s, DOMAIN s = {"latest", "contact", "daily", "known"},
         NEW m, m.at \in Nat, m.at <= t, t <= m.at + 1, StoreRecent(s),
         s.latest # Nothing => s.latest.at \in 0 .. t,
         NEW r, r = Handled(s, m, t)
  PROVE  StoreRecent(r)
<1>1. /\ r.contact = t
      /\ Newer(m, s) => r.latest = m
      /\ ~Newer(m, s) => r.latest = s.latest
  BY UpdateParts
<1>2. r.latest # Nothing => r.latest.at <= t /\ t <= r.latest.at + 1
  <2>1. CASE Newer(m, s)
    <3>1. r.latest = m
      BY <1>1, <2>1
    <3> QED BY <3>1
  <2>2. CASE ~Newer(m, s)
    <3>1. r.latest = s.latest /\ s.latest # Nothing /\ ~(m.at > s.latest.at)
      BY <1>1, <2>2 DEF Newer
    <3> DEFINE x == s.latest.at
               y == m.at
    <3>2. x \in 0 .. t /\ y \in Nat /\ ~(y > x) /\ t <= y + 1
      BY <3>1
    <3> HIDE DEF x, y
    <3>3. x <= t /\ t <= x + 1
      BY <3>2
    <3> QED BY <3>1, <3>3 DEF x
  <2> QED BY <2>1, <2>2
<1> QED BY <1>1, <1>2 DEF StoreRecent

LEMMA FiguresStep ==
  MeterTyped /\ MeterSound /\ FiguresSound /\ [MeterNext]_meterVars => FiguresSound'
<1> SUFFICES ASSUME MeterTyped, MeterSound, FiguresSound, [MeterNext]_meterVars
             PROVE  FiguresSound'
  OBVIOUS
<1>0. /\ now \in Nat /\ wire \subseteq Metrics /\ StoreFits(store, now)
      /\ store.latest \in Metrics \cup {Nothing}
      /\ store.contact \in (0 .. now) \cup {Nothing}
      /\ HistoryFits(host, now) /\ HistoryFits(hostFile, now)
  BY MovedValues DEF MeterTyped, StoreFits
<1>a. /\ \A m \in wire : m.at <= now /\ now <= m.at + 1
      /\ StoreRecent(store) /\ StoreRecent(storeFile)
      /\ Tells(host, now, Scaled(moved)) /\ Tells(hostFile, now, Scaled(moved))
  BY DEF FiguresSound
<1>b. /\ \A x \in Readings : x.at \in 0 .. now
      /\ \A x \in Readings : \A y \in Readings : x.at < y.at => Followed(x, y, moved)
  BY DEF MeterSound, ReadingsOrdered
<1>c. /\ store.latest # Nothing => ReadingOf(store.latest) \in Readings
      /\ host # Nothing => LastOf(host) \in Readings
      /\ hostFile # Nothing => LastOf(hostFile) \in Readings
  BY DEF Readings
<1>d. /\ store.latest # Nothing => store.latest.at \in 0 .. now
      /\ host # Nothing => host.metric \in 0 .. now /\ host \in Histories
      /\ hostFile # Nothing => hostFile.metric \in 0 .. now /\ hostFile \in Histories
  BY <1>0, <1>b, <1>c, ReadingParts DEF HistoryFits
<1>1. CASE PassUnit
  <2>1. /\ now' = now + 1 /\ wire' \subseteq {m \in wire : m.at = now}
        /\ UNCHANGED <<store, storeFile, host, hostFile>>
    BY <1>1 DEF PassUnit, storeVars, hostVars
  <2>2. PICK b \in Nat : moved' = Append(moved, Moved(now) + b)
    <3>0. Moved(now) \in Nat
      <4>1. now \in 0 .. now
        BY <1>0
      <4> QED BY <4>1, MovedValues
    <3>1. CASE Idle
      <4>1. moved' = Append(moved, Moved(now) + 0) /\ 0 \in Nat
        BY <3>0, <3>1 DEF Idle
      <4> QED BY <4>1
    <3>2. ASSUME NEW card \in Cards, Carry(card)
          PROVE  \E b \in Nat : moved' = Append(moved, Moved(now) + b)
      <4>1. moved' = Append(moved, Moved(now) + Packet) /\ Packet \in Nat
        BY <3>2, MeteringAssumption DEF Carry
      <4> QED BY <4>1
    <3> QED BY <1>1, <3>1, <3>2 DEF PassUnit
  <2>3. /\ moved' \in Seq(Nat) /\ Len(moved') = now + 2
        /\ \A i \in 1 .. now + 1 : moved'[i] = moved[i]
    BY <2>2, MovedOn
  <2>4. moved \in Seq(Nat) /\ Len(moved) = now + 1
    BY DEF MeterTyped
  <2>5. \A i \in 1 .. now + 1 : i \in DOMAIN moved' /\ i \in DOMAIN moved
    BY <1>0, <2>3, <2>4
  <2> DEFINE r == Scaled(moved')
             s == Scaled(moved)
  <2>6. \A i \in 1 .. now + 1 : r[i] = s[i]
    BY <2>3, <2>5 DEF Scaled
  <2>a. Tells(host, now, s) /\ Tells(hostFile, now, s)
    BY <1>a
  <2> HIDE DEF r, s
  <2>7. \A p : (p # Nothing => p.metric \in 0 .. now /\ p \in Histories) /\ Tells(p, now, s)
                 => Tells(p, now + 1, r)
    <3> SUFFICES ASSUME NEW p, p # Nothing => p.metric \in 0 .. now /\ p \in Histories,
                        Tells(p, now, s)
                 PROVE  Tells(p, now + 1, r)
      OBVIOUS
    <3>1. p # Nothing => \A x \in 0 .. p.metric : r[x + 1] = s[x + 1]
      <4> SUFFICES ASSUME p # Nothing, NEW x \in 0 .. p.metric PROVE r[x + 1] = s[x + 1]
        OBVIOUS
      <4>1. x + 1 \in 1 .. now + 1
        BY <1>0
      <4> QED BY <2>6, <4>1
    <3>2. now + 1 \in Nat /\ now <= now + 1
      BY <1>0
    <3> QED BY <1>0, <3>1, <3>2, TellsLater
  <2>8. Tells(host, now + 1, r) /\ Tells(hostFile, now + 1, r)
    BY <1>d, <2>7, <2>a
  <2>9. \A m \in wire' : m.at <= now' /\ now' <= m.at + 1
    BY <1>0, <2>1
  <2> QED BY <1>a, <2>1, <2>8, <2>9 DEF FiguresSound, r
<1>2. CASE RestartCounters
  <2>1. UNCHANGED <<now, moved, wire, store, storeFile, host, hostFile>>
    BY <1>2 DEF RestartCounters, storeVars, hostVars
  <2> QED BY <1>a, <2>1 DEF FiguresSound
<1>3. CASE Report
  <2>1. /\ UNCHANGED <<now, moved, store, storeFile, host, hostFile>>
        /\ wire' \in {wire, wire \cup {NewMetric}}
    BY <1>3 DEF Report, storeVars, hostVars
  <2>2. NewMetric.at = now
    BY DEF NewMetric
  <2>3. \A m \in wire' : m.at <= now /\ now <= m.at + 1
    <3> TAKE m \in wire'
    <3>1. m \in wire \/ m = NewMetric
      BY <2>1
    <3>2. now <= now /\ now <= now + 1
      BY <1>0
    <3> QED BY <1>a, <2>2, <3>1, <3>2
  <2> QED BY <1>a, <2>1, <2>3 DEF FiguresSound
<1>4. ASSUME NEW m \in wire, HandleMetric(m) PROVE FiguresSound'
  <2>1. /\ UNCHANGED <<now, moved, storeFile, host, hostFile>> /\ wire' \subseteq wire
        /\ store' = UpdateMetric([store EXCEPT !.contact = now], m)
    BY <1>4 DEF HandleMetric, nodeVars, hostVars
  <2>2. m \in Metrics /\ m.at <= now /\ now <= m.at + 1
    BY <1>0, <1>a
  <2>3. DOMAIN store = {"latest", "contact", "daily", "known"} /\ m.at \in Nat
    BY <1>0, <2>2 DEF StoreFits, Metrics
  <2>4. StoreRecent(store')
    <3> DEFINE r == store'
    <3>1. r = Handled(store, m, now)
      BY <2>1 DEF Handled
    <3> HIDE DEF r
    <3>2. StoreRecent(r)
      BY <1>0, <1>a, <1>d, <2>2, <2>3, <3>1, UpdateRecent
    <3> QED BY <3>2 DEF r
  <2> QED BY <1>a, <2>1, <2>4 DEF FiguresSound
<1>5. CASE HostRound
  <2>1. /\ UNCHANGED <<now, moved, wire, store, storeFile>>
        /\ host' = Collected(Sampled(host, store.latest, store.contact))
        /\ hostFile' \in {hostFile, host'}
    BY <1>5 DEF HostRound, nodeVars, storeVars
  <2>2. host # Nothing /\ store.latest # Nothing /\ host.metric < store.latest.at =>
          Followed(LastOf(host), ReadingOf(store.latest), moved)
    BY <1>b, <1>c, ReadingParts
  <2>3. Usable(store.latest, store.contact) => now <= store.latest.at + Fresh + 1
    <3> SUFFICES ASSUME Usable(store.latest, store.contact)
                 PROVE  now <= store.latest.at + Fresh + 1
      OBVIOUS
    <3>1. store.latest # Nothing /\ store.contact # Nothing /\ now - store.contact <= Fresh
      BY DEF Usable
    <3>2. store.contact <= store.latest.at + 1 /\ store.latest.at \in Nat /\ store.contact \in Nat
      BY <1>0, <1>a, <1>d, <3>1 DEF StoreRecent
    <3>3. Fresh \in Nat
      BY MeteringAssumption
    <3> QED BY <1>0, <3>1, <3>2, <3>3
  <2>4. Tells(Collected(Sampled(host, store.latest, store.contact)), now, Scaled(moved))
    BY <1>0, <1>a, <1>d, <2>2, <2>3, SampledTells
  <2>5. Tells(host', now, Scaled(moved)) /\ Tells(hostFile', now, Scaled(moved))
    BY <1>a, <2>1, <2>4
  <2> QED BY <1>a, <2>1, <2>5 DEF FiguresSound
<1>6. CASE FlushStore
  <2>1. UNCHANGED <<now, moved, wire, store, host, hostFile>> /\ storeFile' = store
    BY <1>6 DEF FlushStore, nodeVars, hostVars
  <2> QED BY <1>a, <2>1 DEF FiguresSound
<1>7. CASE Stop
  <2>1. /\ UNCHANGED <<now, moved, wire, storeFile, hostFile>>
        /\ store'.latest = Nothing /\ host' = Nothing
    BY <1>7 DEF Stop, nodeVars, NewStore
  <2>2. StoreRecent(store') /\ Tells(host', now', Scaled(moved'))
    BY <2>1 DEF StoreRecent, Tells
  <2> QED BY <1>a, <2>1, <2>2 DEF FiguresSound
<1>8. CASE Start
  <2>1. UNCHANGED <<now, moved, wire, storeFile, hostFile>> /\ store' = storeFile /\ host' = hostFile
    BY <1>8 DEF Start, nodeVars
  <2> QED BY <1>a, <2>1 DEF FiguresSound
<1>9. CASE UNCHANGED meterVars
  <2>1. UNCHANGED <<now, moved, wire, store, storeFile, host, hostFile>>
    BY <1>9 DEF meterVars, nodeVars, storeVars, hostVars
  <2> QED BY <1>a, <2>1 DEF FiguresSound
<1> QED BY <1>1, <1>2, <1>3, <1>4, <1>5, <1>6, <1>7, <1>8, <1>9 DEF MeterNext

-----------------------------------------------------------------------------
(* The figure is a running total, too.                                     *)
WindowOf(q) == [i \in DOMAIN q |-> InWindow(q[i])]

LEMMA PartOfWhole ==
  ASSUME NEW v \in Nat, NEW y \in Nat, NEW w \in Nat \ {0}, y <= w
  PROVE  (v * y) \div w \in 0 .. v /\ (y = w => (v * y) \div w = v)
<1> DEFINE t == v * y
           c == t \div w
<1>1. t \in Nat
  OBVIOUS
<1> HIDE DEF t
<1>2. c \in Nat /\ w * c <= t /\ t < w * c + w
  BY <1>1, DivBounds, DivNat
<1> HIDE DEF c
<1>3. c <= v
  BY <1>2, QuotientBelow DEF t
<1>4. y = w => c = v
  <2> SUFFICES ASSUME y = w PROVE v <= c
    BY <1>2, <1>3
  <2> SUFFICES ASSUME v >= c + 1 PROVE FALSE
    BY <1>2
  <2>1. w * (c + 1) <= w * v
    BY <1>2, Z3
  <2>2. w * (c + 1) = w * c + w /\ t = w * v /\ w * c \in Nat
    BY <1>2 DEF t
  <2> QED BY <1>1, <1>2, <2>1, <2>2
<1> QED BY <1>2, <1>3, <1>4 DEF c, t

LEMMA InWindowBounds ==
  ASSUME now \in Nat, NEW b \in Buckets, b.start < b.end, b.end <= now
  PROVE  /\ InWindow(b) \in Nat /\ InWindow(b) <= b.bytes
         /\ b.end <= Cut => InWindow(b) = 0
         /\ b.start >= Cut => InWindow(b) = b.bytes
<1> DEFINE s == b.start
           e == b.end
           v == b.bytes
           lo == Max({s, Cut})
           hi == Min({e, now})
<1>1. s \in Nat /\ e \in Nat /\ v \in Nat /\ s < e /\ e <= now
  BY DEF Buckets
<1>2. Cut \in Int /\ Cut < now
  BY MeteringAssumption DEF Cut
<1>3. InWindow(b) = IF e <= Cut \/ s >= now THEN 0 ELSE (v * (hi - lo)) \div (e - s)
  BY DEF InWindow
<1>4. hi = e /\ lo = IF s >= Cut THEN s ELSE Cut
  BY <1>1, <1>2, MaxOfTwo, MinOfTwo
<1> HIDE DEF s, e, v, lo, hi
<1>5. CASE e <= Cut
  <2>1. ~(s >= Cut)
    BY <1>1, <1>2, <1>5
  <2> QED BY <1>1, <1>3, <1>5, <2>1 DEF s, e, v
<1>6. CASE ~(e <= Cut)
  <2> DEFINE y == hi - lo
             w == e - s
  <2>1. y \in Nat /\ w \in Nat \ {0} /\ y <= w /\ (s >= Cut => y = w) /\ ~(s >= now)
    BY <1>1, <1>2, <1>4, <1>6
  <2>2. InWindow(b) = (v * y) \div w
    BY <1>3, <1>6, <2>1
  <2> HIDE DEF y, w
  <2>3. (v * y) \div w \in 0 .. v /\ (y = w => (v * y) \div w = v)
    BY <1>1, <2>1, PartOfWhole
  <2>4. InWindow(b) \in Nat /\ InWindow(b) <= v /\ (s >= Cut => InWindow(b) = v)
    BY <1>1, <2>1, <2>2, <2>3
  <2> QED BY <1>6, <2>4 DEF s, e, v
<1> QED BY <1>5, <1>6

LEMMA FigureHasRun ==
  ASSUME now \in Nat, NEW p, NEW q \in Seq(Buckets), q = p.buckets, Follow(q, now)
  PROVE  \E h : Runs(WindowOf(q), Len(q), h) /\ Figure(p) = h[Len(q)]
<1> DEFINE n == Len(q)
           S == 1 .. n
           w == WindowOf(q)
           ch == [s \in SUBSET S |-> Max(s)]
           Equation(f) == f = [s \in SUBSET S |->
                                 IF s = {} THEN 0 ELSE f[s \ {Max(s)}] + InWindow(q[Max(s)])]
<1>1. /\ n \in Nat /\ DOMAIN q = S /\ IsFiniteSet(S) /\ w \in [S -> Int]
      /\ \A i \in S : w[i] = InWindow(q[i])
  <2>1. n \in Nat /\ DOMAIN q = S /\ \A i \in S : q[i] \in Buckets
    OBVIOUS
  <2>2. \A i \in S : InWindow(q[i]) \in Int
    <3> TAKE i \in S
    <3>1. q[i].start < q[i].end /\ q[i].end <= now
      BY DEF Follow
    <3> QED BY <2>1, <3>1, InWindowBounds
  <2>3. IsFiniteSet(S)
    BY <2>1, FS_Interval
  <2> QED BY <2>1, <2>2, <2>3 DEF WindowOf
<1>2. \A s \in SUBSET S : s # {} =>
        ch[s] = Max(s) /\ ch[s] \in s /\ w[ch[s]] = InWindow(q[Max(s)])
  <2> SUFFICES ASSUME NEW s \in SUBSET S, s # {}
               PROVE  ch[s] = Max(s) /\ ch[s] \in s /\ w[ch[s]] = InWindow(q[Max(s)])
    OBVIOUS
  <2>1. ch[s] = Max(s)
    OBVIOUS
  <2>2. Max(s) \in s
    <3>1. n \in Nat /\ s \subseteq 0 .. n
      BY <1>1
    <3> HIDE DEF n, S
    <3> QED BY <3>1, LargestUpTo
  <2> HIDE DEF ch, w
  <2> QED BY <1>1, <2>1, <2>2
<1> HIDE DEF w, ch, n
<1>3. Picks(S, ch)
  BY <1>2 DEF Picks
<1>4. PICK g \in [SUBSET S -> Int] : Recurs(SUBSET S, w, ch, g)
  BY <1>1, <1>3, SumExists
<1>5. Equation(g)
  <2>1. ASSUME NEW s \in SUBSET S, s # {}
        PROVE  g[s] = g[s \ {Max(s)}] + InWindow(q[Max(s)])
    <3>1. g[s] = w[ch[s]] + g[s \ {ch[s]}]
      BY <1>4, <2>1 DEF Recurs
    <3>2. w[ch[s]] \in Int /\ g[s \ {ch[s]}] \in Int
      BY <1>1, <1>2, <2>1
    <3>3. g[s] = g[s \ {ch[s]}] + w[ch[s]]
      BY <3>1, <3>2
    <3>4. ch[s] = Max(s) /\ w[ch[s]] = InWindow(q[Max(s)])
      BY <1>2, <2>1
    <3> QED BY <3>3, <3>4
  <2>2. g[{}] = 0
    BY <1>4 DEF Recurs
  <2>3. \A s \in SUBSET S : g[s] = IF s = {} THEN 0 ELSE g[s \ {Max(s)}] + InWindow(q[Max(s)])
    BY <2>1, <2>2
  <2> QED BY <2>3
<1> DEFINE f == CHOOSE u : Equation(u)
<1>6. Equation(f)
  <2> HIDE DEF Equation
  <2> QED BY <1>5
<1>7. Figure(p) = f[S]
  BY <1>1 DEF Figure, FoldLeft, MapThenFoldSet
<1> HIDE DEF f
<1>8. Unfolds(S, w, ch, f)
  <2>1. ASSUME NEW s \in SUBSET S, s # {}
        PROVE  f[s] = f[s \ {ch[s]}] + w[ch[s]]
    <3>1. f[s] = f[s \ {Max(s)}] + InWindow(q[Max(s)])
      BY <1>6, <2>1
    <3>2. ch[s] = Max(s) /\ w[ch[s]] = InWindow(q[Max(s)])
      BY <1>2, <2>1
    <3> QED BY <3>1, <3>2
  <2>2. f[{}] = 0
    BY <1>6
  <2> QED BY <2>1, <2>2 DEF Unfolds
<1>9. Sums(S, w, f)
  BY <1>1, <1>3, <1>8, RecursSums
<1>10. PICK r : Runs(w, n, r) /\ r[n] = f[S]
  BY <1>1, <1>9, RunsExist
<1> QED BY <1>7, <1>10 DEF w, n

LEMMA RunsCompare ==
  ASSUME NEW n \in Nat, NEW k \in 0 .. n, NEW g, NEW h,
         \A i \in 0 .. n : g[i] \in Int /\ h[i] \in Int,
         \A i \in k + 1 .. n : g[i] - g[i - 1] <= h[i] - h[i - 1]
  PROVE  g[n] - g[k] <= h[n] - h[k]
<1> DEFINE T == {i \in 0 .. n : i < k \/ g[i] - g[k] <= h[i] - h[k]}
<1>1. 0 \in T
  <2>1. 0 < k \/ 0 = k
    OBVIOUS
  <2>2. g[k] - g[k] <= h[k] - h[k]
    OBVIOUS
  <2> QED BY <2>1, <2>2
<1>2. ASSUME NEW i \in 1 .. n, i - 1 \in T PROVE i \in T
  <2>1. CASE i < k
    BY <2>1
  <2>2. CASE i = k
    <3>1. g[k] - g[k] <= h[k] - h[k]
      OBVIOUS
    <3> QED BY <2>2, <3>1
  <2>3. CASE i > k
    <3>1. i \in k + 1 .. n /\ i \in 0 .. n /\ i - 1 \in 0 .. n /\ ~(i - 1 < k)
      BY <2>3
    <3>2. g[i - 1] - g[k] <= h[i - 1] - h[k]
      BY <1>2, <3>1
    <3>3. g[i] - g[i - 1] <= h[i] - h[i - 1]
      BY <3>1
    <3>4. g[i] \in Int /\ h[i] \in Int /\ g[i - 1] \in Int /\ h[i - 1] \in Int
          /\ g[k] \in Int /\ h[k] \in Int
      BY <3>1
    <3>5. g[i] - g[k] <= h[i] - h[k]
      BY <3>2, <3>3, <3>4
    <3> QED BY <3>5
  <2> QED BY <2>1, <2>2, <2>3
<1> HIDE DEF T
<1>3. \A i \in 0 .. n : i \in T
  BY <1>1, <1>2, InductiveUpTo
<1>4. n \in T
  BY <1>3
<1> QED BY <1>4 DEF T

(* Each bucket adds to the figure what it adds to the bytes, at most.      *)
LEMMA FigureSteps ==
  ASSUME now \in Nat, NEW q \in Seq(Buckets), Follow(q, now),
         NEW h, Runs(BytesOf(q), Len(q), h), NEW g, Runs(WindowOf(q), Len(q), g)
  PROVE  /\ g[0] = 0 /\ \A i \in 0 .. Len(q) : g[i] \in Int /\ h[i] \in Int
         /\ \A i \in 1 .. Len(q) :
              /\ q[i].start \in Nat /\ q[i].end \in Nat
              /\ 0 <= g[i] - g[i - 1] /\ g[i] - g[i - 1] <= h[i] - h[i - 1]
              /\ q[i].end <= Cut => g[i] - g[i - 1] = 0
              /\ q[i].start >= Cut => g[i] - g[i - 1] = h[i] - h[i - 1]
<1> DEFINE n == Len(q)
<1>1. n \in Nat /\ \A i \in 1 .. n : q[i] \in Buckets /\ i \in DOMAIN q
  OBVIOUS
<1>2. ASSUME NEW i \in 1 .. n
      PROVE  /\ InWindow(q[i]) \in Nat /\ InWindow(q[i]) <= q[i].bytes
             /\ q[i].end <= Cut => InWindow(q[i]) = 0
             /\ q[i].start >= Cut => InWindow(q[i]) = q[i].bytes
             /\ WindowOf(q)[i] = InWindow(q[i])
             /\ q[i].start \in Nat /\ q[i].end \in Nat
  <2>1. q[i] \in Buckets /\ q[i].start < q[i].end /\ q[i].end <= now /\ i \in DOMAIN q
    BY <1>1 DEF Follow
  <2>2. q[i].start \in Nat /\ q[i].end \in Nat
    BY <2>1 DEF Buckets
  <2>3. WindowOf(q)[i] = InWindow(q[i])
    BY <2>1 DEF WindowOf
  <2> QED BY <2>1, <2>2, <2>3, InWindowBounds
<1>3. \A i \in 0 .. n : h[i] \in Nat
  BY RunsNat
<1>4. \A i \in 1 .. n : h[i] = h[i - 1] + q[i].bytes /\ q[i].bytes \in Nat
  BY RunsNat
<1>5. \A i \in 0 .. n : g[i] \in Int
  <2>1. \A i \in 1 .. n : WindowOf(q)[i] \in Int
    BY <1>2
  <2> HIDE DEF n
  <2> QED BY <1>1, <2>1, RunsInt DEF n
<1>6. g[0] = 0 /\ \A i \in 1 .. n : g[i] = g[i - 1] + InWindow(q[i])
  BY <1>2 DEF Runs
<1> HIDE DEF n
<1>7. ASSUME NEW i \in 1 .. n
      PROVE  /\ q[i].start \in Nat /\ q[i].end \in Nat
             /\ 0 <= g[i] - g[i - 1] /\ g[i] - g[i - 1] <= h[i] - h[i - 1]
             /\ q[i].end <= Cut => g[i] - g[i - 1] = 0
             /\ q[i].start >= Cut => g[i] - g[i - 1] = h[i] - h[i - 1]
  <2> DEFINE x == InWindow(q[i])
             y == q[i].bytes
  <2>1. /\ x \in Nat /\ y \in Nat /\ x <= y
        /\ q[i].end <= Cut => x = 0
        /\ q[i].start >= Cut => x = y
        /\ q[i].start \in Nat /\ q[i].end \in Nat
    BY <1>2, <1>4
  <2>2. i \in 0 .. n /\ i - 1 \in 0 .. n
    BY <1>1
  <2>3. g[i] = g[i - 1] + x /\ h[i] = h[i - 1] + y
    BY <1>4, <1>6
  <2>4. g[i - 1] \in Int /\ h[i - 1] \in Int
    BY <1>3, <1>5, <2>2
  <2> HIDE DEF x, y
  <2>5. g[i] - g[i - 1] = x /\ h[i] - h[i - 1] = y
    BY <2>1, <2>3, <2>4
  <2> QED BY <2>1, <2>5
<1> QED BY <1>3, <1>5, <1>6, <1>7 DEF n

(* A bucket that reaches into the window begins in its first minute.       *)
LEMMA BeginsInMinute ==
  ASSUME NEW cut \in Nat, NEW start \in Nat, NEW end \in Nat, cut < end,
         end <= (start \div Bucket + 1) * Bucket
  PROVE  /\ Bucket * (cut \div Bucket) <= start
         /\ cut + 1 <= start + Bucket
<1> DEFINE c == cut \div Bucket
           d == start \div Bucket
<1>1. Bucket \in Nat \ {0}
  BY MeteringAssumption
<1>2. c \in Nat /\ Bucket * c <= cut /\ cut < Bucket * c + Bucket
  BY <1>1, DivBounds, DivNat
<1>3. d \in Nat /\ Bucket * d <= start
  BY <1>1, DivBounds, DivNat
<1>4. end <= (d + 1) * Bucket
  OBVIOUS
<1> HIDE DEF c, d
<1>5. c <= d
  <2> SUFFICES ASSUME d + 1 <= c PROVE FALSE
    BY <1>2, <1>3
  <2>1. (d + 1) * Bucket <= Bucket * c
    BY <1>1, <1>2, <1>3, Z3
  <2>2. (d + 1) * Bucket \in Nat /\ Bucket * c \in Nat
    BY <1>1, <1>2, <1>3
  <2> QED BY <1>2, <1>4, <2>1, <2>2
<1>6. Bucket * c <= Bucket * d
  BY <1>1, <1>2, <1>3, <1>5, Z3
<1>7. Bucket * c \in Nat /\ Bucket * d \in Nat
  BY <1>1, <1>2, <1>3
<1>8. Bucket * c <= start /\ cut + 1 <= start + Bucket
  BY <1>1, <1>2, <1>3, <1>6, <1>7
<1> QED BY <1>8 DEF c

(* What was moved before the figure's window does not count in it.         *)
LEMMA FigureAbove ==
  ASSUME now \in Nat, NEW q \in Seq(Buckets), Follow(q, now), Minutely(q),
         NEW gap \in Nat, NEW metric \in 0 .. now, NEW s, Rising(s, now),
         NEW h, Runs(BytesOf(q), Len(q), h), Bounded(q, gap, metric, s, h),
         NEW g, Runs(WindowOf(q), Len(q), g),
         Cut \in Nat, gap <= Bucket * (Cut \div Bucket),
         NEW a \in 0 .. metric, a = 0 \/ a = Cut - Before
  PROVE  g[Len(q)] <= s[metric + 1] - s[a + 1]
<1> DEFINE n == Len(q)
           T == {i \in 1 .. n : q[i].end > Cut}
<1>1. n \in Nat
  OBVIOUS
<1>2. /\ g[0] = 0 /\ \A i \in 0 .. n : g[i] \in Int /\ h[i] \in Int
      /\ \A i \in 1 .. n :
           /\ q[i].start \in Nat /\ q[i].end \in Nat
           /\ 0 <= g[i] - g[i - 1] /\ g[i] - g[i - 1] <= h[i] - h[i - 1]
           /\ q[i].end <= Cut => g[i] - g[i - 1] = 0
  BY FigureSteps
<1>3. /\ s[metric + 1] \in Nat /\ s[a + 1] \in Nat /\ s[a + 1] <= s[metric + 1]
  <2>1. a \in 0 .. now /\ metric \in 0 .. now /\ a <= metric
    OBVIOUS
  <2> QED BY <2>1 DEF Rising
<1> HIDE DEF n
(* As long as no bucket reaches into the window the figure is 0.           *)
<1>4. ASSUME NEW k \in 0 .. n, \A i \in 1 .. k : ~(q[i].end > Cut)
      PROVE  g[k] = 0
  <2> DEFINE z == [i \in Nat |-> 0]
  <2>1. \A i \in 0 .. k : i \in 0 .. n /\ i \in Nat
    BY <1>1
  <2>2. \A i \in 0 .. k : g[i] \in Int /\ z[i] \in Int /\ z[i] = 0
    BY <1>2, <2>1
  <2>3. ASSUME NEW i \in 0 + 1 .. k PROVE g[i] - g[i - 1] <= z[i] - z[i - 1]
    <3>1. i \in 1 .. k /\ i \in 1 .. n /\ i \in 0 .. k /\ i - 1 \in 0 .. k
      BY <1>1
    <3>2. q[i].end <= Cut
      BY <1>2, <1>4, <3>1
    <3>3. g[i] - g[i - 1] = 0
      BY <1>2, <3>1, <3>2
    <3> QED BY <2>2, <3>1, <3>3
  <2>4. ASSUME NEW i \in 0 + 1 .. k PROVE z[i] - z[i - 1] <= g[i] - g[i - 1]
    <3>1. i \in 1 .. n /\ i \in 0 .. k /\ i - 1 \in 0 .. k
      BY <1>1
    <3> QED BY <1>2, <2>2, <3>1
  <2>5. k \in Nat /\ 0 \in 0 .. k /\ k \in 0 .. k
    BY <1>1
  <2> HIDE DEF z
  <2>6. g[k] - g[0] <= z[k] - z[0]
    BY <2>2, <2>3, <2>5, RunsCompare
  <2>7. z[k] - z[0] <= g[k] - g[0]
    BY <2>2, <2>4, <2>5, RunsCompare
  <2> QED BY <1>2, <2>2, <2>5, <2>6, <2>7
<1>5. CASE T = {}
  <2>1. \A i \in 1 .. n : ~(q[i].end > Cut)
    BY <1>5
  <2>2. n \in 0 .. n
    BY <1>1
  <2>3. g[n] = 0
    BY <1>4, <2>1, <2>2
  <2> QED BY <1>3, <2>3 DEF n
<1>6. CASE T # {}
  <2>1. T \subseteq Nat
    BY <1>1
  <2>2. PICK i \in T : \A j \in T : i <= j
    <3> HIDE DEF T
    <3> QED BY <1>6, <2>1, SmallestNat
  <2>3. /\ i \in 1 .. n /\ i - 1 \in 0 .. n /\ i \in Nat
        /\ \A j \in 1 .. i - 1 : j \in 1 .. n /\ ~(q[j].end > Cut)
    <3>1. i \in 1 .. n
      OBVIOUS
    <3>2. ASSUME NEW j \in 1 .. i - 1 PROVE j \in 1 .. n /\ ~(q[j].end > Cut)
      <4>1. j \in 1 .. n /\ ~(i <= j)
        BY <1>1, <3>1
      <4>2. j \notin T
        BY <2>2, <4>1
      <4> QED BY <4>1, <4>2
    <3> QED BY <1>1, <3>1, <3>2
  <2>4. Cut < q[i].end /\ q[i].start \in Nat /\ q[i].end \in Nat
    BY <1>2, <2>3
  <2> HIDE DEF T
  <2>5. g[i - 1] = 0
    BY <1>4, <2>3
  <2>6. g[n] - g[i - 1] <= h[n] - h[i - 1]
    <3>1. \A j \in (i - 1) + 1 .. n : g[j] - g[j - 1] <= h[j] - h[j - 1]
      <4>1. ASSUME NEW j \in (i - 1) + 1 .. n PROVE g[j] - g[j - 1] <= h[j] - h[j - 1]
        <5>1. j \in 1 .. n
          BY <1>1, <2>3
        <5> QED BY <1>2, <5>1
      <4> QED BY <4>1
    <3>2. \A j \in 0 .. n : g[j] \in Int /\ h[j] \in Int
      BY <1>2
    <3> QED BY <1>1, <2>3, <3>1, <3>2, RunsCompare
  <2>7. /\ Bucket * (Cut \div Bucket) <= q[i].start
        /\ Cut + 1 <= q[i].start + Bucket
    <3>1. q[i].end <= (q[i].start \div Bucket + 1) * Bucket
      BY <2>3 DEF Minutely, n
    <3> QED BY <2>4, <3>1, BeginsInMinute
  <2>8. q[i].start >= gap /\ (a = 0 \/ a + Lag + Fresh <= q[i].start)
    <3>1. Bucket \in Nat \ {0} /\ Lag \in Nat /\ Fresh \in Nat
      BY MeteringAssumption
    <3>2. Bucket * (Cut \div Bucket) \in Nat
      <4>1. Cut \div Bucket \in Nat
        BY <3>1, DivNat
      <4> QED BY <3>1, <4>1
    <3>3. q[i].start >= gap
      BY <2>4, <2>7, <3>2
    <3>4. a = Cut - Before => a + Lag + Fresh <= q[i].start
      BY <2>4, <2>7, <3>1 DEF Before
    <3> QED BY <3>3, <3>4
  <2>9. h[n] - h[i - 1] <= s[metric + 1] - s[a + 1]
    BY <2>3, <2>8 DEF Bounded, n
  <2>10. n \in 0 .. n
    BY <1>1
  <2>11. g[n] \in Int /\ h[n] \in Int /\ h[i - 1] \in Int
    BY <1>2, <2>3, <2>10
  <2>12. g[n] <= s[metric + 1] - s[a + 1]
    BY <1>3, <2>5, <2>6, <2>9, <2>11
  <2> QED BY <2>12 DEF n
<1> QED BY <1>5, <1>6

(* What was moved since the window's first minute counts in the figure.    *)
LEMMA FigureBelow ==
  ASSUME now \in Nat, NEW q \in Seq(Buckets), Follow(q, now), Minutely(q),
         NEW gap \in Nat, NEW last \in 0 .. now, NEW metric \in 0 .. last,
         Joined(q, gap, last, now), NEW s, Rising(s, now),
         NEW h, Runs(BytesOf(q), Len(q), h), Bounded(q, gap, metric, s, h),
         NEW g, Runs(WindowOf(q), Len(q), g),
         Cut \in Nat, gap <= Cut
  PROVE  /\ g[Len(q)] \in Int /\ g[Len(q)] >= 0
         /\ Cut + After < metric =>
              g[Len(q)] >= s[metric + 1] - s[(Cut + After) + 1]
<1> DEFINE n == Len(q)
           a == Cut + After
           T == {i \in 0 .. n : i = 0 \/ q[i].start < Cut}
           k == Max(T)
<1>1. n \in Nat
  OBVIOUS
<1>2. /\ g[0] = 0 /\ \A i \in 0 .. n : g[i] \in Int /\ h[i] \in Int
      /\ \A i \in 1 .. n :
           /\ q[i].start \in Nat /\ q[i].end \in Nat
           /\ 0 <= g[i] - g[i - 1]
           /\ q[i].start >= Cut => g[i] - g[i - 1] = h[i] - h[i - 1]
  BY FigureSteps
<1>3. Bucket \in Nat \ {0} /\ Lag \in Nat \ {0} /\ Window \in Nat \ {0} /\ Cut = now - Window
  BY MeteringAssumption DEF Cut
<1>4. a \in Nat /\ a = Cut + Bucket + Lag - 2
  BY <1>3 DEF After
<1> HIDE DEF n, a
<1>5. ASSUME NEW m \in 0 .. n PROVE g[m] >= 0
  <2> DEFINE z == [i \in Nat |-> 0]
  <2>1. \A i \in 0 .. m : i \in 0 .. n /\ i \in Nat
    BY <1>1
  <2>2. \A i \in 0 .. m : g[i] \in Int /\ z[i] \in Int /\ z[i] = 0
    BY <1>2, <2>1
  <2>3. ASSUME NEW i \in 0 + 1 .. m PROVE z[i] - z[i - 1] <= g[i] - g[i - 1]
    <3>1. i \in 1 .. n /\ i \in 0 .. m /\ i - 1 \in 0 .. m
      BY <1>1
    <3> QED BY <1>2, <2>2, <3>1
  <2>4. m \in Nat /\ 0 \in 0 .. m /\ m \in 0 .. m
    BY <1>1
  <2> HIDE DEF z
  <2>5. z[m] - z[0] <= g[m] - g[0]
    BY <2>2, <2>3, <2>4, RunsCompare
  <2> QED BY <1>2, <2>2, <2>4, <2>5
<1>6. n \in 0 .. n /\ g[n] \in Int /\ g[n] >= 0
  <2>1. n \in 0 .. n
    BY <1>1
  <2> QED BY <1>2, <1>5, <2>1
<1>7. k \in T /\ \A j \in T : j <= k
  <2>1. T \subseteq 0 .. n /\ T # {}
    BY <1>1
  <2> HIDE DEF T
  <2> QED BY <1>1, <2>1, LargestUpTo
<1> HIDE DEF k
<1>8. /\ k \in 0 .. n /\ k \in Nat /\ k <= n
      /\ k # 0 => k \in 1 .. n /\ q[k].start \in Nat /\ q[k].start < Cut
  <2>1. k \in 0 .. n /\ (k = 0 \/ q[k].start < Cut)
    BY <1>7
  <2>2. k \in Nat /\ k <= n /\ (k # 0 => k \in 1 .. n)
    BY <1>1, <2>1
  <2> QED BY <1>2, <2>1, <2>2
<1>9. \A j \in 1 .. n : j > k => q[j].start >= Cut
  <2> SUFFICES ASSUME NEW j \in 1 .. n, j > k, ~(q[j].start >= Cut) PROVE FALSE
    OBVIOUS
  <2>1. q[j].start < Cut /\ j \in 0 .. n
    BY <1>1, <1>2
  <2>2. j \in T
    BY <2>1
  <2> QED BY <1>7, <1>8, <2>2
<1> HIDE DEF T
(* The last bucket that begins before the window ends in its first minute. *)
<1>10. k # 0 => q[k].end \in Nat /\ q[k].end <= Cut - 1 + Bucket
  <2> SUFFICES ASSUME k # 0 PROVE q[k].end \in Nat /\ q[k].end <= Cut - 1 + Bucket
    OBVIOUS
  <2>1. q[k].end <= (q[k].start \div Bucket + 1) * Bucket
    BY <1>8 DEF Minutely, n
  <2>2. q[k].end \in Nat
    BY <1>2, <1>8
  <2> DEFINE x == q[k].start
             d == x \div Bucket
  <2>a. x \in Nat /\ x < Cut
    BY <1>8
  <2> HIDE DEF x
  <2>3. d \in Nat /\ Bucket * d <= x
    BY <1>3, <2>a, DivBounds, DivNat
  <2>4. q[k].end <= (d + 1) * Bucket
    BY <2>1 DEF x
  <2> HIDE DEF d
  <2>5. (d + 1) * Bucket = Bucket * d + Bucket /\ Bucket * d \in Nat
    BY <1>3, <2>3
  <2> QED BY <1>3, <2>2, <2>a, <2>3, <2>4, <2>5
<1>11. ASSUME a < metric PROVE g[n] >= s[metric + 1] - s[a + 1]
  <2>1. a \in 0 .. metric /\ metric \in 0 .. now /\ metric <= last /\ last \in Nat
    BY <1>4, <1>11
  <2>2. /\ \A i \in 1 .. n : \/ q[i].start <= gap
                             \/ i > 1 /\ q[i].start = q[i - 1].end
                             \/ i = 1 /\ q[i].start <= now - Window - Bucket
        /\ \/ last <= gap
           \/ q # <<>> /\ q[n].end = last
           \/ q = <<>> /\ last <= now - Window - Bucket
    BY DEF Joined, n
  <2>3. CASE k = n
    <3>1. last <= gap => FALSE
      BY <1>3, <1>4, <1>11, <2>1
    <3>2. last <= now - Window - Bucket => FALSE
      BY <1>3, <1>4, <1>11, <2>1
    <3>3. q # <<>> /\ q[n].end = last => FALSE
      <4> SUFFICES ASSUME q # <<>>, q[n].end = last PROVE FALSE
        OBVIOUS
      <4>1. n # 0
        BY DEF n
      <4>2. last <= Cut - 1 + Bucket
        BY <1>10, <2>3, <4>1
      <4> QED BY <1>3, <1>4, <1>11, <2>1, <4>2
    <3> QED BY <2>2, <3>1, <3>2, <3>3
  <2>4. CASE k # n
    <3> DEFINE i == k + 1
    <3>1. i \in 1 .. n /\ i - 1 = k /\ i \in Nat
      BY <1>1, <1>8, <2>4
    <3> HIDE DEF i
    <3>2. i > k /\ q[i].start >= Cut /\ q[i].start \in Nat
      <4>1. i > k
        BY <1>8, <3>1
      <4> QED BY <1>2, <1>9, <3>1, <4>1
    <3>3. q[i].start <= Cut - 1 + Bucket
      <4>1. CASE q[i].start <= gap
        BY <1>3, <3>2, <4>1
      <4>2. CASE i > 1 /\ q[i].start = q[i - 1].end
        <5>1. k # 0 /\ q[i].start = q[k].end
          BY <3>1, <4>2
        <5> QED BY <1>10, <5>1
      <4>3. CASE i = 1 /\ q[i].start <= now - Window - Bucket
        BY <1>3, <3>2, <4>3
      <4> QED BY <2>2, <3>1, <4>1, <4>2, <4>3
    <3>4. q[i].start >= gap /\ a + 1 >= q[i].start + Lag
      BY <1>3, <1>4, <3>2, <3>3
    <3>5. h[n] - h[i - 1] >= s[metric + 1] - s[a + 1]
      BY <2>1, <3>1, <3>4 DEF Bounded, n
    <3>6. h[n] - h[k] <= g[n] - g[k]
      <4>1. ASSUME NEW j \in k + 1 .. n PROVE h[j] - h[j - 1] <= g[j] - g[j - 1]
        <5>1. j \in 1 .. n /\ j > k /\ j \in 0 .. n /\ j - 1 \in 0 .. n
          BY <1>1, <1>8
        <5>2. g[j] - g[j - 1] = h[j] - h[j - 1]
          BY <1>2, <1>9, <5>1
        <5>3. h[j] - h[j - 1] \in Int
          BY <1>2, <5>1
        <5> QED BY <5>2, <5>3
      <4>2. \A j \in 0 .. n : h[j] \in Int /\ g[j] \in Int
        BY <1>2
      <4> QED BY <1>1, <1>8, <4>1, <4>2, RunsCompare
    <3>7. g[k] >= 0 /\ g[k] \in Int /\ h[k] \in Int /\ h[n] \in Int
      BY <1>2, <1>5, <1>6, <1>8
    <3>8. s[metric + 1] \in Nat /\ s[a + 1] \in Nat
      <4>1. a \in 0 .. now
        BY <1>4, <1>11, <2>1
      <4> QED BY <2>1, <4>1 DEF Rising
    <3>9. h[n] - h[k] >= s[metric + 1] - s[a + 1]
      BY <3>1, <3>5
    <3> QED BY <1>6, <3>6, <3>7, <3>8, <3>9
  <2> QED BY <2>3, <2>4
<1> QED BY <1>6, <1>11 DEF n, a

(* The bytes moved at any moment, the time before the first one included.  *)
LEMMA MovedAt ==
  ASSUME MeterTyped, NEW t \in Int
  PROVE  Moved(t) = moved[(IF t < 0 THEN 0 ELSE IF t > now THEN now ELSE t) + 1]
<1>1. now \in Nat
  BY MovedValues
<1>2. Max({t, 0}) = IF t >= 0 THEN t ELSE 0
  BY MaxOfTwo
<1>3. Max({t, 0}) \in Int /\ Max({t, 0}) = IF t < 0 THEN 0 ELSE t
  BY <1>2
<1>4. Min({Max({t, 0}), now}) = IF Max({t, 0}) <= now THEN Max({t, 0}) ELSE now
  BY <1>1, <1>3, MinOfTwo
<1>5. Min({Max({t, 0}), now}) = IF t < 0 THEN 0 ELSE IF t > now THEN now ELSE t
  BY <1>1, <1>3, <1>4
<1> QED BY <1>5 DEF Moved

LEMMA FiguresTrue ==
  ASSUME MeterTyped, MeterSound, FiguresSound, host # Nothing, Complete(host)
  PROVE  /\ host.gap <= Bucket * (Cut \div Bucket) =>
              Figure(host) <= Scale * (Moved(host.metric) - Moved(Cut - Before))
         /\ Figure(host) >= Scale * (Moved(host.metric) - Moved(Cut + After))
<1> DEFINE q == host.buckets
           n == Len(q)
           s == Scaled(moved)
           gap == host.gap
           last == host.last
           metric == host.metric
<1>1. /\ now \in Nat /\ Scale \in Nat
      /\ \A t \in 0 .. now : moved[t + 1] \in Nat
      /\ \A x \in 0 .. now : \A y \in 0 .. now : x <= y => moved[x + 1] <= moved[y + 1]
  BY MovedValues
<1>2. /\ q \in Seq(Buckets) /\ n \in Nat /\ gap \in Nat /\ last \in Nat /\ metric \in Nat
      /\ host.first \in Nat /\ host.first <= gap /\ gap <= last /\ last <= now
      /\ Follow(q, last)
  BY DEF MeterTyped, HistoryFits, Histories
<1>3. Follow(q, now)
  BY <1>1, <1>2, FollowLater
<1>4. /\ metric <= last /\ last <= metric + Fresh + 1
      /\ Minutely(q) /\ Joined(q, gap, last, now) /\ Told(q, gap, metric, s)
  BY DEF FiguresSound, Tells
<1>5. Rising(s, now) /\ \A x \in 0 .. now : \A y \in 0 .. now :
        x <= y => s[y + 1] - s[x + 1] = Scale * (moved[y + 1] - moved[x + 1])
  <2>1. now \in 0 .. now
    BY <1>1
  <2> QED BY <2>1, ScaledMoved
<1>6. /\ Bucket \in Nat \ {0} /\ Lag \in Nat \ {0} /\ Window \in Nat \ {0}
      /\ Fresh \in Nat \ {0} /\ Fresh <= Lag /\ Cut = now - Window
      /\ Before = Bucket + Lag + Fresh - 1 /\ After = Bucket + Lag - 2
  BY MeteringAssumption DEF Cut, Before, After
<1>7. Cut \in Nat /\ gap <= Cut /\ now - last <= Fresh
  <2>1. host.first <= Cut /\ gap <= Cut /\ now - last <= Fresh
    BY DEF Complete
  <2> QED BY <1>1, <1>2, <1>6, <2>1
<1>8. PICK h : Runs(BytesOf(q), n, h) /\ Bounded(q, gap, metric, s, h)
  BY <1>4 DEF Told
<1>9. PICK g : Runs(WindowOf(q), n, g) /\ Figure(host) = g[n]
  BY <1>1, <1>2, <1>3, FigureHasRun
<1>10. metric \in 0 .. now /\ last \in 0 .. now /\ metric \in 0 .. last
  BY <1>1, <1>2, <1>4
<1> HIDE DEF q, n, s, gap, last, metric
<1>11. Moved(metric) = moved[metric + 1] /\ moved[metric + 1] \in Nat
  BY <1>1, <1>10, MovedValues
<1>12. ASSUME gap <= Bucket * (Cut \div Bucket)
       PROVE  Figure(host) <= Scale * (Moved(metric) - Moved(Cut - Before))
  <2> DEFINE b == Cut - Before
             a == IF b < 0 THEN 0 ELSE b
  <2>1. b \in Int /\ b <= now /\ a \in Nat /\ a <= metric /\ (a = 0 \/ a = Cut - Before)
    <3>1. b \in Int /\ b <= now /\ b <= metric
      BY <1>1, <1>4, <1>6, <1>7, <1>10
    <3>2. metric \in Nat
      BY <1>10
    <3>3. a \in Nat /\ a <= metric /\ (a = 0 \/ a = b)
      <4> HIDE DEF b
      <4> QED BY <3>1, <3>2
    <3> QED BY <3>1, <3>3
  <2>2. Moved(b) = moved[a + 1]
    <3>1. Moved(b) = moved[(IF b < 0 THEN 0 ELSE IF b > now THEN now ELSE b) + 1]
      BY <2>1, MovedAt
    <3>2. ~(b > now)
      BY <1>1, <2>1
    <3> QED BY <3>1, <3>2
  <2> HIDE DEF a, b
  <2>3. a \in 0 .. metric /\ a \in 0 .. now
    BY <1>1, <1>10, <2>1
  <2>4. g[n] <= s[metric + 1] - s[a + 1]
    BY <1>1, <1>2, <1>3, <1>4, <1>5, <1>7, <1>8, <1>9, <1>10, <1>12, <2>1, <2>3, FigureAbove
       DEF n
  <2>5. s[metric + 1] - s[a + 1] = Scale * (moved[metric + 1] - moved[a + 1])
    BY <1>5, <1>10, <2>1, <2>3
  <2> QED BY <1>9, <1>11, <2>2, <2>4, <2>5 DEF b
<1>13. g[n] \in Int /\ g[n] >= 0 /\
       (Cut + After < metric => g[n] >= s[metric + 1] - s[(Cut + After) + 1])
  BY <1>1, <1>2, <1>3, <1>4, <1>5, <1>7, <1>8, <1>9, <1>10, FigureBelow DEF n
<1>14. Figure(host) >= Scale * (Moved(metric) - Moved(Cut + After))
  <2> DEFINE b == Cut + After
  <2>1. b \in Nat
    BY <1>6, <1>7
  <2>2. Moved(b) = moved[(IF b < 0 THEN 0 ELSE IF b > now THEN now ELSE b) + 1]
    BY <2>1, MovedAt
  <2>3. CASE b < metric
    <3>1. b \in 0 .. now /\ b <= metric /\ ~(b < 0) /\ ~(b > now)
      BY <1>1, <1>10, <2>1, <2>3
    <3>2. Moved(b) = moved[b + 1]
      BY <2>2, <3>1
    <3>3. g[n] >= s[metric + 1] - s[b + 1]
      BY <1>13, <2>3
    <3> HIDE DEF b
    <3>4. s[metric + 1] - s[b + 1] = Scale * (moved[metric + 1] - moved[b + 1])
      BY <1>5, <1>10, <3>1
    <3> QED BY <1>9, <1>11, <3>2, <3>3, <3>4 DEF b
  <2>4. CASE ~(b < metric)
    <3> DEFINE c == IF b > now THEN now ELSE b
    <3>1. c \in 0 .. now /\ metric <= c
      BY <1>1, <1>10, <2>1, <2>4
    <3>2. Moved(b) = moved[c + 1]
      BY <2>1, <2>2
    <3> HIDE DEF c, b
    <3>3. moved[metric + 1] <= moved[c + 1] /\ moved[c + 1] \in Nat
      BY <1>1, <1>10, <3>1
    <3> DEFINE d == moved[c + 1] - moved[metric + 1]
    <3>4. d \in Nat /\ Moved(metric) - Moved(b) = 0 - d
      BY <1>11, <3>2, <3>3
    <3> HIDE DEF d
    <3>5. Scale * (0 - d) = 0 - Scale * d /\ Scale * d \in Nat
      BY <1>1, <3>4
    <3>6. Scale * (Moved(metric) - Moved(b)) <= 0
      BY <3>4, <3>5
    <3>7. Scale * (Moved(metric) - Moved(b)) \in Int
      BY <3>4, <3>5
    <3> QED BY <1>9, <1>13, <3>6, <3>7 DEF b
  <2> QED BY <2>3, <2>4
<1> QED BY <1>12, <1>14 DEF gap, metric

(* The figure of the last 24 hours shown without the mark of an incomplete *)
(* one is true: nothing the node moved since a moment little after its     *)
(* beginning is missing, and nothing moved before one little ahead of it   *)
(* is counted, whatever is lost, late, restarted or forgotten at a stop.   *)
THEOREM CompleteFiguresAreTrue == MeterSpec => []CompleteIsTrue
<1>1. MeterTyped /\ MeterSound /\ FiguresSound => CompleteIsTrue
  BY FiguresTrue DEF CompleteIsTrue
<1>2. MeterSpec => [](MeterTyped /\ MeterSound /\ FiguresSound)
  BY MeterTypedInit, MeterTypedStep, MeterSoundInit, MeterSoundStep,
     FiguresInit, FiguresStep, PTL DEF MeterSpec
<1> QED BY <1>1, <1>2, PTL
=============================================================================
