--------------------------- MODULE RateLimitProofs ---------------------------
(***************************************************************************)
(* Proofs about RateLimiter and AttemptGuards for any identities, rules,     *)
(* instances and attempts.                                                   *)
(***************************************************************************)
EXTENDS AttemptGuards, FiniteSetTheorems, TLAPS

\* A product of naturals is one, and it grows with its factors (the refill of
\* the script multiplies the elapsed time by the immediate limit).
LEMMA Products ==
    /\ \A a, b \in Nat : a * b \in Nat /\ b * a = a * b
    /\ \A a, b, c \in Int : (a + b) * c = a * c + b * c /\ (a - b) * c = a * c - b * c
    /\ \A a, b, c \in Nat : a <= b => a * c <= b * c
    /\ \A a \in Int : 1 * a = a /\ 0 * a = 0
<1>1. \A a, b \in Nat : a * b \in Nat /\ b * a = a * b
  OBVIOUS
<1>2. \A a, b, c \in Int : (a + b) * c = a * c + b * c /\ (a - b) * c = a * c - b * c
  OBVIOUS
<1>3. ASSUME NEW a \in Nat, NEW b \in Nat, NEW c \in Nat, a <= b
      PROVE  a * c <= b * c
  <2>1. PICK d \in Nat : b = a + d
    <3>1. b - a \in Nat /\ b = a + (b - a)
      BY <1>3
    <3>2. QED
      BY <3>1
  <2>2. b * c = a * c + d * c
    BY <1>2, <2>1
  <2>3. QED
    BY <1>1, <2>2
<1>4. QED
  BY <1>1, <1>2, <1>3

\* The values of a rule are positive, and so is what is derived from them
\* (validateRule, redis.go:172-178).
LEMMA RuleValues ==
    ASSUME NEW k \in Identities
    PROVE  /\ Immediate[k] \in Nat \ {0} /\ RestoreOver[k] \in Nat \ {0}
           /\ Maximum[k] \in Nat \ {0} /\ Window[k] \in Nat \ {0}
           /\ Full(k) \in Nat /\ One(k) \in Nat \ {0} /\ One(k) <= Full(k)
           /\ Unit(k) \in Nat \ {0} /\ Unit(k) <= Full(k)
           /\ Full(k) = Immediate[k] * One(k) /\ Full(k) = RestoreOver[k] * Unit(k)
           /\ Error \in Nat /\ 5 * Error <= Unit(k)
           /\ Lifespan(k) \in Nat /\ RestoreOver[k] <= Lifespan(k) /\ Window[k] <= Lifespan(k)
<1> DEFINE m == Immediate[k]
           r == RestoreOver[k]
<1>1. m \in Nat \ {0} /\ r \in Nat \ {0} /\ Maximum[k] \in Nat \ {0} /\ Window[k] \in Nat \ {0}
  BY RuleAssumption DEF Rules
<1>2. Grain \in Nat \ {0} /\ Error \in Nat /\ 5 * Error <= Grain
  BY ArithmeticAssumption
<1>3. One(k) = r * Grain /\ Unit(k) = m * Grain /\ Full(k) = m * (r * Grain)
  BY DEF One, Unit, Full
<1>4. Lifespan(k) \in Nat /\ RestoreOver[k] <= Lifespan(k) /\ Window[k] <= Lifespan(k)
  BY <1>1 DEF Lifespan, Greater
<1> HIDE DEF m, r
<1>5. ASSUME NEW x \in Nat \ {0}, NEW y \in Nat \ {0}
      PROVE  x * y \in Nat \ {0} /\ y <= x * y
  <2>1. x * y \in Nat /\ 1 * y <= x * y /\ 1 * y = y
    BY Products
  <2>2. QED
    BY <2>1
<1>6. r * Grain \in Nat \ {0} /\ m * Grain \in Nat \ {0} /\ Grain <= m * Grain
  BY <1>1, <1>2, <1>5
<1>7. m * (r * Grain) = r * (m * Grain)
  BY <1>1, <1>2
<1>8. /\ m * (r * Grain) \in Nat /\ r * Grain <= m * (r * Grain)
      /\ m * Grain <= r * (m * Grain)
  BY <1>1, <1>5, <1>6
<1>9. 5 * Error <= m * Grain
  BY <1>2, <1>6
<1>10. QED
  BY <1>1, <1>2, <1>3, <1>4, <1>6, <1>7, <1>8, <1>9 DEF m, r

-----------------------------------------------------------------------------
\* Types

\* The keys that exist for each identity: EXCEPT changes what is there.
LimiterShape ==
    /\ tokens \in [Identities -> Nat]
    /\ updated_at \in [Identities -> Int]
    /\ window = [k \in Identities |-> window[k]]
    /\ expires \in [Identities -> Nat]
    /\ grants \in [Identities -> Seq(0..MaxTime)]
    /\ answer \in [Identities -> {"none", "allowed", "limited"}]

LimiterTypes == LimiterShape /\ LimiterTypeOK

\* What the types say of single values.
LEMMA SingleValues ==
    ASSUME LimiterTypes, NEW k \in Identities
    PROVE  /\ now \in 0..MaxTime /\ MaxTime \in Nat
           /\ updated_at[k] \in Int /\ expires[k] \in Nat
           /\ window[k] \in [DOMAIN window[k] -> Int]
           /\ \A n \in DOMAIN grants[k] : grants[k][n] \in 0..MaxTime
           /\ Window[k] \in Nat /\ Lifespan(k) \in Nat /\ Window[k] <= Lifespan(k)
<1>1. /\ MaxTime \in Nat /\ grants[k] \in Seq(0..MaxTime)
      /\ updated_at[k] \in Int /\ expires[k] \in Nat
  BY OffsetsAssumption DEF LimiterTypes, LimiterShape
<1>2. now \in 0..MaxTime /\ window[k] \in [DOMAIN window[k] -> Int]
  BY DEF LimiterTypes, LimiterTypeOK
<1>3. \A n \in DOMAIN grants[k] : grants[k][n] \in 0..MaxTime
  BY <1>1
<1>4. Window[k] \in Nat /\ Lifespan(k) \in Nat /\ Window[k] <= Lifespan(k)
  BY RuleValues
<1>5. QED
  BY <1>1, <1>2, <1>3, <1>4

\* The elapsed time is never negative, and what it restores exceeds the
\* errors made in restoring it.
LEMMA ElapsedTime ==
    ASSUME LimiterTypes, NEW k \in Identities, NEW t \in Int
    PROVE  /\ Elapsed(k, t) \in Nat /\ Elapsed(k, t) * Unit(k) \in Nat
           /\ Elapsed(k, t) = 0 => Elapsed(k, t) * Unit(k) = 0
           /\ Elapsed(k, t) > 0 => 5 * Error <= Elapsed(k, t) * Unit(k)
           /\ Elapsed(k, t) <= RestoreOver[k] => Elapsed(k, t) * Unit(k) <= Full(k)
           /\ Elapsed(k, t) >= RestoreOver[k] => Full(k) <= Elapsed(k, t) * Unit(k)
<1> DEFINE e == Elapsed(k, t)
           u == Unit(k)
           r == RestoreOver[k]
<1>1. e \in Nat
  BY DEF LimiterTypes, LimiterTypeOK, Elapsed, Greater
<1>2. u \in Nat \ {0} /\ r \in Nat \ {0} /\ Full(k) = r * u /\ Error \in Nat /\ 5 * Error <= u
  BY RuleValues
<1> HIDE DEF e, u, r
<1>3. e * u \in Nat /\ 0 * u = 0 /\ 1 * u = u
  BY <1>1, <1>2, Products
<1>4. e > 0 => 1 * u <= e * u
  BY <1>1, <1>2, Products
<1>5. (e <= r => e * u <= r * u) /\ (e >= r => r * u <= e * u)
  BY <1>1, <1>2, Products
<1>6. e > 0 => 5 * Error <= e * u
  BY <1>2, <1>3, <1>4
<1>7. QED
  BY <1>1, <1>2, <1>3, <1>5, <1>6 DEF e, u, r

\* The refill of lines 29-38 stays within the capacity of the bucket.  It takes
\* nothing away, is exact when no time elapsed, and is otherwise within two
\* errors of what the time restores, full only when that is about enough.
LEMMA RefillBounds ==
    ASSUME LimiterTypes, NEW k \in Identities, NEW at \in Int, NEW t \in Int
    PROVE  /\ Refilled(k, at, t) \in 0..Full(k) /\ Unrounded(k, at, t) \in 0..Full(k)
           /\ Refilled(k, at, t) <= Unrounded(k, at, t) + 2 * Error
           /\ Unrounded(k, at, t) <= Refilled(k, at, t) + 2 * Error
           /\ tokens[k] <= Refilled(k, at, t)
           /\ Exists(k, at) /\ Elapsed(k, t) = 0 => Refilled(k, at, t) = tokens[k]
           /\ Refilled(k, at, t) < Full(k) =>
                 Exists(k, at) /\ tokens[k] + Elapsed(k, t) * Unit(k) <= Refilled(k, at, t) + 2 * Error
<1> DEFINE b == tokens[k]
           x == Elapsed(k, t) * Unit(k)
           F == Full(k)
<1>1. b \in 0..F /\ F \in Nat /\ Error \in Nat /\ RestoreOver[k] \in Nat
  BY RuleValues DEF LimiterTypes, LimiterTypeOK
<1>2. /\ Elapsed(k, t) \in Nat /\ x \in Nat /\ (Elapsed(k, t) = 0 => x = 0)
      /\ Elapsed(k, t) > 0 => 5 * Error <= x
      /\ Elapsed(k, t) <= RestoreOver[k] => x <= F
      /\ Elapsed(k, t) >= RestoreOver[k] => F <= x
  BY ElapsedTime
<1>3. Unrounded(k, at, t) = IF ~Exists(k, at) THEN F ELSE Lesser(F, b + x)
  BY DEF Unrounded
<1>4. CASE ~Exists(k, at) \/ Elapsed(k, t) >= RestoreOver[k]
  <2>1. Refilled(k, at, t) = F
    BY <1>4 DEF Refilled
  <2>2. Unrounded(k, at, t) = F
    <3> HIDE DEF x, b, F
    <3>1. QED
      BY <1>1, <1>2, <1>3, <1>4 DEF Lesser
  <2>3. Exists(k, at) /\ Elapsed(k, t) = 0 => b = F
    BY <1>1, <1>2, <1>4
  <2>4. F \in 0..F /\ ~(F < F) /\ F <= F + 2 * Error /\ b <= F
    BY <1>1
  <2>5. QED
    BY <2>1, <2>2, <2>3, <2>4
<1>5. CASE Exists(k, at) /\ ~(Elapsed(k, t) >= RestoreOver[k]) /\ Elapsed(k, t) = 0
  <2>1. Refilled(k, at, t) = b
    BY <1>5 DEF Refilled
  <2>2. Unrounded(k, at, t) = b
    <3> HIDE DEF x, b, F
    <3>1. QED
      BY <1>1, <1>2, <1>3, <1>5 DEF Lesser
  <2>3. b + x <= b + 2 * Error
    BY <1>1, <1>2, <1>5
  <2>4. b \in 0..F /\ b <= b + 2 * Error
    BY <1>1
  <2>5. QED
    BY <1>5, <2>1, <2>2, <2>3, <2>4
<1>6. CASE Exists(k, at) /\ ~(Elapsed(k, t) >= RestoreOver[k]) /\ Elapsed(k, t) # 0
  <2> DEFINE q == Rounded[k][x]
             s == Rounded[k][b + q]
  <2>1. Refilled(k, at, t) = Lesser(F, s)
    BY <1>6 DEF Refilled
  <2>2. x \in 0..F /\ 5 * Error <= x
    <3> HIDE DEF x, F
    <3>1. QED
      BY <1>1, <1>2, <1>6
  <2>3. \A z \in 0..2 * F + Error :
           Rounded[k][z] \in Nat /\ Rounded[k][z] \in (z - Error)..(z + Error)
    BY ArithmeticAssumption
  <2> HIDE DEF x, b, F
  <2>4. q \in Nat /\ q <= x + Error /\ x - Error <= q
    <3>1. x \in 0..2 * F + Error
      BY <1>1, <2>2
    <3>2. QED
      BY <1>1, <2>2, <2>3, <3>1
  <2>5. s \in Nat /\ s <= b + q + Error /\ b + q - Error <= s
    <3> HIDE DEF q
    <3>1. b + q \in 0..2 * F + Error
      BY <1>1, <2>2, <2>4
    <3>2. QED
      BY <1>1, <2>3, <2>4, <3>1
  <2> HIDE DEF q, s
  <2>6. Refilled(k, at, t) \in 0..F /\ Unrounded(k, at, t) \in 0..F
    BY <1>1, <1>3, <1>6, <2>1, <2>2, <2>5 DEF Lesser
  <2>7. Lesser(F, s) <= Lesser(F, b + x) + 2 * Error
    BY <1>1, <2>2, <2>4, <2>5 DEF Lesser
  <2>8. Lesser(F, b + x) <= Lesser(F, s) + 2 * Error
    BY <1>1, <2>2, <2>4, <2>5 DEF Lesser
  <2>9. b <= Lesser(F, s)
    BY <1>1, <2>2, <2>4, <2>5 DEF Lesser
  <2>10. Lesser(F, s) < F => b + x <= Lesser(F, s) + 2 * Error
    BY <1>1, <2>2, <2>4, <2>5 DEF Lesser
  <2>11. QED
    BY <1>3, <1>6, <2>1, <2>6, <2>7, <2>8, <2>9, <2>10 DEF b, F, x
<1>7. QED
  BY <1>4, <1>5, <1>6

\* Pruning (line 40) takes members away and leaves the scores of the others.
LEMMA PrunedMembers ==
    ASSUME LimiterTypes, NEW k \in Identities, NEW at \in Int, NEW t \in Int
    PROVE  /\ DOMAIN Pruned(k, at, t) =
                {n \in DOMAIN window[k] : Exists(k, at) /\ window[k][n] > t - Window[k]}
           /\ Pruned(k, at, t) = [n \in DOMAIN Pruned(k, at, t) |-> window[k][n]]
           /\ DOMAIN Pruned(k, at, t) \subseteq DOMAIN window[k]
           /\ DOMAIN window[k] \subseteq DOMAIN grants[k]
           /\ \A n \in DOMAIN window[k] : window[k][n] \in Int
           /\ IsFiniteSet(DOMAIN Pruned(k, at, t))
           /\ Count(k, at, t) \in Nat /\ Count(k, at, t) <= Maximum[k]
<1>1. /\ IsFiniteSet(DOMAIN window[k]) /\ Cardinality(DOMAIN window[k]) <= Maximum[k]
      /\ window[k] \in [DOMAIN window[k] -> Int] /\ DOMAIN window[k] \subseteq DOMAIN grants[k]
  BY DEF LimiterTypes, LimiterTypeOK
<1>2. /\ DOMAIN Pruned(k, at, t) =
           {n \in DOMAIN window[k] : Exists(k, at) /\ window[k][n] > t - Window[k]}
      /\ Pruned(k, at, t) = [n \in DOMAIN Pruned(k, at, t) |-> window[k][n]]
  BY DEF Pruned, Restrict
<1>3. DOMAIN Pruned(k, at, t) \subseteq DOMAIN window[k]
  BY <1>2
<1>4. /\ IsFiniteSet(DOMAIN Pruned(k, at, t))
      /\ Cardinality(DOMAIN Pruned(k, at, t)) <= Cardinality(DOMAIN window[k])
  BY <1>1, <1>3, FS_Subset
<1>5. Cardinality(DOMAIN Pruned(k, at, t)) \in Nat /\ Cardinality(DOMAIN window[k]) \in Nat
  BY <1>1, <1>4, FS_CardinalityType
<1>6. Maximum[k] \in Nat
  BY RuleValues
<1>7. QED
  BY <1>1, <1>2, <1>3, <1>4, <1>5, <1>6 DEF Count

\* The three ways a run of the script ends for the key it was given: it allows
\* a request for the first time, or one it allowed before, or none.
LEMMA ExecuteEffect ==
    ASSUME LimiterTypes, NEW k \in Identities, NEW t \in Int,
           NEW n \in DOMAIN grants[k] \cup {NewMember(k)}, Execute(k, t, n)
    PROVE  /\ updated_at'[k] = t /\ expires'[k] = now + Lifespan(k) /\ now' = now
           /\ \/ /\ Allowed(k, now, t) /\ n = NewMember(k)
                 /\ tokens'[k] = Refilled(k, now, t) - One(k)
                 /\ window'[k] = WithMember(Pruned(k, now, t), n, t)
                 /\ grants'[k] = Append(grants[k], now) /\ answer'[k] = "allowed"
              \/ /\ Allowed(k, now, t) /\ n \in DOMAIN grants[k]
                 /\ tokens'[k] = Refilled(k, now, t) - One(k)
                 /\ window'[k] = WithMember(Pruned(k, now, t), n, t)
                 /\ grants'[k] = grants[k] /\ answer'[k] = "allowed"
              \/ /\ ~Allowed(k, now, t)
                 /\ tokens'[k] = Refilled(k, now, t)
                 /\ window'[k] = Pruned(k, now, t)
                 /\ grants'[k] = grants[k] /\ answer'[k] = "limited"
           /\ \A j \in Identities \ {k} :
                 /\ tokens'[j] = tokens[j] /\ updated_at'[j] = updated_at[j]
                 /\ window'[j] = window[j] /\ expires'[j] = expires[j]
                 /\ grants'[j] = grants[j] /\ answer'[j] = answer[j]
<1>1. /\ DOMAIN tokens = Identities /\ DOMAIN updated_at = Identities
      /\ DOMAIN window = Identities /\ DOMAIN expires = Identities
      /\ DOMAIN grants = Identities /\ DOMAIN answer = Identities
  BY DEF LimiterTypes, LimiterShape
<1>2. Write(k, t, Allowed(k, now, t), n)
  BY DEF Execute
<1>3. n # NewMember(k) => n \in DOMAIN grants[k]
  OBVIOUS
<1>4. /\ \A f, v : DOMAIN f = Identities => [f EXCEPT ![k] = v][k] = v
      /\ \A f, v : DOMAIN f = Identities =>
            \A j \in Identities \ {k} : [f EXCEPT ![k] = v][j] = f[j]
  OBVIOUS
<1>5. n \in DOMAIN grants[k] => n # NewMember(k)
  <2>1. grants[k] \in Seq(0..MaxTime)
    BY DEF LimiterTypes, LimiterShape
  <2>2. QED
    BY <2>1 DEF NewMember
<1>6. CASE Allowed(k, now, t) /\ n = NewMember(k)
  BY <1>1, <1>2, <1>4, <1>6 DEF Write
<1>7. CASE Allowed(k, now, t) /\ n # NewMember(k)
  BY <1>1, <1>2, <1>3, <1>4, <1>7 DEF Write
<1>8. CASE ~Allowed(k, now, t)
  BY <1>1, <1>2, <1>4, <1>8 DEF Write
<1>9. QED
  BY <1>6, <1>7, <1>8

\* A run of the script keeps the types: whichever request it is given, the
\* window never holds more than Maximum members nor the bucket more than Full.
LEMMA ExecuteTypes ==
    ASSUME LimiterTypes, NEW k \in Identities, NEW t \in Int,
           NEW n \in DOMAIN grants[k] \cup {NewMember(k)}, Execute(k, t, n)
    PROVE  LimiterTypes'
<1>1. /\ now \in 0..MaxTime /\ MaxTime \in Nat /\ grants[k] \in Seq(0..MaxTime)
      /\ tokens[k] \in 0..Full(k)
  BY OffsetsAssumption DEF LimiterTypes, LimiterTypeOK
<1>2. /\ Refilled(k, now, t) \in 0..Full(k) /\ Full(k) \in Nat /\ One(k) \in Nat
      /\ Lifespan(k) \in Nat /\ Maximum[k] \in Nat
  BY <1>1, RefillBounds, RuleValues
<1>3. tokens'[k] \in 0..Full(k)
  <2>1. CASE Allowed(k, now, t)
    <3>1. tokens'[k] = Refilled(k, now, t) - One(k)
      BY <2>1, ExecuteEffect
    <3>2. One(k) <= Refilled(k, now, t)
      BY <1>2, <2>1 DEF Allowed
    <3>3. QED
      BY <1>2, <3>1, <3>2
  <2>2. CASE ~Allowed(k, now, t)
    BY <1>2, <2>2, ExecuteEffect
  <2>3. QED
    BY <2>1, <2>2
<1>4. /\ grants'[k] \in Seq(0..MaxTime)
      /\ DOMAIN grants[k] \subseteq DOMAIN grants'[k]
      /\ Allowed(k, now, t) => n \in DOMAIN grants'[k]
  <2>1. /\ Append(grants[k], now) \in Seq(0..MaxTime)
        /\ DOMAIN Append(grants[k], now) = 1..Len(grants[k]) + 1
        /\ DOMAIN grants[k] = 1..Len(grants[k]) /\ Len(grants[k]) \in Nat
    BY <1>1
  <2>2. NewMember(k) \in 1..Len(grants[k]) + 1
    BY <2>1 DEF NewMember
  <2>3. DOMAIN grants[k] \subseteq DOMAIN Append(grants[k], now)
    BY <2>1
  <2>4. CASE grants'[k] = Append(grants[k], now)
    BY <2>1, <2>2, <2>3, <2>4
  <2>5. CASE grants'[k] = grants[k]
    BY <1>1, <2>5, ExecuteEffect
  <2>6. QED
    BY <2>4, <2>5, ExecuteEffect
<1>5. /\ IsFiniteSet(DOMAIN window'[k]) /\ Cardinality(DOMAIN window'[k]) <= Maximum[k]
      /\ window'[k] \in [DOMAIN window'[k] -> Int]
      /\ DOMAIN window'[k] \subseteq DOMAIN grants'[k]
  <2> DEFINE kept == Pruned(k, now, t)
  <2>1. /\ kept = [m \in DOMAIN kept |-> window[k][m]] /\ kept \in [DOMAIN kept -> Int]
        /\ IsFiniteSet(DOMAIN kept) /\ DOMAIN kept \subseteq DOMAIN grants[k]
        /\ Cardinality(DOMAIN kept) = Count(k, now, t)
        /\ Count(k, now, t) \in Nat /\ Count(k, now, t) <= Maximum[k]
    <3>1. now \in Int
      BY <1>1
    <3>2. kept = [m \in DOMAIN kept |-> window[k][m]]
      BY <3>1, PrunedMembers
    <3>3. \A m \in DOMAIN kept : window[k][m] \in Int
      BY <3>1, PrunedMembers
    <3>4. kept \in [DOMAIN kept -> Int]
      <4> DEFINE S == DOMAIN kept
      <4>1. kept = [m \in S |-> window[k][m]] /\ \A m \in S : window[k][m] \in Int
        BY <3>2, <3>3
      <4>2. kept \in [S -> Int]
        BY <4>1
      <4>3. QED
        BY <4>2
    <3>5. QED
      BY <3>1, <3>2, <3>4, PrunedMembers DEF Count
  <2> HIDE DEF kept
  <2>2. CASE Allowed(k, now, t)
    <3>1. window'[k] = WithMember(kept, n, t)
      BY <2>2, ExecuteEffect DEF kept
    <3>2. DOMAIN WithMember(kept, n, t) = DOMAIN kept \cup {n}
      BY DEF WithMember
    <3>3. WithMember(kept, n, t) \in [DOMAIN kept \cup {n} -> Int]
      BY <2>1 DEF WithMember
    <3>4. Count(k, now, t) < Maximum[k]
      BY <2>2 DEF Allowed
    <3>5. /\ IsFiniteSet(DOMAIN kept \cup {n})
          /\ Cardinality(DOMAIN kept \cup {n}) <= Maximum[k]
      <4>1. /\ IsFiniteSet(DOMAIN kept \cup {n})
            /\ \/ Cardinality(DOMAIN kept \cup {n}) = Cardinality(DOMAIN kept)
               \/ Cardinality(DOMAIN kept \cup {n}) = Cardinality(DOMAIN kept) + 1
        BY <2>1, FS_AddElement
      <4>2. QED
        BY <1>2, <2>1, <3>4, <4>1
    <3>6. DOMAIN kept \cup {n} \subseteq DOMAIN grants'[k]
      BY <1>4, <2>1, <2>2
    <3>7. QED
      BY <3>1, <3>2, <3>3, <3>5, <3>6
  <2>3. CASE ~Allowed(k, now, t)
    <3>1. window'[k] = kept
      BY <2>3, ExecuteEffect DEF kept
    <3>2. /\ IsFiniteSet(DOMAIN kept) /\ Cardinality(DOMAIN kept) <= Maximum[k]
          /\ kept \in [DOMAIN kept -> Int]
      BY <2>1
    <3>3. DOMAIN kept \subseteq DOMAIN grants'[k]
      BY <1>4, <2>1
    <3>4. QED
      BY <3>1, <3>2, <3>3
  <2>4. QED
    BY <2>2, <2>3
<1>6. /\ updated_at'[k] \in Int /\ expires'[k] \in 0..MaxTime + Lifespan(k)
      /\ answer'[k] \in {"none", "allowed", "limited"} /\ now' = now
  <2>1. updated_at'[k] = t /\ expires'[k] = now + Lifespan(k) /\ now' = now
    BY ExecuteEffect
  <2>2. answer'[k] = "allowed" \/ answer'[k] = "limited"
    BY ExecuteEffect
  <2>3. expires'[k] \in 0..MaxTime + Lifespan(k)
    BY <1>1, <1>2, <2>1
  <2>4. QED
    BY <2>1, <2>2, <2>3
<1>7. LimiterTypeOK'
  <2>1. now' \in 0..MaxTime
    BY <1>1, <1>6
  <2>2. \A j \in Identities \ {k} :
           /\ tokens'[j] = tokens[j] /\ updated_at'[j] = updated_at[j]
           /\ window'[j] = window[j] /\ expires'[j] = expires[j]
           /\ grants'[j] = grants[j] /\ answer'[j] = answer[j]
    BY ExecuteEffect
  <2>3. ASSUME NEW j \in Identities
        PROVE  /\ tokens'[j] \in 0..Full(j)
               /\ updated_at'[j] \in Int
               /\ IsFiniteSet(DOMAIN window'[j])
               /\ Cardinality(DOMAIN window'[j]) <= Maximum[j]
               /\ window'[j] \in [DOMAIN window'[j] -> Int]
               /\ DOMAIN window'[j] \subseteq DOMAIN grants'[j]
               /\ expires'[j] \in 0..MaxTime + Lifespan(j)
               /\ grants'[j] \in Seq(0..MaxTime)
               /\ answer'[j] \in {"none", "allowed", "limited"}
    <3>1. CASE j = k
      BY <1>3, <1>4, <1>5, <1>6, <3>1
    <3>2. CASE j # k
      BY <2>2, <3>2 DEF LimiterTypes, LimiterTypeOK
    <3>3. QED
      BY <3>1, <3>2
  <2>4. QED
    BY <2>1, <2>3 DEF LimiterTypeOK, Full, One, Lifespan
<1>8. LimiterShape'
  <2>1. \A j \in Identities :
           /\ tokens'[j] \in Nat /\ updated_at'[j] \in Int /\ expires'[j] \in Nat
           /\ grants'[j] \in Seq(0..MaxTime) /\ answer'[j] \in {"none", "allowed", "limited"}
    <3>1. \A j \in Identities : Full(j) \in Nat /\ Lifespan(j) \in Nat
      BY RuleValues
    <3>2. QED
      BY <1>7, <3>1 DEF LimiterTypeOK, Full, One, Lifespan
  <2>2. /\ tokens' = [j \in Identities |-> tokens'[j]]
        /\ updated_at' = [j \in Identities |-> updated_at'[j]]
        /\ window' = [j \in Identities |-> window'[j]]
        /\ expires' = [j \in Identities |-> expires'[j]]
        /\ grants' = [j \in Identities |-> grants'[j]]
        /\ answer' = [j \in Identities |-> answer'[j]]
    BY DEF Execute, Write, LimiterTypes, LimiterShape
  <2>3. QED
    BY <2>1, <2>2 DEF LimiterShape
<1>9. QED
  BY <1>7, <1>8 DEF LimiterTypes

\* What a tick of the clock keeps.
LEMMA TickTypes ==
    ASSUME LimiterTypes, Tick
    PROVE  LimiterTypes'
<1>1. now' \in 0..MaxTime
  BY OffsetsAssumption DEF Tick, LimiterTypes, LimiterTypeOK
<1>2. QED
  BY <1>1 DEF Tick, LimiterTypes, LimiterTypeOK, LimiterShape, Full, One, Lifespan

\* Before the first request no key exists.
LEMMA InitialTypes ==
    ASSUME LimiterInit
    PROVE  LimiterTypes
<1>1. LimiterShape
  BY DEF LimiterInit, LimiterShape
<1>2. ASSUME NEW k \in Identities
      PROVE  /\ IsFiniteSet(DOMAIN window[k]) /\ Cardinality(DOMAIN window[k]) <= Maximum[k]
             /\ window[k] \in [DOMAIN window[k] -> Int]
             /\ DOMAIN window[k] \subseteq DOMAIN grants[k]
  <2>1. window[k] = <<>> /\ DOMAIN window[k] = {}
    BY DEF LimiterInit
  <2>2. QED
    BY <2>1, FS_EmptySet, RuleValues
<1>3. LimiterTypeOK
  BY <1>2, RuleValues, OffsetsAssumption DEF LimiterInit, LimiterTypeOK
<1>4. QED
  BY <1>1, <1>3 DEF LimiterTypes

\* Every step of the limiter is a tick or one run of the script, for a new
\* request or for one whose member the window still has.
LEMMA LimiterSteps ==
    ASSUME LimiterTypes, LimiterNext
    PROVE  \/ Tick
           \/ \E k \in Identities, i \in Instances : \E offset \in Offsets[i] :
                \E n \in DOMAIN grants[k] \cup {NewMember(k)} :
                    /\ now + offset \in Int
                    /\ n \in DOMAIN grants[k] => /\ n \in DOMAIN Pruned(k, now, now + offset)
                                                 /\ window[k][n] = now + offset
                    /\ Execute(k, now + offset, n)
<1>1. \A i \in Instances : Offsets[i] \subseteq Int
  BY OffsetsAssumption
<1>2. now \in Int
  BY OffsetsAssumption DEF LimiterTypes, LimiterTypeOK
<1>3. ASSUME NEW k \in Identities PROVE NewMember(k) \notin DOMAIN grants[k]
  <2>1. grants[k] \in Seq(0..MaxTime)
    BY DEF LimiterTypes, LimiterShape
  <2>2. QED
    BY <2>1 DEF NewMember
<1>4. ASSUME NEW k \in Identities, NEW i \in Instances, NEW offset \in Offsets[i],
             Execute(k, now + offset, NewMember(k))
      PROVE  \E n \in DOMAIN grants[k] \cup {NewMember(k)} :
                /\ now + offset \in Int
                /\ n \in DOMAIN grants[k] => /\ n \in DOMAIN Pruned(k, now, now + offset)
                                             /\ window[k][n] = now + offset
                /\ Execute(k, now + offset, n)
  <2>1. now + offset \in Int
    BY <1>1, <1>2
  <2>2. QED
    BY <1>3, <1>4, <2>1
<1>5. ASSUME NEW k \in Identities, NEW i \in Instances, NEW offset \in Offsets[i],
             NEW n \in DOMAIN Pruned(k, now, now + offset),
             window[k][n] = now + offset, Execute(k, now + offset, n)
      PROVE  \E m \in DOMAIN grants[k] \cup {NewMember(k)} :
                /\ now + offset \in Int
                /\ m \in DOMAIN grants[k] => /\ m \in DOMAIN Pruned(k, now, now + offset)
                                             /\ window[k][m] = now + offset
                /\ Execute(k, now + offset, m)
  <2>1. now + offset \in Int
    BY <1>1, <1>2
  <2>2. n \in DOMAIN grants[k]
    BY <1>2, <2>1, PrunedMembers
  <2>3. QED
    BY <1>5, <2>1, <2>2
<1>6. QED
  BY <1>4, <1>5 DEF LimiterNext, Allow, Resend

\* Whatever the clocks of the instances and the delays are, the bucket stays
\* within its capacity and the sorted set within the hard limit, with members
\* of allowed requests only.
THEOREM LimiterTypesHold == LimiterSpec => [](LimiterTypes /\ LimiterTypeOK)
<1>1. LimiterInit => LimiterTypes
  BY InitialTypes
<1>2. LimiterTypes /\ [LimiterNext]_limiterVars => LimiterTypes'
  <2> SUFFICES ASSUME LimiterTypes, [LimiterNext]_limiterVars PROVE LimiterTypes'
    OBVIOUS
  <2>1. CASE Tick
    BY <2>1, TickTypes
  <2>2. ASSUME NEW k \in Identities, NEW t \in Int,
               NEW n \in DOMAIN grants[k] \cup {NewMember(k)}, Execute(k, t, n)
        PROVE  LimiterTypes'
    BY <2>2, ExecuteTypes
  <2>3. CASE UNCHANGED limiterVars
    BY <2>3 DEF limiterVars, LimiterTypes, LimiterTypeOK, LimiterShape, Full, One, Lifespan
  <2>4. QED
    BY <2>1, <2>2, <2>3, LimiterSteps
<1>3. QED
  BY <1>1, <1>2, PTL DEF LimiterSpec, LimiterTypes

-----------------------------------------------------------------------------
\* Prompt requests: the bounds of the limiter

\* Clocks agree, and requests reach Redis within one clock unit.
Prompt == \A i \in Instances : Offsets[i] = {0}

\* What the bucket and the window know of the requests allowed so far.  The
\* members are exactly the requests that were younger than the window when the
\* script last ran, and both keys outlive the restoration and the window.
History(k) ==
    /\ updated_at[k] \in 0..now
    /\ \/ expires[k] = 0 /\ grants[k] = <<>>
       \/ expires[k] = updated_at[k] + Lifespan(k)
    /\ \A n \in DOMAIN window[k] : window[k][n] = grants[k][n]
    /\ \A n \in DOMAIN grants[k] :
          /\ grants[k][n] <= updated_at[k]
          /\ grants[k][n] + Window[k] > updated_at[k] => n \in DOMAIN window[k]
    /\ \A a, b \in DOMAIN grants[k] : a <= b => grants[k][a] <= grants[k][b]

\* What a clock unit may restore, errors of rounding included.
Rate(k) == Unit(k) + 2 * Error

\* The requests allowed from the a-th one on, and what the bucket held when
\* the script last ran, are paid for by its capacity and the restoration until
\* then.
Budget(k) ==
    \A a \in DOMAIN grants[k] :
        (Len(grants[k]) - a + 1) * One(k) + tokens[k]
            <= Full(k) + (updated_at[k] - grants[k][a]) * Rate(k)

\* BurstBound for one identity, with no lateness to allow for.
Burst(k) ==
    \A a, b \in DOMAIN grants[k] : a <= b =>
        (b - a + 1) * One(k) <= Full(k) + (grants[k][b] - grants[k][a]) * Rate(k)

LimiterInvariant ==
    /\ LimiterTypes
    /\ \A k \in Identities : History(k) /\ Budget(k) /\ Burst(k)

\* But for rounding the lazy refill is the continuous one: what the bucket holds
\* d clock units from now is what it holds now and what d units restore, up to
\* its capacity, also when its key has expired by then.
LEMMA RefillOver ==
    ASSUME LimiterTypes, NEW k \in Identities, History(k), NEW d \in Nat
    PROVE  Unrounded(k, now + d, now + d)
             = Lesser(Full(k), Unrounded(k, now, now) + d * Unit(k))
<1> DEFINE e == now - updated_at[k]
<1>1. /\ now \in Nat /\ updated_at[k] \in Nat /\ expires[k] \in Nat /\ tokens[k] \in Nat
      /\ e \in Nat
  BY OffsetsAssumption DEF LimiterTypes, LimiterTypeOK, LimiterShape, History
<1>2. /\ Full(k) \in Nat /\ Unit(k) \in Nat /\ RestoreOver[k] \in Nat
      /\ Full(k) = RestoreOver[k] * Unit(k)
      /\ Lifespan(k) \in Nat /\ RestoreOver[k] <= Lifespan(k)
  BY RuleValues
<1>3. /\ e * Unit(k) \in Nat /\ d * Unit(k) \in Nat
      /\ (e + d) * Unit(k) = e * Unit(k) + d * Unit(k)
  BY <1>1, <1>2, Products
<1>4. /\ Greater(0, now - updated_at[k]) = e
      /\ Greater(0, (now + d) - updated_at[k]) = e + d
  BY <1>1 DEF Greater
<1>5. /\ Exists(k, now) =>
            Unrounded(k, now, now) = Lesser(Full(k), tokens[k] + e * Unit(k))
      /\ ~Exists(k, now) => Unrounded(k, now, now) = Full(k)
      /\ Exists(k, now + d) => Unrounded(k, now + d, now + d)
                                 = Lesser(Full(k), tokens[k] + (e + d) * Unit(k))
      /\ ~Exists(k, now + d) => Unrounded(k, now + d, now + d) = Full(k)
  BY <1>4 DEF Unrounded, Elapsed
<1>6. Exists(k, now + d) => Exists(k, now)
  BY <1>1 DEF Exists
<1> HIDE DEF e
<1>7. CASE ~Exists(k, now)
  BY <1>2, <1>3, <1>5, <1>6, <1>7 DEF Lesser
<1>8. CASE Exists(k, now + d)
  BY <1>1, <1>2, <1>3, <1>5, <1>6, <1>8 DEF Lesser
<1>9. CASE Exists(k, now) /\ ~Exists(k, now + d)
  <2>1. RestoreOver[k] <= e + d
    <3>1. expires[k] = updated_at[k] + Lifespan(k)
      BY <1>1, <1>9 DEF Exists, History
    <3>2. expires[k] <= now + d
      BY <1>1, <1>9 DEF Exists
    <3>3. QED
      BY <1>1, <1>2, <3>1, <3>2 DEF e
  <2>2. Full(k) <= e * Unit(k) + d * Unit(k)
    <3>1. e + d \in Nat
      BY <1>1
    <3>2. RestoreOver[k] * Unit(k) <= (e + d) * Unit(k)
      BY <1>2, <2>1, <3>1, Products
    <3>3. QED
      BY <1>2, <1>3, <3>2
  <2> DEFINE x == e * Unit(k)
             y == d * Unit(k)
  <2>3. /\ Full(k) <= x + y /\ x \in Nat /\ y \in Nat
        /\ Unrounded(k, now, now) = Lesser(Full(k), tokens[k] + x)
        /\ Unrounded(k, now + d, now + d) = Full(k)
    BY <1>3, <1>5, <1>9, <2>2
  <2> HIDE DEF x
  <2>4. Full(k) = Lesser(Full(k), Lesser(Full(k), tokens[k] + x) + y)
    <3> HIDE DEF y
    <3>1. QED
      BY <1>1, <1>2, <2>3 DEF Lesser
  <2>5. QED
    BY <2>3, <2>4
<1>10. QED
  BY <1>7, <1>8, <1>9

\* Lazy pruning and the expiry of the key make no difference either: the
\* members left d clock units from now are the requests allowed during the
\* rolling window that ends then.
LEMMA RecentMembers ==
    ASSUME LimiterTypes, NEW k \in Identities, History(k), NEW d \in Nat
    PROVE  /\ DOMAIN Pruned(k, now + d, now + d) =
                {n \in DOMAIN grants[k] : grants[k][n] + Window[k] > now + d}
           /\ \A n \in DOMAIN Pruned(k, now + d, now + d) :
                Pruned(k, now + d, now + d)[n] = grants[k][n]
<1> DEFINE left == Pruned(k, now + d, now + d)
<1>1. /\ now \in Nat /\ updated_at[k] \in Nat /\ updated_at[k] <= now /\ expires[k] \in Nat
      /\ Window[k] \in Nat /\ Lifespan(k) \in Nat /\ Window[k] <= Lifespan(k)
      /\ now + d \in Int
      /\ \A n \in DOMAIN grants[k] : grants[k][n] \in Nat
  <2>1. updated_at[k] \in 0..now
    BY DEF History
  <2>2. QED
    BY <2>1, SingleValues
<1>2. /\ DOMAIN left = {n \in DOMAIN window[k] :
                            Exists(k, now + d) /\ window[k][n] > (now + d) - Window[k]}
      /\ left = [n \in DOMAIN left |-> window[k][n]]
      /\ DOMAIN window[k] \subseteq DOMAIN grants[k]
  <2>1. \A s \in Int :
           /\ DOMAIN Pruned(k, s, s) =
                 {n \in DOMAIN window[k] : Exists(k, s) /\ window[k][n] > s - Window[k]}
           /\ Pruned(k, s, s) = [n \in DOMAIN Pruned(k, s, s) |-> window[k][n]]
    BY DEF Pruned, Restrict
  <2>2. DOMAIN window[k] \subseteq DOMAIN grants[k]
    BY DEF LimiterTypes, LimiterTypeOK
  <2>3. QED
    BY <1>1, <2>1, <2>2
<1>3. \A n \in DOMAIN window[k] : window[k][n] = grants[k][n]
  BY DEF History
<1>4. ASSUME NEW n \in DOMAIN left
      PROVE  n \in DOMAIN grants[k] /\ grants[k][n] + Window[k] > now + d
  BY <1>1, <1>2, <1>3
<1>5. ASSUME NEW n \in DOMAIN grants[k], grants[k][n] + Window[k] > now + d
      PROVE  n \in DOMAIN left
  <2>1. grants[k][n] <= updated_at[k] /\ grants[k] # <<>>
    BY DEF History
  <2>2. Exists(k, now + d)
    BY <1>1, <1>5, <2>1 DEF History, Exists
  <2>3. n \in DOMAIN window[k]
    BY <1>1, <1>5 DEF History
  <2>4. window[k][n] > (now + d) - Window[k]
    BY <1>1, <1>3, <1>5, <2>3
  <2>5. QED
    BY <1>2, <2>2, <2>3, <2>4
<1>6. \A n \in DOMAIN left : left[n] = grants[k][n]
  <2> DEFINE S == DOMAIN left
  <2>1. left = [n \in S |-> window[k][n]] /\ S \subseteq DOMAIN window[k]
    BY <1>2
  <2>2. \A n \in S : left[n] = window[k][n]
    BY <2>1
  <2>3. QED
    BY <1>3, <2>1, <2>2
<1> HIDE DEF left
<1>7. DOMAIN left = {n \in DOMAIN grants[k] : grants[k][n] + Window[k] > now + d}
  BY <1>4, <1>5
<1>8. QED
  BY <1>6, <1>7 DEF left

\* What a run of the script for a prompt request does to the history: it
\* appends the request when it is new and allowed, and the window then holds
\* the requests of the last Window[k] units and no other.
LEMMA PromptRun ==
    ASSUME LimiterTypes, NEW k \in Identities, History(k),
           NEW n \in DOMAIN grants[k] \cup {NewMember(k)}, Execute(k, now, n),
           n \in DOMAIN grants[k] => n \in DOMAIN Pruned(k, now, now) /\ window[k][n] = now
    PROVE  /\ History(k)'
           /\ \/ /\ Allowed(k, now, now) /\ tokens'[k] = Refilled(k, now, now) - One(k)
                 /\ grants'[k] = Append(grants[k], now)
              \/ /\ Allowed(k, now, now) /\ tokens'[k] = Refilled(k, now, now) - One(k)
                 /\ grants'[k] = grants[k]
              \/ /\ ~Allowed(k, now, now) /\ tokens'[k] = Refilled(k, now, now)
                 /\ grants'[k] = grants[k]
           /\ updated_at'[k] = now /\ Unrounded(k, now, now)' = tokens'[k]
<1> DEFINE kept == Pruned(k, now, now)
           L == Len(grants[k])
<1>1. /\ now \in Nat /\ updated_at[k] \in 0..now /\ L \in Nat /\ now \in 0..MaxTime
      /\ grants[k] \in Seq(0..MaxTime) /\ DOMAIN grants[k] = 1..L
      /\ \A m \in 1..L : grants[k][m] \in Nat /\ grants[k][m] <= now
      /\ Window[k] \in Nat \ {0} /\ Lifespan(k) \in Nat \ {0}
  <2>1. grants[k] \in Seq(0..MaxTime) /\ MaxTime \in Nat
    BY OffsetsAssumption DEF LimiterTypes, LimiterShape
  <2>2. DOMAIN grants[k] = 1..L /\ L \in Nat /\ \A m \in 1..L : grants[k][m] \in 0..MaxTime
    BY <2>1
  <2>3. now \in 0..MaxTime /\ updated_at[k] \in 0..now
    BY DEF LimiterTypes, LimiterTypeOK, History
  <2>4. \A m \in 1..L : grants[k][m] <= updated_at[k]
    BY <2>2 DEF History
  <2>5. Window[k] \in Nat \ {0} /\ Lifespan(k) \in Nat \ {0}
    BY RuleValues
  <2>6. QED
    BY <2>1, <2>2, <2>3, <2>4, <2>5
<1>2. /\ DOMAIN kept = {m \in 1..L : grants[k][m] + Window[k] > now}
      /\ \A m \in DOMAIN kept : kept[m] = grants[k][m]
  <2>1. now + 0 = now
    BY <1>1
  <2>2. /\ DOMAIN Pruned(k, now + 0, now + 0) =
              {m \in DOMAIN grants[k] : grants[k][m] + Window[k] > now + 0}
        /\ \A m \in DOMAIN Pruned(k, now + 0, now + 0) :
              Pruned(k, now + 0, now + 0)[m] = grants[k][m]
    BY RecentMembers
  <2>3. QED
    BY <1>1, <2>1, <2>2
<1>3. updated_at'[k] = now /\ expires'[k] = now + Lifespan(k) /\ now' = now
  BY <1>1, ExecuteEffect
<1>4. /\ DOMAIN Append(grants[k], now) = 1..L + 1
      /\ \A m \in 1..L : Append(grants[k], now)[m] = grants[k][m]
      /\ Append(grants[k], now)[L + 1] = now
  BY <1>1
<1>5. n \in 1..L => grants[k][n] = now
  <2>1. now \in Int
    BY <1>1
  <2>2. DOMAIN Pruned(k, now, now) \subseteq DOMAIN window[k]
    BY <2>1, PrunedMembers
  <2>3. n \in 1..L => n \in DOMAIN window[k] /\ window[k][n] = now
    BY <1>1, <2>2
  <2>4. QED
    BY <2>3 DEF History
<1> HIDE DEF kept
<1>6. \/ /\ Allowed(k, now, now) /\ n = L + 1
         /\ tokens'[k] = Refilled(k, now, now) - One(k)
         /\ window'[k] = WithMember(kept, L + 1, now) /\ grants'[k] = Append(grants[k], now)
      \/ /\ Allowed(k, now, now) /\ n \in 1..L
         /\ tokens'[k] = Refilled(k, now, now) - One(k)
         /\ window'[k] = WithMember(kept, n, now) /\ grants'[k] = grants[k]
      \/ /\ ~Allowed(k, now, now)
         /\ tokens'[k] = Refilled(k, now, now)
         /\ window'[k] = kept /\ grants'[k] = grants[k]
  BY <1>1, ExecuteEffect DEF kept, NewMember
<1>7. /\ \A m \in DOMAIN window'[k] : window'[k][m] = grants'[k][m]
      /\ \A m \in DOMAIN grants'[k] :
            /\ grants'[k][m] <= now
            /\ grants'[k][m] + Window[k] > now => m \in DOMAIN window'[k]
      /\ \A a, b \in DOMAIN grants'[k] : a <= b => grants'[k][a] <= grants'[k][b]
  <2>1. \A a, b \in 1..L : a <= b => grants[k][a] <= grants[k][b]
    BY <1>1 DEF History
  <2>2. ASSUME NEW m PROVE /\ DOMAIN WithMember(kept, m, now) = DOMAIN kept \cup {m}
                           /\ WithMember(kept, m, now)[m] = now
                           /\ \A o \in DOMAIN kept \ {m} : WithMember(kept, m, now)[o] = kept[o]
    BY DEF WithMember
  <2>3. CASE /\ window'[k] = WithMember(kept, L + 1, now)
             /\ grants'[k] = Append(grants[k], now)
    <3>1. \A m \in 1..L + 1 : m \in 1..L \/ m = L + 1
      BY <1>1
    <3>2. L + 1 \notin DOMAIN kept
      BY <1>1, <1>2
    <3>3. /\ DOMAIN window'[k] = DOMAIN kept \cup {L + 1}
          /\ window'[k][L + 1] = now
          /\ \A m \in DOMAIN kept : window'[k][m] = grants[k][m]
      <4>1. /\ DOMAIN WithMember(kept, L + 1, now) = DOMAIN kept \cup {L + 1}
            /\ WithMember(kept, L + 1, now)[L + 1] = now
            /\ \A o \in DOMAIN kept \ {L + 1} : WithMember(kept, L + 1, now)[o] = kept[o]
        BY <2>2
      <4>2. \A m \in DOMAIN kept : m \in DOMAIN kept \ {L + 1} /\ kept[m] = grants[k][m]
        BY <1>2, <3>2
      <4>3. QED
        BY <2>3, <4>1, <4>2
    <3>4. DOMAIN grants'[k] = 1..L + 1 /\ grants'[k][L + 1] = now
          /\ \A m \in 1..L : grants'[k][m] = grants[k][m]
      BY <1>4, <2>3
    <3>5. DOMAIN kept \subseteq 1..L
      BY <1>2
    <3>6. \A m \in DOMAIN window'[k] : window'[k][m] = grants'[k][m]
      BY <3>3, <3>4, <3>5
    <3>7. ASSUME NEW m \in DOMAIN grants'[k]
          PROVE  /\ grants'[k][m] <= now
                 /\ grants'[k][m] + Window[k] > now => m \in DOMAIN window'[k]
      <4>1. CASE m = L + 1
        BY <1>1, <3>3, <3>4, <4>1
      <4>2. CASE m \in 1..L
        BY <1>1, <1>2, <3>3, <3>4, <4>2
      <4>3. QED
        BY <3>1, <3>4, <4>1, <4>2
    <3>8. ASSUME NEW a \in 1..L + 1, NEW b \in 1..L + 1, a <= b
          PROVE  grants'[k][a] <= grants'[k][b]
      <4>1. CASE b = L + 1 /\ a = L + 1
        BY <1>1, <3>4, <4>1
      <4>2. CASE b = L + 1 /\ a \in 1..L
        BY <1>1, <1>2, <3>4, <4>2
      <4>3. CASE b \in 1..L
        <5>1. a \in 1..L
          BY <1>1, <3>8, <4>3
        <5>2. QED
          BY <2>1, <3>4, <3>8, <4>3, <5>1
      <4>4. \/ b = L + 1 /\ a = L + 1
            \/ b = L + 1 /\ a \in 1..L
            \/ b \in 1..L
        BY <3>1
      <4>5. QED
        BY <4>1, <4>2, <4>3, <4>4, Zenon
    <3>9. QED
      BY <3>4, <3>6, <3>7, <3>8
  <2>4. CASE /\ n \in 1..L
             /\ window'[k] = WithMember(kept, n, now) /\ grants'[k] = grants[k]
    <3>1. /\ DOMAIN window'[k] = DOMAIN kept \cup {n}
          /\ window'[k][n] = now
          /\ \A m \in DOMAIN kept \ {n} : window'[k][m] = grants[k][m]
      BY <1>2, <2>2, <2>4
    <3>2. \A m \in DOMAIN window'[k] : window'[k][m] = grants'[k][m]
      BY <1>5, <2>4, <3>1
    <3>3. \A m \in 1..L : grants[k][m] + Window[k] > now => m \in DOMAIN window'[k]
      BY <1>2, <3>1
    <3>4. QED
      BY <1>1, <2>1, <2>4, <3>2, <3>3
  <2>5. CASE window'[k] = kept /\ grants'[k] = grants[k]
    BY <1>1, <1>2, <2>1, <2>5
  <2>6. QED
    BY <1>6, <2>3, <2>4, <2>5
<1>8. History(k)'
  <2>1. updated_at'[k] \in 0..now' /\ expires'[k] = updated_at'[k] + Lifespan(k)
    BY <1>1, <1>3
  <2>2. QED
    BY <1>3, <1>7, <2>1 DEF History, Lifespan
<1>9. Unrounded(k, now, now)' = tokens'[k]
  <2>1. tokens'[k] \in 0..Full(k) /\ Full(k) \in Nat
    BY <1>1, ExecuteTypes, RuleValues DEF LimiterTypes, LimiterTypeOK, Full, One
  <2>2. /\ expires'[k] > now'
        /\ Greater(0, now' - updated_at'[k]) = 0
    BY <1>1, <1>3 DEF Greater
  <2>3. 0 * Unit(k) = 0
    BY RuleValues
  <2>4. Lesser(Full(k), tokens'[k] + 0) = tokens'[k]
    BY <2>1 DEF Lesser
  <2>5. Unrounded(k, now, now)' =
          IF ~(expires'[k] > now') THEN Full(k)
          ELSE Lesser(Full(k), tokens'[k] + Greater(0, now' - updated_at'[k]) * Unit(k))
    BY DEF Unrounded, Exists, Elapsed, Full, One, Unit, Lesser, Greater
  <2>6. QED
    BY <2>2, <2>3, <2>4, <2>5
<1>10. QED
  BY <1>3, <1>6, <1>8, <1>9

\* One more request of a run of b - a + 1 costs one more.
LEMMA OneMore ==
    ASSUME NEW x \in Nat, NEW cost \in Nat
    PROVE  /\ (x + 1) * cost = x * cost + cost
           /\ x * cost \in Nat /\ 1 * cost = cost
  BY Products

\* What a prompt request reads is paid for as well: since the script last ran,
\* each clock unit restored no more than Rate.
LEMMA BudgetNow ==
    ASSUME LimiterTypes, NEW k \in Identities, History(k), Budget(k),
           NEW a \in DOMAIN grants[k]
    PROVE  /\ (now - grants[k][a]) * Rate(k) \in Nat
           /\ (Len(grants[k]) - a + 1) * One(k) \in Nat
           /\ (Len(grants[k]) - a + 1) * One(k) + Refilled(k, now, now)
                 <= Full(k) + (now - grants[k][a]) * Rate(k)
<1> DEFINE e == now - updated_at[k]
           g == updated_at[k] - grants[k][a]
           n == Len(grants[k]) - a + 1
           R == Refilled(k, now, now)
<1>1. e \in Nat /\ g \in Nat /\ n \in Nat /\ now - grants[k][a] = e + g /\ now \in Nat
  <2>1. grants[k] \in Seq(0..MaxTime) /\ MaxTime \in Nat
    BY OffsetsAssumption DEF LimiterTypes, LimiterShape
  <2>2. n \in Nat
    BY <2>1
  <2>3. updated_at[k] \in 0..now /\ grants[k][a] <= updated_at[k]
    BY DEF History
  <2>4. now \in Nat /\ grants[k][a] \in Nat /\ updated_at[k] \in Nat
    BY <2>3, SingleValues
  <2>5. QED
    BY <2>2, <2>3, <2>4
<1>2. /\ Full(k) \in Nat /\ One(k) \in Nat /\ Unit(k) \in Nat /\ Error \in Nat
      /\ Rate(k) \in Nat /\ Rate(k) = Unit(k) + 2 * Error
      /\ RestoreOver[k] \in Nat /\ Full(k) = RestoreOver[k] * Unit(k)
      /\ RestoreOver[k] <= Lifespan(k) /\ Lifespan(k) \in Nat
      /\ tokens[k] \in 0..Full(k)
  BY RuleValues DEF Rate, LimiterTypes, LimiterTypeOK
<1>3. Elapsed(k, now) = e
  BY <1>1 DEF Elapsed, Greater
<1>4. /\ R \in Nat /\ R <= Full(k) /\ R <= Unrounded(k, now, now) + 2 * Error
      /\ Exists(k, now) /\ e = 0 => R = tokens[k]
      /\ Exists(k, now) => Unrounded(k, now, now) = Lesser(Full(k), tokens[k] + e * Unit(k))
  <2>1. now \in Int
    BY <1>1
  <2>2. /\ R \in 0..Full(k) /\ R <= Unrounded(k, now, now) + 2 * Error
        /\ Exists(k, now) /\ Elapsed(k, now) = 0 => R = tokens[k]
    BY <2>1, RefillBounds
  <2>3. Exists(k, now) => Unrounded(k, now, now) = Lesser(Full(k), tokens[k] + e * Unit(k))
    BY <1>3 DEF Unrounded
  <2> HIDE DEF e, R
  <2>4. QED
    BY <1>2, <1>3, <2>2, <2>3
<1>5. n * One(k) + tokens[k] <= Full(k) + g * Rate(k)
  BY DEF Budget
<1>6. /\ n * One(k) \in Nat /\ e * Rate(k) \in Nat /\ g * Rate(k) \in Nat
      /\ e * Unit(k) \in Nat /\ (e + g) * Rate(k) = e * Rate(k) + g * Rate(k)
  <2> HIDE DEF e, g, n
  <2>1. QED
    BY <1>1, <1>2, Products
<1>7. e * Rate(k) = e * Unit(k) + e * (2 * Error)
  <2> DEFINE u == Unit(k)
             d == 2 * Error
  <2>1. u \in Nat /\ d \in Nat /\ Rate(k) = u + d
    BY <1>2
  <2> HIDE DEF e, u, d
  <2>2. e * (u + d) = e * u + e * d
    BY <1>1, <2>1
  <2>3. QED
    BY <2>1, <2>2 DEF u, d
<1>8. ~Exists(k, now) => RestoreOver[k] <= e
  <2>1. expires[k] = updated_at[k] + Lifespan(k)
    BY DEF History
  <2>2. now \in Nat /\ updated_at[k] \in Int
    BY <1>1, SingleValues
  <2>3. ~Exists(k, now) => expires[k] <= now
    BY <2>2, SingleValues DEF Exists
  <2>4. QED
    BY <1>2, <2>1, <2>2, <2>3
<1>9. R <= tokens[k] + e * Rate(k)
  <2>1. CASE e = 0 /\ Exists(k, now)
    BY <1>2, <1>4, <1>6, <2>1
  <2>2. CASE e # 0 /\ Exists(k, now)
    <3>1. 2 * Error <= e * (2 * Error)
      <4> DEFINE d == 2 * Error
      <4>1. d \in Nat /\ 1 <= e
        BY <1>1, <1>2, <2>2
      <4> HIDE DEF d, e
      <4>2. 1 * d <= e * d /\ 1 * d = d
        BY <1>1, <4>1, Products
      <4>3. QED
        BY <4>2 DEF d
    <3> DEFINE x == e * Unit(k)
               y == e * (2 * Error)
    <3>2. /\ R <= Lesser(Full(k), tokens[k] + x) + 2 * Error
          /\ x \in Nat /\ e * Rate(k) = x + y /\ 2 * Error <= y
      BY <1>4, <1>6, <1>7, <2>2, <3>1
    <3>3. y \in Nat
      <4> HIDE DEF e
      <4>1. QED
        BY <1>1, <1>2, Products
    <3> HIDE DEF x, y, R, e
    <3>4. R <= tokens[k] + (x + y)
      BY <1>2, <1>4, <3>2, <3>3 DEF Lesser
    <3>5. QED
      BY <3>2, <3>4
  <2>3. CASE ~Exists(k, now)
    <3>1. RestoreOver[k] * Unit(k) <= e * Unit(k)
      <4>1. RestoreOver[k] <= e
        BY <1>8, <2>3
      <4> HIDE DEF e
      <4>2. QED
        BY <1>1, <1>2, <4>1, Products
    <3>2. e * (2 * Error) \in Nat
      <4> HIDE DEF e
      <4>1. QED
        BY <1>1, <1>2, Products
    <3> DEFINE x == e * Unit(k)
               y == e * (2 * Error)
    <3>3. Full(k) <= x /\ e * Rate(k) = x + y /\ y \in Nat /\ x \in Nat
      BY <1>2, <1>6, <1>7, <3>1, <3>2
    <3> HIDE DEF x, y, R, e
    <3>4. R <= tokens[k] + (x + y)
      BY <1>2, <1>4, <3>3
    <3>5. QED
      BY <3>3, <3>4
  <2>4. QED
    BY <2>1, <2>2, <2>3
<1> DEFINE p == n * One(k)
           w == e * Rate(k)
           v == g * Rate(k)
<1>10. /\ p \in Nat /\ w \in Nat /\ v \in Nat /\ p + tokens[k] <= Full(k) + v
       /\ R <= tokens[k] + w /\ (e + g) * Rate(k) = w + v
  BY <1>5, <1>6, <1>9
<1>11. p + R <= Full(k) + (w + v)
  <2> HIDE DEF p, w, v, R, e, g, n
  <2>1. QED
    BY <1>2, <1>4, <1>10
<1>12. (now - grants[k][a]) * Rate(k) = w + v
  BY <1>1, <1>10
<1> HIDE DEF w, v
<1>13. QED
  BY <1>10, <1>11, <1>12

\* A prompt request that is allowed stays within the capacity and the
\* restoration since any earlier one.
LEMMA PromptBounds ==
    ASSUME LimiterTypes, NEW k \in Identities, History(k), Budget(k), Burst(k),
           NEW n \in DOMAIN grants[k] \cup {NewMember(k)}, Execute(k, now, n),
           n \in DOMAIN grants[k] => n \in DOMAIN Pruned(k, now, now) /\ window[k][n] = now
    PROVE  Budget(k)' /\ Burst(k)'
<1> DEFINE L == Len(grants[k])
           R == Refilled(k, now, now)
           cost == One(k)
<1>1. /\ now \in Nat /\ now' = now /\ L \in Nat /\ DOMAIN grants[k] = 1..L
      /\ grants[k] \in Seq(0..MaxTime)
  <2>1. grants[k] \in Seq(0..MaxTime) /\ MaxTime \in Nat
    BY OffsetsAssumption DEF LimiterTypes, LimiterShape
  <2>2. now \in Nat /\ now \in Int
    BY <2>1 DEF LimiterTypes, LimiterTypeOK
  <2>3. now' = now
    BY <2>2, ExecuteEffect
  <2>4. QED
    BY <2>1, <2>2, <2>3
<1>2. /\ R \in Nat /\ R <= Full(k) /\ cost \in Nat /\ Full(k) \in Nat /\ Rate(k) \in Nat
      /\ Allowed(k, now, now) => cost <= R
  <2>1. R \in 0..Full(k)
    BY <1>1, RefillBounds
  <2>2. QED
    BY <2>1, RuleValues DEF Allowed, Rate
<1>3. /\ \/ /\ Allowed(k, now, now) /\ tokens'[k] = R - cost
            /\ grants'[k] = Append(grants[k], now)
         \/ tokens'[k] <= R /\ tokens'[k] \in Int /\ grants'[k] = grants[k]
      /\ updated_at'[k] = now
  BY <1>2, PromptRun
<1>4. /\ \A x : Full(x)' = Full(x) /\ One(x)' = One(x) /\ Rate(x)' = Rate(x)
  BY DEF Full, One, Rate, Unit
<1> HIDE DEF R, cost
<1>5. ASSUME NEW a \in 1..L
      PROVE  /\ (now - grants[k][a]) * Rate(k) \in Nat
             /\ (L - a + 1) * cost \in Nat
             /\ (L + 1 - a + 1) * cost = (L - a + 1) * cost + cost
             /\ (L - a + 1) * cost + R <= Full(k) + (now - grants[k][a]) * Rate(k)
  <2>1. L - a + 1 \in Nat /\ L + 1 - a + 1 = (L - a + 1) + 1
    BY <1>1
  <2>2. ((L - a + 1) + 1) * cost = (L - a + 1) * cost + cost
    BY <1>2, <2>1, OneMore
  <2>3. QED
    BY <1>1, <2>1, <2>2, BudgetNow DEF R, cost
<1>6. CASE /\ Allowed(k, now, now) /\ tokens'[k] = R - cost
           /\ grants'[k] = Append(grants[k], now)
  <2>1. /\ Len(grants'[k]) = L + 1 /\ DOMAIN grants'[k] = 1..L + 1
        /\ \A m \in 1..L : grants'[k][m] = grants[k][m]
        /\ grants'[k][L + 1] = now
        /\ \A m \in 1..L + 1 : m \in 1..L \/ m = L + 1
    BY <1>1, <1>6
  <2>2. /\ 0 * Rate(k) = 0 /\ 1 * cost = cost /\ now - now = 0
        /\ (L + 1) - (L + 1) + 1 = 1
    BY <1>1, <1>2, Products
  <2>3. cost <= R /\ R \in Nat /\ R <= Full(k) /\ cost \in Nat /\ Full(k) \in Nat
    BY <1>2, <1>6
  <2>4. ASSUME NEW a \in 1..L + 1
        PROVE  /\ (L + 1 - a + 1) * cost + (R - cost)
                    <= Full(k) + (now - grants'[k][a]) * Rate(k)
               /\ (L + 1 - a + 1) * cost <= Full(k) + (now - grants'[k][a]) * Rate(k)
    <3>1. CASE a \in 1..L
      <4> DEFINE x == (L - a + 1) * cost
                 y == (now - grants[k][a]) * Rate(k)
      <4>1. /\ x \in Nat /\ y \in Nat /\ x + R <= Full(k) + y
            /\ (L + 1 - a + 1) * cost = x + cost
            /\ (now - grants'[k][a]) * Rate(k) = y
        BY <1>5, <2>1, <3>1
      <4> HIDE DEF x, y
      <4>2. x + cost + (R - cost) <= Full(k) + y /\ x + cost <= Full(k) + y
        BY <2>3, <4>1
      <4>3. QED
        BY <4>1, <4>2
    <3>2. CASE a = L + 1
      <4>1. (L + 1 - a + 1) * cost = cost /\ (now - grants'[k][a]) * Rate(k) = 0
        BY <2>1, <2>2, <3>2
      <4>2. QED
        BY <2>3, <4>1
    <3>3. QED
      BY <2>1, <3>1, <3>2
  <2>5. Budget(k)'
    <3>1. ASSUME NEW a \in DOMAIN grants'[k]
          PROVE  (Len(grants'[k]) - a + 1) * One(k) + tokens'[k]
                    <= Full(k) + (updated_at'[k] - grants'[k][a]) * Rate(k)
      BY <1>3, <1>6, <2>1, <2>4 DEF cost
    <3>2. QED
      BY <1>4, <3>1 DEF Budget
  <2>6. Burst(k)'
    <3>1. ASSUME NEW a \in 1..L + 1, NEW b \in 1..L + 1, a <= b
          PROVE  (b - a + 1) * cost <= Full(k) + (grants'[k][b] - grants'[k][a]) * Rate(k)
      <4>1. CASE b = L + 1
        BY <2>1, <2>4, <4>1
      <4>2. CASE b \in 1..L
        <5>1. a \in 1..L
          BY <1>1, <3>1, <4>2
        <5>2. QED
          BY <1>1, <2>1, <3>1, <4>2, <5>1 DEF Burst, cost
      <4>3. QED
        BY <2>1, <4>1, <4>2
    <3>2. QED
      BY <1>4, <2>1, <3>1 DEF Burst, cost
  <2>7. QED
    BY <2>5, <2>6
<1>7. CASE tokens'[k] <= R /\ tokens'[k] \in Int /\ grants'[k] = grants[k]
  <2>1. Budget(k)'
    <3>1. ASSUME NEW a \in 1..L
          PROVE  (L - a + 1) * cost + tokens'[k] <= Full(k) + (now - grants[k][a]) * Rate(k)
      <4> DEFINE x == (L - a + 1) * cost
                 y == (now - grants[k][a]) * Rate(k)
                 z == tokens'[k]
      <4>1. x \in Nat /\ y \in Nat /\ x + R <= Full(k) + y
        BY <1>5
      <4>2. z <= R /\ z \in Int
        BY <1>7
      <4> HIDE DEF x, y, z
      <4>3. x + z <= Full(k) + y
        BY <1>2, <4>1, <4>2
      <4>4. QED
        BY <4>3 DEF x, y, z
    <3>2. ASSUME NEW a \in DOMAIN grants'[k]
          PROVE  (Len(grants'[k]) - a + 1) * One(k) + tokens'[k]
                    <= Full(k) + (updated_at'[k] - grants'[k][a]) * Rate(k)
      BY <1>1, <1>3, <1>7, <3>1 DEF cost
    <3>3. QED
      BY <1>4, <3>2 DEF Budget
  <2>2. Burst(k)'
    BY <1>4, <1>7 DEF Burst
  <2>3. QED
    BY <2>1, <2>2
<1>8. QED
  BY <1>3, <1>6, <1>7

\* A run of the script for one identity leaves the others alone, and the clock
\* only lets requests grow older.
LEMMA Untouched ==
    ASSUME NEW k \in Identities, now \in Int, now' \in Int, now <= now',
           tokens'[k] = tokens[k], updated_at'[k] = updated_at[k],
           window'[k] = window[k], expires'[k] = expires[k], grants'[k] = grants[k]
    PROVE  History(k) /\ Budget(k) /\ Burst(k) => History(k)' /\ Budget(k)' /\ Burst(k)'
<1>1. /\ \A x : Full(x)' = Full(x) /\ One(x)' = One(x) /\ Rate(x)' = Rate(x)
      /\ \A x : Lifespan(x)' = Lifespan(x)
  BY DEF Full, One, Rate, Unit, Lifespan
<1>2. History(k) => History(k)'
  BY <1>1 DEF History
<1>3. Budget(k) => Budget(k)'
  BY <1>1 DEF Budget
<1>4. Burst(k) => Burst(k)'
  BY <1>1 DEF Burst
<1>5. QED
  BY <1>2, <1>3, <1>4

\* When clocks agree and requests are prompt, the limiter keeps its history
\* and its bounds, whatever is allowed, refused, sent again or expires.
THEOREM LimiterInvariantHolds ==
    ASSUME Prompt
    PROVE  LimiterSpec => []LimiterInvariant
<1>1. LimiterInit => LimiterInvariant
  <2> SUFFICES ASSUME LimiterInit PROVE LimiterInvariant
    OBVIOUS
  <2>1. LimiterTypes
    BY InitialTypes
  <2>2. ASSUME NEW k \in Identities PROVE History(k) /\ Budget(k) /\ Burst(k)
    <3>1. /\ grants[k] = <<>> /\ DOMAIN grants[k] = {} /\ DOMAIN window[k] = {}
          /\ now = 0 /\ updated_at[k] = 0 /\ expires[k] = 0
      BY DEF LimiterInit
    <3>2. QED
      BY <3>1 DEF History, Budget, Burst
  <2>3. QED
    BY <2>1, <2>2 DEF LimiterInvariant
<1>2. LimiterInvariant /\ [LimiterNext]_limiterVars => LimiterInvariant'
  <2> SUFFICES ASSUME LimiterInvariant, [LimiterNext]_limiterVars PROVE LimiterInvariant'
    OBVIOUS
  <2>1. LimiterTypes /\ \A k \in Identities : History(k) /\ Budget(k) /\ Burst(k)
    BY DEF LimiterInvariant
  <2>2. now \in Int
    BY <2>1, OffsetsAssumption DEF LimiterTypes, LimiterTypeOK
  <2>3. CASE Tick \/ UNCHANGED limiterVars
    <3>1. LimiterTypes'
      BY <2>1, <2>3, TickTypes
         DEF limiterVars, LimiterTypes, LimiterTypeOK, LimiterShape, Full, One, Lifespan
    <3>2. /\ now' \in Int /\ now <= now' /\ tokens' = tokens /\ updated_at' = updated_at
          /\ window' = window /\ expires' = expires /\ grants' = grants
      BY <2>2, <2>3 DEF Tick, limiterVars
    <3>3. QED
      BY <2>1, <2>2, <3>1, <3>2, Untouched DEF LimiterInvariant
  <2>4. ASSUME NEW k \in Identities,
               NEW n \in DOMAIN grants[k] \cup {NewMember(k)}, Execute(k, now, n),
               n \in DOMAIN grants[k] => n \in DOMAIN Pruned(k, now, now) /\ window[k][n] = now
        PROVE  LimiterInvariant'
    <3>1. LimiterTypes'
      BY <2>1, <2>2, <2>4, ExecuteTypes
    <3>2. History(k)' /\ Budget(k)' /\ Burst(k)'
      BY <2>1, <2>4, PromptRun, PromptBounds
    <3>3. ASSUME NEW j \in Identities \ {k}
          PROVE  History(j)' /\ Budget(j)' /\ Burst(j)'
      <4>1. /\ now' = now
            /\ tokens'[j] = tokens[j] /\ updated_at'[j] = updated_at[j]
            /\ window'[j] = window[j] /\ expires'[j] = expires[j] /\ grants'[j] = grants[j]
        BY <2>1, <2>2, <2>4, ExecuteEffect
      <4>2. QED
        BY <2>1, <2>2, <4>1, Untouched
    <3>4. QED
      BY <3>1, <3>2, <3>3 DEF LimiterInvariant
  <2>5. ASSUME NEW i \in Instances, NEW offset \in Offsets[i] PROVE now + offset = now
    BY <2>2, OffsetsAssumption DEF Prompt
  <2>6. QED
    BY <2>1, <2>3, <2>4, <2>5, LimiterSteps
<1>3. QED
  BY <1>1, <1>2, PTL DEF LimiterSpec

-----------------------------------------------------------------------------
\* The hard limit, also for requests that are late or sent again later

AllOffsets == UNION {Offsets[i] : i \in Instances}
Earliest == Min(AllOffsets)
Latest == Max(AllOffsets)

\* A finite set of integers that is not empty has a least and a greatest one.
LEMMA Extremes ==
    ASSUME NEW S \in SUBSET Int, IsFiniteSet(S), S # {}
    PROVE  /\ Min(S) \in S /\ \A x \in S : Min(S) <= x
           /\ Max(S) \in S /\ \A x \in S : x <= Max(S)
<1> DEFINE Less == StrictSubsetOrdering(S)
           Above(x) == {y \in S : x < y}
           Below(x) == {y \in S : y < x}
<1>1. IsWellFoundedOn(Less, SUBSET S)
  BY FS_StrictSubsetOrderingWellFounded, FS_FiniteSubsetsOfFinite
<1>2. \A T, U \in SUBSET S : T \subseteq U /\ T # U => <<T, U>> \in Less
  BY DEF StrictSubsetOrdering
<1> HIDE DEF Less
<1>3. \E x \in S : \A y \in S : x >= y
  <2> DEFINE T == {Above(x) : x \in S}
  <2>1. T \subseteq SUBSET S /\ T # {}
    OBVIOUS
  <2>2. PICK least \in T : \A other \in T : ~ (<<other, least>> \in Less)
    <3> HIDE DEF T
    <3>1. QED
      BY <1>1, <2>1, WFMin
  <2>3. PICK x \in S : least = Above(x)
    BY <2>2
  <2>4. ASSUME NEW y \in S, x < y PROVE FALSE
    <3>1. Above(y) \in SUBSET S /\ Above(x) \in SUBSET S /\ Above(y) \in T
      BY <2>4
    <3>2. ASSUME NEW z \in Above(y) PROVE z \in Above(x)
      <4>1. x \in Int /\ y \in Int /\ z \in Int
        OBVIOUS
      <4>2. QED
        BY <2>4, <4>1
    <3>3. y \in Above(x) /\ y \notin Above(y)
      BY <2>4
    <3>4. Above(y) # Above(x) /\ Above(y) \subseteq Above(x)
      BY <3>2, <3>3, Zenon
    <3>5. QED
      BY <1>2, <2>2, <2>3, <3>1, <3>4
  <2>5. QED
    BY <2>3, <2>4
<1>4. \E x \in S : \A y \in S : x <= y
  <2> DEFINE T == {Below(x) : x \in S}
  <2>1. T \subseteq SUBSET S /\ T # {}
    OBVIOUS
  <2>2. PICK least \in T : \A other \in T : ~ (<<other, least>> \in Less)
    <3> HIDE DEF T
    <3>1. QED
      BY <1>1, <2>1, WFMin
  <2>3. PICK x \in S : least = Below(x)
    BY <2>2
  <2>4. ASSUME NEW y \in S, y < x PROVE FALSE
    <3>1. Below(y) \in SUBSET S /\ Below(x) \in SUBSET S /\ Below(y) \in T
      BY <2>4
    <3>2. ASSUME NEW z \in Below(y) PROVE z \in Below(x)
      <4>1. x \in Int /\ y \in Int /\ z \in Int
        OBVIOUS
      <4>2. QED
        BY <2>4, <4>1
    <3>3. y \in Below(x) /\ y \notin Below(y)
      BY <2>4
    <3>4. Below(y) # Below(x) /\ Below(y) \subseteq Below(x)
      BY <3>2, <3>3, Zenon
    <3>5. QED
      BY <1>2, <2>2, <2>3, <3>1, <3>4
  <2>5. QED
    BY <2>3, <2>4
<1>5. Min(S) \in S /\ \A y \in S : Min(S) <= y
  BY <1>4 DEF Min
<1>6. Max(S) \in S /\ \A y \in S : Max(S) >= y
  BY <1>3 DEF Max
<1>7. QED
  BY <1>5, <1>6

\* The time of a request and the clock of Redis are Spread apart at most.
LEMMA OffsetRange ==
    /\ Earliest \in Int /\ Latest \in Int /\ Earliest <= Latest
    /\ Spread = Latest - Earliest /\ Spread \in Nat
    /\ \A i \in Instances : \A offset \in Offsets[i] :
          offset \in Int /\ Earliest <= offset /\ offset <= Latest
<1>1. /\ AllOffsets \in SUBSET Int /\ IsFiniteSet(AllOffsets) /\ AllOffsets # {}
      /\ \A i \in Instances : Offsets[i] \subseteq AllOffsets
  BY OffsetsAssumption DEF AllOffsets
<1>2. /\ Earliest \in AllOffsets /\ \A x \in AllOffsets : Earliest <= x
      /\ Latest \in AllOffsets /\ \A x \in AllOffsets : x <= Latest
  BY <1>1, Extremes DEF Earliest, Latest
<1>3. Spread = Latest - Earliest
  BY DEF Spread, Latest, Earliest, AllOffsets
<1>4. Earliest \in Int /\ Latest \in Int /\ Earliest <= Latest
  BY <1>1, <1>2
<1>5. ASSUME NEW i \in Instances, NEW offset \in Offsets[i]
      PROVE  offset \in Int /\ Earliest <= offset /\ offset <= Latest
  <2>1. offset \in AllOffsets
    BY <1>1
  <2>2. QED
    BY <1>1, <1>2, <2>1
<1>6. Spread \in Nat
  BY <1>3, <1>4
<1>7. QED
  BY <1>3, <1>4, <1>5, <1>6

\* The requests allowed lately are members of the window still, whenever the
\* script runs: their scores are at most Spread off, and the key lives on.
Kept(k) ==
    /\ \A n \in DOMAIN grants[k] :
          /\ grants[k][n] <= now /\ grants[k][n] + Window[k] <= expires[k]
          /\ now - grants[k][n] + Spread < Window[k]
                => n \in DOMAIN window[k] /\ grants[k][n] + Earliest <= window[k][n]
    /\ \A a, b \in DOMAIN grants[k] : a <= b => grants[k][a] <= grants[k][b]

\* HardLimit for one identity.
Hard(k) ==
    \A a, b \in DOMAIN grants[k] :
        a <= b /\ grants[k][b] - grants[k][a] + Spread < Window[k] => b - a + 1 <= Maximum[k]

HardInvariant == LimiterTypes /\ \A k \in Identities : Kept(k) /\ Hard(k)

\* No run of the script prunes a request allowed lately, whatever its time is.
LEMMA LatelyAllowed ==
    ASSUME LimiterTypes, NEW k \in Identities, Kept(k),
           NEW i \in Instances, NEW offset \in Offsets[i],
           NEW n \in DOMAIN grants[k], now - grants[k][n] + Spread < Window[k]
    PROVE  n \in DOMAIN Pruned(k, now, now + offset)
<1>1. /\ now \in Int /\ Window[k] \in Int /\ expires[k] \in Int /\ grants[k][n] \in Int
      /\ window[k] \in [DOMAIN window[k] -> Int]
  BY SingleValues
<1>2. /\ n \in DOMAIN window[k] /\ grants[k][n] + Earliest <= window[k][n]
      /\ grants[k][n] + Window[k] <= expires[k]
  BY DEF Kept
<1>3. window[k][n] \in Int
  BY <1>1, <1>2
<1>4. Exists(k, now) /\ window[k][n] > (now + offset) - Window[k]
  BY <1>1, <1>2, <1>3, OffsetRange DEF Exists
<1>5. DOMAIN Pruned(k, now, now + offset) =
         {m \in DOMAIN window[k] : Exists(k, now) /\ window[k][m] > (now + offset) - Window[k]}
  BY DEF Pruned, Restrict
<1>6. QED
  BY <1>2, <1>4, <1>5

\* A run keeps the requests allowed lately and, when it allows one more, has
\* counted all of them.
LEMMA HardRun ==
    ASSUME LimiterTypes, NEW k \in Identities, Kept(k), Hard(k),
           NEW i \in Instances, NEW offset \in Offsets[i],
           NEW n \in DOMAIN grants[k] \cup {NewMember(k)}, Execute(k, now + offset, n),
           n \in DOMAIN grants[k] => n \in DOMAIN Pruned(k, now, now + offset)
                                        /\ window[k][n] = now + offset
    PROVE  Kept(k)' /\ Hard(k)'
<1> DEFINE L == Len(grants[k])
           kept == Pruned(k, now, now + offset)
           Lately(m) == now - grants[k][m] + Spread < Window[k]
<1>1. /\ now \in 0..MaxTime /\ MaxTime \in Nat /\ L \in Nat /\ DOMAIN grants[k] = 1..L
      /\ grants[k] \in Seq(0..MaxTime) /\ \A m \in 1..L : grants[k][m] \in 0..MaxTime
      /\ Window[k] \in Nat \ {0} /\ Maximum[k] \in Nat \ {0}
      /\ Lifespan(k) \in Nat /\ Window[k] <= Lifespan(k)
  <2>1. grants[k] \in Seq(0..MaxTime) /\ MaxTime \in Nat /\ now \in 0..MaxTime
    BY OffsetsAssumption DEF LimiterTypes, LimiterShape, LimiterTypeOK
  <2>2. DOMAIN grants[k] = 1..L /\ L \in Nat /\ \A m \in 1..L : grants[k][m] \in 0..MaxTime
    BY <2>1
  <2>3. QED
    BY <2>1, <2>2, RuleValues
<1>2. /\ offset \in Int /\ Earliest <= offset /\ now + offset \in Int
      /\ Spread \in Nat /\ Earliest \in Int
  BY <1>1, OffsetRange
<1>3. /\ \A m \in 1..L : Lately(m) => /\ m \in DOMAIN kept
                                     /\ grants[k][m] + Earliest <= window[k][m]
      /\ \A m \in 1..L : grants[k][m] <= now
      /\ \A a, b \in 1..L : a <= b => grants[k][a] <= grants[k][b]
  BY <1>1, LatelyAllowed DEF Kept
<1>4. /\ DOMAIN kept \subseteq 1..L /\ IsFiniteSet(DOMAIN kept)
      /\ \A m \in DOMAIN kept : kept[m] = window[k][m]
      /\ Cardinality(DOMAIN kept) = Count(k, now, now + offset)
  <2>1. /\ kept = [m \in DOMAIN kept |-> window[k][m]]
        /\ DOMAIN kept \subseteq DOMAIN window[k] /\ DOMAIN window[k] \subseteq DOMAIN grants[k]
        /\ IsFiniteSet(DOMAIN kept)
    <3>1. now \in Int /\ now + offset \in Int
      BY <1>1, <1>2
    <3>2. QED
      BY <3>1, PrunedMembers
  <2>2. \A m \in DOMAIN kept : kept[m] = window[k][m]
    <3> DEFINE S == DOMAIN kept
    <3>1. kept = [m \in S |-> window[k][m]]
      BY <2>1
    <3>2. QED
      BY <3>1
  <2>3. QED
    BY <1>1, <2>1, <2>2 DEF Count
<1>5. /\ expires'[k] = now + Lifespan(k) /\ now' = now
      /\ \/ /\ Allowed(k, now, now + offset) /\ n = L + 1
            /\ window'[k] = WithMember(kept, L + 1, now + offset)
            /\ grants'[k] = Append(grants[k], now)
         \/ /\ n \in 1..L /\ window'[k] = WithMember(kept, n, now + offset)
            /\ grants'[k] = grants[k]
         \/ window'[k] = kept /\ grants'[k] = grants[k]
  <2>1. NewMember(k) = L + 1 /\ n \in DOMAIN grants[k] \cup {NewMember(k)}
    BY <1>1 DEF NewMember
  <2> HIDE DEF L, kept
  <2>2. QED
    BY <1>1, <1>2, <2>1, ExecuteEffect DEF L, kept
<1>6. n \in 1..L => n \in DOMAIN kept /\ kept[n] = now + offset
  BY <1>1, <1>4
<1>7. Spread' = Spread /\ Earliest' = Earliest
  BY DEF Spread, Earliest, AllOffsets
<1> HIDE DEF kept
<1>8. ASSUME NEW m PROVE /\ DOMAIN WithMember(kept, m, now + offset) = DOMAIN kept \cup {m}
                         /\ WithMember(kept, m, now + offset)[m] = now + offset
                         /\ \A o \in DOMAIN kept \ {m} :
                               WithMember(kept, m, now + offset)[o] = kept[o]
  BY DEF WithMember
<1>9. \A m \in DOMAIN kept : m \in DOMAIN window'[k] /\ window'[k][m] = window[k][m]
  <2>1. CASE window'[k] = WithMember(kept, L + 1, now + offset)
    <3>1. \A m \in DOMAIN kept : m \in DOMAIN kept \ {L + 1}
      BY <1>1, <1>4
    <3>2. \A m \in DOMAIN kept : m \in DOMAIN window'[k] /\ window'[k][m] = kept[m]
      BY <1>8, <2>1, <3>1
    <3>3. QED
      BY <1>4, <3>2
  <2>2. CASE n \in 1..L /\ window'[k] = WithMember(kept, n, now + offset)
    <3>1. \A m \in DOMAIN kept : m = n \/ m \in DOMAIN kept \ {n}
      OBVIOUS
    <3>2. QED
      BY <1>4, <1>6, <1>8, <2>2, <3>1
  <2>3. CASE window'[k] = kept
    BY <1>4, <2>3
  <2>4. QED
    BY <1>5, <2>1, <2>2, <2>3
<1>10. ASSUME NEW m \in 1..L
       PROVE  /\ grants[k][m] <= now /\ grants[k][m] + Window[k] <= expires'[k]
              /\ Lately(m) => m \in DOMAIN window'[k] /\ grants[k][m] + Earliest <= window'[k][m]
  <2>1. Lately(m) => m \in DOMAIN window'[k] /\ grants[k][m] + Earliest <= window'[k][m]
    BY <1>3, <1>9
  <2>2. grants[k][m] \in 0..MaxTime /\ grants[k][m] <= now
    BY <1>1, <1>3
  <2>3. grants[k][m] + Window[k] <= expires'[k]
    BY <1>1, <1>5, <2>2
  <2>4. QED
    BY <2>1, <2>2, <2>3
<1>11. CASE /\ Allowed(k, now, now + offset)
            /\ window'[k] = WithMember(kept, L + 1, now + offset)
            /\ grants'[k] = Append(grants[k], now)
  <2>1. /\ DOMAIN grants'[k] = 1..L + 1 /\ grants'[k][L + 1] = now
        /\ \A m \in 1..L : grants'[k][m] = grants[k][m]
        /\ \A m \in 1..L + 1 : m \in 1..L \/ m = L + 1
    BY <1>1, <1>11
  <2>2. L + 1 \in DOMAIN window'[k] /\ window'[k][L + 1] = now + offset
    BY <1>8, <1>11
  <2>3. Kept(k)'
    <3>1. ASSUME NEW m \in 1..L + 1
          PROVE  /\ grants'[k][m] <= now' /\ grants'[k][m] + Window[k] <= expires'[k]
                 /\ now' - grants'[k][m] + Spread < Window[k]
                      => m \in DOMAIN window'[k] /\ grants'[k][m] + Earliest <= window'[k][m]
      <4>1. CASE m \in 1..L
        BY <1>5, <1>10, <2>1, <4>1
      <4>2. CASE m = L + 1
        <5>1. grants'[k][m] = now /\ window'[k][m] = now + offset /\ m \in DOMAIN window'[k]
          BY <2>1, <2>2, <4>2
        <5>2. now + Earliest <= now + offset /\ now + Window[k] <= now + Lifespan(k)
          BY <1>1, <1>2
        <5>3. QED
          BY <1>1, <1>5, <5>1, <5>2
      <4>3. QED
        BY <2>1, <4>1, <4>2
    <3>2. ASSUME NEW a \in 1..L + 1, NEW b \in 1..L + 1, a <= b
          PROVE  grants'[k][a] <= grants'[k][b]
      <4>1. CASE b \in 1..L
        <5>1. a \in 1..L
          BY <1>1, <3>2, <4>1
        <5>2. QED
          BY <1>3, <2>1, <3>2, <4>1, <5>1
      <4>2. CASE b = L + 1
        <5>1. now <= now
          BY <1>1
        <5>2. QED
          BY <1>3, <2>1, <4>2, <5>1
      <4>3. QED
        BY <2>1, <4>1, <4>2
    <3>3. QED
      BY <1>7, <2>1, <3>1, <3>2 DEF Kept
  <2>4. ASSUME NEW a \in 1..L, Lately(a)
        PROVE  L - a + 1 < Maximum[k]
    <3>1. a..L \subseteq DOMAIN kept
      <4> SUFFICES ASSUME NEW m \in a..L PROVE m \in DOMAIN kept
        OBVIOUS
      <4>1. m \in 1..L /\ a <= m
        BY <1>1
      <4>2. grants[k][a] <= grants[k][m]
        BY <1>3, <4>1
      <4>3. Lately(m)
        <5> DEFINE x == grants[k][a]
                   y == grants[k][m]
        <5>1. now \in Int /\ Spread \in Int /\ Window[k] \in Int
          BY <1>1, <1>2
        <5>2. x \in 0..MaxTime /\ y \in 0..MaxTime /\ MaxTime \in Nat
          BY <1>1, <4>1
        <5>3. x <= y /\ now - x + Spread < Window[k]
          BY <2>4, <4>2
        <5> HIDE DEF x, y
        <5>4. now - y + Spread < Window[k]
          BY <5>1, <5>2, <5>3
        <5>5. QED
          BY <5>4 DEF y
      <4>4. QED
        BY <1>3, <4>1, <4>3
    <3>2. Cardinality(a..L) <= Cardinality(DOMAIN kept) /\ Cardinality(DOMAIN kept) \in Nat
      <4>1. Cardinality(a..L) <= Cardinality(DOMAIN kept)
        BY <1>4, <3>1, FS_Subset
      <4>2. QED
        BY <1>4, <4>1, FS_CardinalityType
    <3>3. Cardinality(a..L) = L - a + 1
      <4>1. a \in Int /\ L \in Int /\ ~(a > L)
        BY <1>1
      <4>2. Cardinality(a..L) = IF a > L THEN 0 ELSE L - a + 1
        BY <4>1, FS_Interval
      <4>3. QED
        BY <4>1, <4>2
    <3>4. Cardinality(DOMAIN kept) < Maximum[k]
      BY <1>4, <1>11 DEF Allowed
    <3>5. QED
      BY <1>1, <3>2, <3>3, <3>4
  <2>5. ASSUME NEW a \in 1..L + 1, NEW b \in 1..L + 1, a <= b,
               grants'[k][b] - grants'[k][a] + Spread < Window[k]
        PROVE  b - a + 1 <= Maximum[k]
    <3>1. CASE b \in 1..L
      <4>1. a \in 1..L
        BY <1>1, <2>5, <3>1
      <4>2. QED
        BY <1>1, <2>1, <2>5, <3>1, <4>1 DEF Hard
    <3>2. CASE b = L + 1 /\ a = L + 1
      BY <1>1, <3>2
    <3>3. CASE b = L + 1 /\ a \in 1..L
      <4>1. L - a + 1 < Maximum[k]
        BY <2>1, <2>4, <2>5, <3>3
      <4>2. QED
        BY <1>1, <3>3, <4>1
    <3>4. QED
      BY <2>1, <3>1, <3>2, <3>3
  <2>6. Hard(k)'
    BY <1>7, <2>1, <2>5 DEF Hard
  <2>7. QED
    BY <2>3, <2>6
<1>12. CASE grants'[k] = grants[k]
  <2>1. Kept(k)'
    BY <1>1, <1>3, <1>5, <1>7, <1>10, <1>12 DEF Kept
  <2>2. Hard(k)'
    BY <1>7, <1>12 DEF Hard
  <2>3. QED
    BY <2>1, <2>2
<1>13. QED
  BY <1>5, <1>11, <1>12

\* No rolling window holds more requests than the hard limit, whatever the
\* clocks of the instances are, however late a request reaches Redis and
\* however late it is sent again (redis.go:75-78): only by how far the times of
\* requests lie apart may the window be shorter.
THEOREM HardLimitHolds == LimiterSpec => []HardLimit
<1>1. LimiterInit => HardInvariant
  <2> SUFFICES ASSUME LimiterInit PROVE HardInvariant
    OBVIOUS
  <2>1. LimiterTypes
    BY InitialTypes
  <2>2. ASSUME NEW k \in Identities PROVE DOMAIN grants[k] = {}
    BY DEF LimiterInit
  <2>3. QED
    BY <2>1, <2>2 DEF HardInvariant, Kept, Hard
<1>2. HardInvariant /\ [LimiterNext]_limiterVars => HardInvariant'
  <2> SUFFICES ASSUME HardInvariant, [LimiterNext]_limiterVars PROVE HardInvariant'
    OBVIOUS
  <2>1. LimiterTypes /\ now \in Int /\ \A k \in Identities : Kept(k) /\ Hard(k)
    BY OffsetsAssumption DEF HardInvariant, LimiterTypes, LimiterTypeOK
  <2>2. ASSUME NEW k \in Identities, now' \in Int, now <= now',
               window'[k] = window[k], expires'[k] = expires[k], grants'[k] = grants[k]
        PROVE  Kept(k)' /\ Hard(k)'
    <3>1. Spread' = Spread /\ Earliest' = Earliest /\ Spread \in Nat
      BY OffsetRange DEF Spread, Earliest, AllOffsets
    <3>2. Hard(k)'
      BY <2>1, <2>2, <3>1 DEF Hard
    <3>3. ASSUME NEW n \in DOMAIN grants[k]
          PROVE  grants[k][n] \in Int /\ Window[k] \in Int
      <4>1. grants[k] \in Seq(0..MaxTime) /\ MaxTime \in Nat
        BY <2>1, OffsetsAssumption DEF LimiterTypes, LimiterShape
      <4>2. grants[k][n] \in 0..MaxTime
        BY <4>1
      <4>3. QED
        BY <4>1, <4>2, RuleValues
    <3>4. Kept(k)'
      BY <2>1, <2>2, <3>1, <3>3 DEF Kept
    <3>5. QED
      BY <3>2, <3>4
  <2>3. CASE Tick \/ UNCHANGED limiterVars
    <3>1. LimiterTypes'
      BY <2>1, <2>3, TickTypes
         DEF limiterVars, LimiterTypes, LimiterTypeOK, LimiterShape, Full, One, Lifespan
    <3>2. /\ now' \in Int /\ now <= now'
          /\ window' = window /\ expires' = expires /\ grants' = grants
      BY <2>1, <2>3 DEF Tick, limiterVars
    <3>3. QED
      BY <2>2, <3>1, <3>2 DEF HardInvariant
  <2>4. ASSUME NEW k \in Identities, NEW i \in Instances, NEW offset \in Offsets[i],
               NEW n \in DOMAIN grants[k] \cup {NewMember(k)}, now + offset \in Int,
               n \in DOMAIN grants[k] => n \in DOMAIN Pruned(k, now, now + offset)
                                            /\ window[k][n] = now + offset,
               Execute(k, now + offset, n)
        PROVE  HardInvariant'
    <3>1. LimiterTypes'
      BY <2>1, <2>4, ExecuteTypes
    <3>2. Kept(k)' /\ Hard(k)'
      BY <2>1, <2>4, HardRun
    <3>3. ASSUME NEW j \in Identities \ {k}
          PROVE  /\ now' = now /\ window'[j] = window[j]
                 /\ expires'[j] = expires[j] /\ grants'[j] = grants[j]
      BY <2>1, <2>4, ExecuteEffect
    <3>4. QED
      BY <2>1, <2>2, <3>1, <3>2, <3>3 DEF HardInvariant
  <2>5. QED
    BY <2>1, <2>3, <2>4, LimiterSteps
<1>3. HardInvariant => HardLimit
  BY DEF HardInvariant, Hard, HardLimit
<1>4. QED
  BY <1>1, <1>2, <1>3, PTL DEF LimiterSpec

\* Between any two allowed requests there are no more than the immediate
\* allowance and what the time between them restores, for every rule, clock and
\* history of prompt requests (redis.go:70-73).
THEOREM BurstBoundHolds ==
    ASSUME Prompt
    PROVE  LimiterSpec => []BurstBound
<1>1. LimiterInvariant => BurstBound
  <2> SUFFICES ASSUME LimiterInvariant PROVE BurstBound
    OBVIOUS
  <2>1. Spread = 0
    <3>1. AllOffsets = {0}
      BY OffsetsAssumption DEF Prompt, AllOffsets
    <3>2. Max({0}) = 0 /\ Min({0}) = 0
      <4>1. {0} \in SUBSET Int /\ {0} # {} /\ IsFiniteSet({0})
        BY FS_Singleton
      <4>2. Max({0}) \in {0} /\ Min({0}) \in {0}
        BY <4>1, Extremes
      <4>3. QED
        BY <4>2
    <3>3. QED
      BY <3>1, <3>2, OffsetRange DEF Earliest, Latest
  <2>2. ASSUME NEW k \in Identities, NEW a \in DOMAIN grants[k], NEW b \in DOMAIN grants[k],
               a <= b
        PROVE  (b - a + 1) * One(k)
                  <= Full(k) + (grants[k][b] - grants[k][a] + Spread) * (Unit(k) + 2 * Error)
    <3>1. grants[k] \in Seq(0..MaxTime) /\ MaxTime \in Nat
      BY OffsetsAssumption DEF LimiterInvariant, LimiterTypes, LimiterShape
    <3>2. \A m \in DOMAIN grants[k] : grants[k][m] \in 0..MaxTime
      BY <3>1
    <3>3. grants[k][b] - grants[k][a] + Spread = grants[k][b] - grants[k][a]
      BY <2>1, <3>1, <3>2
    <3>4. QED
      BY <2>2, <3>3 DEF LimiterInvariant, Burst, Rate
  <2>3. QED
    BY <2>2 DEF BurstBound
<1>2. QED
  BY <1>1, LimiterInvariantHolds, PTL

-----------------------------------------------------------------------------
\* Retry times

\* Division rounds down.
LEMMA Quotient ==
    ASSUME NEW x \in Nat, NEW y \in Nat \ {0}
    PROVE  x \div y \in Nat /\ (x \div y) * y <= x /\ x < (x \div y + 1) * y
  OBVIOUS

\* The rounded-up quotient is the least factor that reaches x.
LEMMA RoundedUp ==
    ASSUME NEW x \in Nat \ {0}, NEW y \in Nat \ {0}
    PROVE  /\ (x + y - 1) \div y \in Nat \ {0}
           /\ ((x + y - 1) \div y) * y < x + y
           /\ \A d \in Nat : d * y >= x <=> d >= (x + y - 1) \div y
<1> DEFINE q == (x + y - 1) \div y
<1>1. q \in Nat /\ q * y <= x + y - 1 /\ x + y - 1 < (q + 1) * y
  <2>1. x + y - 1 \in Nat
    OBVIOUS
  <2>2. QED
    BY <2>1, Quotient
<1> HIDE DEF q
<1>2. (q + 1) * y = q * y + y /\ q * y \in Nat
  BY <1>1, OneMore
<1>3. x <= q * y
  BY <1>1, <1>2
<1>4. q # 0
  <2>1. 0 * y = 0
    OBVIOUS
  <2>2. QED
    BY <1>3, <2>1
<1>5. ASSUME NEW d \in Nat, d >= q PROVE d * y >= x
  <2>1. q * y <= d * y /\ d * y \in Nat
    BY <1>1, <1>5, Products
  <2>2. QED
    BY <1>2, <1>3, <2>1
<1>6. ASSUME NEW d \in Nat, ~(d >= q) PROVE ~(d * y >= x)
  <2>1. d + 1 <= q /\ d + 1 \in Nat
    BY <1>1, <1>6
  <2>2. (d + 1) * y <= q * y
    BY <1>1, <2>1, Products
  <2>3. (d + 1) * y = d * y + y /\ d * y \in Nat
    BY OneMore
  <2>4. QED
    BY <1>1, <1>2, <2>2, <2>3
<1>7. QED
  BY <1>1, <1>2, <1>4, <1>5, <1>6 DEF q

\* A nonempty set of naturals has a least one (ZRANGE 0 0 finds the oldest
\* member of the window).
LEMMA LeastOfNaturals ==
    ASSUME NEW S \in SUBSET Nat, S # {}
    PROVE  Min(S) \in S /\ \A m \in S : Min(S) <= m
<1> DEFINE R == OpToRel(<, Nat)
<1>1. IsWellFoundedOn(R, Nat)
  BY NatLessThanWellFounded
<1>2. \A x, y \in Nat : <<x, y>> \in R <=> x < y
  BY DEF OpToRel
<1> HIDE DEF R
<1>3. PICK n \in S : \A m \in S : ~ (<<m, n>> \in R)
  BY <1>1, WFMin
<1>4. ASSUME NEW m \in S PROVE n <= m
  <2>1. m \in Nat /\ n \in Nat
    OBVIOUS
  <2>2. ~ (m < n)
    BY <1>2, <1>3, <2>1
  <2>3. QED
    BY <2>1, <2>2
<1>5. \E x \in S : \A y \in S : x <= y
  BY <1>4
<1>6. QED
  BY <1>5 DEF Min

\* The members still in the window d clock units from now.
MembersIn(k, d) == {n \in DOMAIN grants[k] : grants[k][n] + Window[k] > now + d}

\* How long the hard limit keeps refusing: until the oldest member of a full
\* window leaves it (lines 58-64).
LEMMA WindowWait ==
    ASSUME LimiterTypes, NEW k \in Identities, History(k)
    PROVE  /\ WindowRetry(k, now, now) \in Nat
           /\ Count(k, now, now) >= Maximum[k] => WindowRetry(k, now, now) > 0
           /\ \A d \in Nat : Count(k, now + d, now + d) < Maximum[k]
                                 <=> d >= WindowRetry(k, now, now)
<1> DEFINE kept == Pruned(k, now, now)
<1>1. /\ now \in Nat /\ now \in Int /\ now + 0 = now
      /\ \A n \in DOMAIN grants[k] : grants[k][n] \in Nat
      /\ Window[k] \in Nat /\ Maximum[k] \in Nat \ {0}
  <2>1. grants[k] \in Seq(0..MaxTime) /\ MaxTime \in Nat /\ now \in 0..MaxTime
    BY OffsetsAssumption DEF LimiterTypes, LimiterShape, LimiterTypeOK
  <2>2. \A n \in DOMAIN grants[k] : grants[k][n] \in 0..MaxTime
    BY <2>1
  <2>3. QED
    BY <2>1, <2>2, RuleValues
<1>2. ASSUME NEW d \in Nat
      PROVE  /\ DOMAIN Pruned(k, now + d, now + d) = MembersIn(k, d)
             /\ IsFiniteSet(MembersIn(k, d))
             /\ Cardinality(MembersIn(k, d)) = Count(k, now + d, now + d)
             /\ Count(k, now + d, now + d) \in Nat
             /\ Count(k, now + d, now + d) <= Maximum[k]
  <2>1. now + d \in Int
    BY <1>1
  <2>2. DOMAIN Pruned(k, now + d, now + d) = MembersIn(k, d)
    BY RecentMembers DEF MembersIn
  <2>3. /\ IsFiniteSet(DOMAIN Pruned(k, now + d, now + d))
        /\ Count(k, now + d, now + d) \in Nat
        /\ Count(k, now + d, now + d) <= Maximum[k]
    BY <2>1, PrunedMembers
  <2>4. QED
    BY <2>2, <2>3 DEF Count
<1>3. /\ DOMAIN kept = MembersIn(k, 0) /\ IsFiniteSet(MembersIn(k, 0))
      /\ \A n \in MembersIn(k, 0) : kept[n] = grants[k][n]
      /\ Cardinality(MembersIn(k, 0)) = Count(k, now, now)
      /\ Count(k, now, now) \in Nat /\ Count(k, now, now) <= Maximum[k]
  <2>1. \A n \in DOMAIN Pruned(k, now + 0, now + 0) :
           Pruned(k, now + 0, now + 0)[n] = grants[k][n]
    BY RecentMembers
  <2>2. QED
    BY <1>1, <1>2, <2>1
<1>4. ASSUME NEW d \in Nat PROVE MembersIn(k, d) \subseteq MembersIn(k, 0)
  BY <1>1 DEF MembersIn
<1>5. CASE Count(k, now, now) < Maximum[k]
  <2>1. ASSUME NEW d \in Nat PROVE Count(k, now + d, now + d) < Maximum[k]
    <3>1. Cardinality(MembersIn(k, d)) <= Cardinality(MembersIn(k, 0))
      BY <1>3, <1>4, FS_Subset
    <3>2. QED
      BY <1>1, <1>2, <1>3, <1>5, <3>1
  <2>2. QED
    BY <1>1, <1>3, <1>5, <2>1 DEF WindowRetry
<1>6. CASE ~ (Count(k, now, now) < Maximum[k])
  <2> DEFINE scores == Range(kept)
             oldest == Min(scores)
  <2>1. scores = {grants[k][n] : n \in MembersIn(k, 0)}
    BY <1>3 DEF Range
  <2>2. MembersIn(k, 0) # {}
    BY <1>1, <1>3, <1>6, FS_EmptySet
  <2>3. scores \in SUBSET Nat /\ scores # {}
    BY <1>1, <2>1, <2>2 DEF MembersIn
  <2>4. oldest \in scores /\ \A m \in scores : oldest <= m
    BY <2>3, LeastOfNaturals
  <2>5. PICK first \in MembersIn(k, 0) : grants[k][first] = oldest
    BY <2>1, <2>4
  <2>6. \A n \in MembersIn(k, 0) : oldest <= grants[k][n] /\ grants[k][n] \in Nat
    BY <1>1, <2>1, <2>4 DEF MembersIn
  <2>7. oldest \in Nat /\ oldest + Window[k] > now
    BY <1>1, <2>5 DEF MembersIn
  <2> HIDE DEF oldest, scores
  <2> DEFINE wait == oldest + Window[k] - now
  <2>8. wait \in Nat /\ wait > 0 /\ Greater(0, wait) = wait
    BY <1>1, <2>7 DEF Greater
  <2>9. ASSUME NEW d \in Nat, d >= wait PROVE Count(k, now + d, now + d) < Maximum[k]
    <3>1. ~ (oldest + Window[k] > now + d)
      BY <1>1, <2>7, <2>9
    <3>2. MembersIn(k, d) \subseteq MembersIn(k, 0) \ {first}
      BY <1>4, <2>5, <3>1 DEF MembersIn
    <3>3. /\ IsFiniteSet(MembersIn(k, 0) \ {first})
          /\ Cardinality(MembersIn(k, 0) \ {first}) = Count(k, now, now) - 1
      BY <1>3, FS_RemoveElement
    <3>4. Cardinality(MembersIn(k, d)) <= Cardinality(MembersIn(k, 0) \ {first})
      BY <3>2, <3>3, FS_Subset
    <3>5. QED
      BY <1>1, <1>2, <1>3, <3>3, <3>4
  <2>10. ASSUME NEW d \in Nat, ~ (d >= wait) PROVE ~ (Count(k, now + d, now + d) < Maximum[k])
    <3>1. oldest + Window[k] > now + d
      BY <1>1, <2>7, <2>10
    <3>2. \A n \in MembersIn(k, 0) : grants[k][n] + Window[k] > now + d
      BY <1>1, <2>6, <2>7, <3>1
    <3>3. MembersIn(k, 0) \subseteq MembersIn(k, d)
      BY <3>2 DEF MembersIn
    <3>4. MembersIn(k, 0) = MembersIn(k, d)
      BY <1>4, <3>3
    <3>5. QED
      BY <1>2, <1>3, <1>6, <3>4
  <2>11. WindowRetry(k, now, now) = wait
    BY <1>6, <2>8 DEF WindowRetry, oldest, scores
  <2>12. QED
    BY <2>8, <2>9, <2>10, <2>11
<1>7. QED
  BY <1>5, <1>6

\* How long the bucket keeps refusing: until it holds a whole token again, to
\* one clock unit (lines 54-57).
LEMMA TokenWait ==
    ASSUME LimiterTypes, NEW k \in Identities, History(k)
    PROVE  LET wait == TokenRetry(k, now, now)
           IN  /\ wait \in Nat
               /\ Refilled(k, now, now) < One(k) => wait > 0
               /\ \A d \in Nat :
                    /\ d >= wait + 1 => Refilled(k, now + d, now + d) >= One(k)
                    /\ d + 2 <= wait => Refilled(k, now + d, now + d) < One(k)
<1> DEFINE left == Refilled(k, now, now)
           exact == Unrounded(k, now, now)
           wait == TokenRetry(k, now, now)
           u == Unit(k)
           one == One(k)
           F == Full(k)
           raw == tokens[k] + Elapsed(k, now) * u
<1>1. /\ now \in Nat /\ updated_at[k] \in 0..now /\ tokens[k] \in Nat /\ expires[k] \in Nat
      /\ F \in Nat /\ one \in Nat \ {0} /\ one <= F
      /\ u \in Nat \ {0} /\ Error \in Nat /\ 5 * Error <= u
  BY OffsetsAssumption, RuleValues
     DEF LimiterTypes, LimiterTypeOK, LimiterShape, History
<1>2. /\ left \in 0..F /\ exact \in 0..F
      /\ left <= exact + 2 * Error /\ exact <= left + 2 * Error
      /\ left < F => Exists(k, now) /\ raw <= left + 2 * Error
      /\ Exists(k, now) => exact <= raw
      /\ raw \in Nat
  <2>1. now \in Int
    BY <1>1
  <2>2. Elapsed(k, now) * u \in Nat
    BY <2>1, ElapsedTime
  <2>3. Exists(k, now) => exact = Lesser(F, raw)
    BY DEF Unrounded
  <2>4. raw \in Nat
    BY <1>1, <2>2
  <2>5. Exists(k, now) => exact <= raw
    <3> HIDE DEF raw, exact
    <3>1. QED
      BY <1>1, <2>3, <2>4 DEF Lesser
  <2>6. QED
    BY <2>1, <2>4, <2>5, RefillBounds
<1>3. ASSUME NEW d \in Nat
      PROVE  /\ d * u \in Nat
             /\ Refilled(k, now + d, now + d) \in 0..F
             /\ Refilled(k, now + d, now + d) <= exact + d * u + 2 * Error
             /\ Refilled(k, now + d, now + d) < F =>
                  /\ Exists(k, now)
                  /\ raw + d * u <= Refilled(k, now + d, now + d) + 2 * Error
  <2> DEFINE after == Refilled(k, now + d, now + d)
             later == Unrounded(k, now + d, now + d)
             x == d * u
  <2>1. now + d \in Int /\ x \in Nat
    BY <1>1, Products
  <2>2. /\ after \in 0..F /\ after <= later + 2 * Error /\ later \in 0..F
        /\ after < F => /\ Exists(k, now + d)
                        /\ tokens[k] + Elapsed(k, now + d) * u <= after + 2 * Error
    BY <2>1, RefillBounds
  <2>3. later = Lesser(F, exact + x)
    BY RefillOver
  <2>4. tokens[k] + Elapsed(k, now + d) * u = raw + x
    <3>1. Elapsed(k, now + d) = Elapsed(k, now) + d /\ Elapsed(k, now) \in Nat
      BY <1>1 DEF Elapsed, Greater
    <3>2. /\ (Elapsed(k, now) + d) * u = Elapsed(k, now) * u + x
          /\ Elapsed(k, now) * u \in Nat
      BY <1>1, <3>1, Products
    <3> DEFINE y == Elapsed(k, now) * u
    <3>3. Elapsed(k, now + d) * u = y + x /\ y \in Nat
      BY <3>1, <3>2
    <3> HIDE DEF y, x
    <3>4. tokens[k] + (y + x) = (tokens[k] + y) + x
      BY <1>1, <2>1, <3>3
    <3>5. QED
      BY <3>3, <3>4 DEF y
  <2>5. Exists(k, now + d) => Exists(k, now)
    BY <1>1 DEF Exists
  <2>6. after <= exact + x + 2 * Error
    <3> HIDE DEF after, exact, x, later
    <3>1. QED
      BY <1>1, <1>2, <2>1, <2>2, <2>3 DEF Lesser
  <2>7. QED
    BY <2>1, <2>2, <2>4, <2>5, <2>6
<1>4. CASE left >= one
  <2>1. wait = 0
    BY <1>4 DEF TokenRetry
  <2>2. ASSUME NEW d \in Nat, d >= 1 PROVE Refilled(k, now + d, now + d) >= one
    <3> DEFINE x == d * u
               after == Refilled(k, now + d, now + d)
    <3>1. x \in Nat /\ u <= x
      BY <1>1, <2>2, Products
    <3>2. after \in 0..F /\ (after < F => Exists(k, now) /\ raw + x <= after + 2 * Error)
      BY <1>3
    <3> HIDE DEF x, after, raw, left, exact, u, one, F
    <3>3. after >= one
      BY <1>1, <1>2, <1>4, <3>1, <3>2
    <3>4. QED
      BY <3>3 DEF after
  <2>3. QED
    BY <1>1, <1>2, <1>4, <2>1, <2>2
<1>5. CASE ~(left >= one)
  <2> DEFINE z == Waited[k][one - left]
  <2>1. one - left \in 1..one
    <3> HIDE DEF left, one
    <3>1. QED
      BY <1>1, <1>2, <1>5
  <2>2. z \in Nat \ {0} /\ z <= one - left + Error /\ one - left - Error <= z
    <3>1. z \in Nat \ {0} /\ z \in (one - left - Error)..(one - left + Error)
      BY <2>1, ArithmeticAssumption
    <3> HIDE DEF z, left, one
    <3>2. QED
      BY <1>1, <1>2, <3>1
  <2>3. wait = (z + u - 1) \div u
    BY <1>5 DEF TokenRetry
  <2> HIDE DEF z
  <2>4. wait \in Nat \ {0} /\ \A d \in Nat : d * u >= z <=> d >= wait
    BY <1>1, <2>2, <2>3, RoundedUp
  <2> HIDE DEF wait
  <2>5. ASSUME NEW d \in Nat, d >= wait + 1
        PROVE  Refilled(k, now + d, now + d) >= one
    <3> DEFINE x == d * u
               after == Refilled(k, now + d, now + d)
    <3>1. d - 1 \in Nat /\ d - 1 >= wait
      BY <2>4, <2>5
    <3>2. (d - 1) * u >= z /\ (d - 1) * u = x - 1 * u /\ 1 * u = u /\ x \in Nat
      BY <1>1, <2>4, <3>1, Products
    <3>3. x - u >= z
      BY <3>2
    <3>4. after \in 0..F /\ (after < F => Exists(k, now) /\ raw + x <= after + 2 * Error)
      BY <1>3
    <3> HIDE DEF x, after, raw, left, exact, u, one, F
    <3>5. after >= one
      BY <1>1, <1>2, <2>2, <3>2, <3>3, <3>4
    <3>6. QED
      BY <3>5 DEF after
  <2>6. ASSUME NEW d \in Nat, d + 2 <= wait
        PROVE  Refilled(k, now + d, now + d) < one
    <3> DEFINE x == d * u
               after == Refilled(k, now + d, now + d)
    <3>1. d + 1 \in Nat /\ ~(d + 1 >= wait)
      BY <2>4, <2>6
    <3>2. ~((d + 1) * u >= z)
      BY <2>4, <3>1
    <3>3. (d + 1) * u = x + u /\ x \in Nat
      BY <1>1, OneMore
    <3>4. after \in 0..F /\ after <= exact + x + 2 * Error
      BY <1>3
    <3> HIDE DEF x, after, raw, left, exact, u, one, F
    <3>5. after < one
      BY <1>1, <1>2, <2>2, <3>2, <3>3, <3>4
    <3>6. QED
      BY <3>5 DEF after
  <2>7. QED
    BY <2>4, <2>5, <2>6 DEF wait
<1>6. QED
  BY <1>4, <1>5

\* A request made d clock units from now, with none in between, is allowed when
\* the retry time is over, and refused before, to one clock unit.
LEMMA RetryTime ==
    ASSUME LimiterTypes, NEW k \in Identities, History(k), ~Allowed(k, now, now)
    PROVE  /\ RetryAfter(k, now, now) \in Nat \ {0}
           /\ \A d \in Nat :
                /\ d >= RetryAfter(k, now, now) + 1 => Allowed(k, now + d, now + d)
                /\ d + 2 <= RetryAfter(k, now, now) => ~Allowed(k, now + d, now + d)
<1> DEFINE left == Refilled(k, now, now)
           byToken == TokenRetry(k, now, now)
           byWindow == WindowRetry(k, now, now)
<1>1. RetryAfter(k, now, now) = Greater(byToken, byWindow)
  BY DEF RetryAfter
<1>2. /\ left \in Nat /\ One(k) \in Nat
      /\ Count(k, now, now) \in Nat /\ Maximum[k] \in Nat
      /\ \A d \in Nat : /\ Refilled(k, now + d, now + d) \in Nat
                        /\ Count(k, now + d, now + d) \in Nat
  <2>1. now \in Int /\ Full(k) \in Nat
    BY OffsetsAssumption, RuleValues DEF LimiterTypes, LimiterTypeOK
  <2>2. \A t \in Int : Refilled(k, t, t) \in 0..Full(k) /\ Count(k, t, t) \in Nat
    BY RefillBounds, PrunedMembers
  <2>3. \A d \in Nat : now + d \in Int
    BY <2>1
  <2>4. QED
    BY <2>1, <2>2, <2>3, RuleValues
<1>3. /\ byToken \in Nat
      /\ left < One(k) => byToken > 0
      /\ \A d \in Nat : /\ d >= byToken + 1 => Refilled(k, now + d, now + d) >= One(k)
                        /\ d + 2 <= byToken => Refilled(k, now + d, now + d) < One(k)
  BY TokenWait
<1>4. /\ byWindow \in Nat
      /\ Count(k, now, now) >= Maximum[k] => byWindow > 0
      /\ \A d \in Nat : Count(k, now + d, now + d) < Maximum[k] <=> d >= byWindow
  BY WindowWait
<1>5. left < One(k) \/ Count(k, now, now) >= Maximum[k]
  <2>1. ~ (left >= One(k)) \/ ~ (Count(k, now, now) < Maximum[k])
    BY DEF Allowed
  <2> HIDE DEF left
  <2>2. QED
    BY <1>2, <2>1
<1> HIDE DEF byToken, byWindow, left
<1>6. Greater(byToken, byWindow) \in Nat \ {0}
  BY <1>2, <1>3, <1>4, <1>5 DEF Greater
<1>7. ASSUME NEW d \in Nat, d >= Greater(byToken, byWindow) + 1
      PROVE  Allowed(k, now + d, now + d)
  <2>1. d >= byToken + 1 /\ d >= byWindow
    BY <1>3, <1>4, <1>7 DEF Greater
  <2>2. QED
    BY <1>3, <1>4, <2>1 DEF Allowed
<1>8. ASSUME NEW d \in Nat, d + 2 <= Greater(byToken, byWindow)
      PROVE  ~Allowed(k, now + d, now + d)
  <2>1. d + 2 <= byToken \/ ~(d >= byWindow)
    BY <1>3, <1>4, <1>8 DEF Greater
  <2>2. ~(Refilled(k, now + d, now + d) >= One(k)) \/ ~(Count(k, now + d, now + d) < Maximum[k])
    <3>1. CASE d + 2 <= byToken
      BY <1>2, <1>3, <3>1
    <3>2. CASE ~(d >= byWindow)
      BY <1>4, <3>2
    <3>3. QED
      BY <2>1, <3>1, <3>2
  <2>3. QED
    BY <2>2 DEF Allowed
<1>9. QED
  BY <1>1, <1>6, <1>7, <1>8

\* The retry time the script returns is right to one clock unit for every rule:
\* nobody who comes a unit after it, or after as many seconds as the header
\* says, is refused again, and nobody who comes more than a unit before it is
\* allowed (redis.go:54-66, rate_limit.go:48).
THEOREM RetryTimesClose ==
    ASSUME Prompt
    PROVE  LimiterSpec => []RetryAfterClose
<1>1. LimiterInvariant => RetryAfterClose
  <2> SUFFICES ASSUME LimiterInvariant, NEW k \in Identities, ~Allowed(k, now, now)
               PROVE  LET wait == RetryAfter(k, now, now)
                          header == RetryAfterSeconds(wait) * Second
                      IN  /\ wait > 0
                          /\ Allowed(k, now + wait + 1, now + wait + 1)
                          /\ \A t \in now..(now + wait - 2) : ~Allowed(k, t, t)
                          /\ Allowed(k, now + header + 1, now + header + 1)
                          /\ wait <= header /\ header < wait + Second
    BY DEF RetryAfterClose
  <2> DEFINE wait == RetryAfter(k, now, now)
             header == RetryAfterSeconds(wait) * Second
  <2>1. /\ wait \in Nat \ {0}
        /\ \A d \in Nat : /\ d >= wait + 1 => Allowed(k, now + d, now + d)
                          /\ d + 2 <= wait => ~Allowed(k, now + d, now + d)
    BY RetryTime DEF LimiterInvariant
  <2>2. now \in Nat /\ Second \in Nat \ {0}
    BY OffsetsAssumption DEF LimiterInvariant, LimiterTypes, LimiterTypeOK
  <2> HIDE DEF wait
  <2>3. ASSUME NEW t \in now..(now + wait - 2) PROVE ~Allowed(k, t, t)
    <3>1. t - now \in Nat /\ now + (t - now) = t /\ (t - now) + 2 <= wait
      BY <2>1, <2>2
    <3>2. ~Allowed(k, now + (t - now), now + (t - now))
      BY <2>1, <3>1
    <3>3. QED
      BY <3>1, <3>2
  <2>4. header \in Nat /\ header >= wait /\ header < wait + Second
    <3> DEFINE seconds == (wait + Second - 1) \div Second
    <3>1. /\ seconds \in Nat \ {0} /\ seconds * Second < wait + Second
          /\ seconds * Second >= wait <=> seconds >= seconds
      BY <2>1, <2>2, RoundedUp
    <3>2. RetryAfterSeconds(wait) = seconds
      BY <3>1 DEF RetryAfterSeconds, Greater
    <3>3. seconds * Second \in Nat
      BY <2>2, <3>1, Products
    <3>4. QED
      BY <3>1, <3>2, <3>3
  <2> HIDE DEF header
  <2>5. ASSUME NEW d \in Nat, d >= wait PROVE Allowed(k, now + d + 1, now + d + 1)
    <3>1. d + 1 \in Nat /\ d + 1 >= wait + 1 /\ now + (d + 1) = now + d + 1
      BY <2>1, <2>2, <2>5
    <3>2. Allowed(k, now + (d + 1), now + (d + 1))
      BY <2>1, <3>1
    <3>3. QED
      BY <3>1, <3>2
  <2>6. Allowed(k, now + header + 1, now + header + 1) /\ Allowed(k, now + wait + 1, now + wait + 1)
    BY <2>1, <2>4, <2>5
  <2>7. QED
    BY <2>1, <2>3, <2>4, <2>6 DEF wait, header
<1>2. QED
  BY <1>1, LimiterInvariantHolds, PTL

-----------------------------------------------------------------------------
\* Refinement of the continuous limiter

\* What the continuous limiter holds for each identity.
Allowance == [k \in Identities |-> Unrounded(k, now, now)]

\* The requests it counts are the members the script leaves in the window.
LEMMA SameRecent ==
    ASSUME LimiterInvariant, NEW k \in Identities
    PROVE  Ideal!Recent(k) = Count(k, now, now)
<1>1. LimiterTypes /\ History(k)
  BY DEF LimiterInvariant
<1>2. now + 0 = now
  BY <1>1, OffsetsAssumption DEF LimiterTypes, LimiterTypeOK
<1>3. DOMAIN Pruned(k, now + 0, now + 0) =
         {n \in DOMAIN grants[k] : grants[k][n] + Window[k] > now + 0}
  BY <1>1, RecentMembers
<1>4. QED
  <2>1. DOMAIN Pruned(k, now, now) =
           {n \in DOMAIN grants[k] : grants[k][n] + Window[k] > now}
    BY <1>2, <1>3
  <2>2. Ideal!Recent(k) =
           Cardinality({n \in DOMAIN grants[k] : grants[k][n] + Window[k] > now})
    BY DEF Ideal!Recent, Ideal!Cardinality, Cardinality, Ideal!IsFiniteSet, IsFiniteSet
  <2>3. QED
    BY <2>1, <2>2 DEF Count

\* One run of the script is one request of the continuous limiter, or the
\* repetition of one it allowed this very moment.  What the script refills the
\* bucket to is one of the readings of the allowance.
LEMMA RunRefines ==
    ASSUME LimiterInvariant, NEW k \in Identities,
           NEW n \in DOMAIN grants[k] \cup {NewMember(k)}, Execute(k, now, n),
           n \in DOMAIN grants[k] => n \in DOMAIN Pruned(k, now, now) /\ window[k][n] = now
    PROVE  Ideal!Request(k) \/ Ideal!Repeat(k)
<1> DEFINE left == Refilled(k, now, now)
<1>1. /\ LimiterTypes /\ \A j \in Identities : History(j)
      /\ now \in Int
  BY OffsetsAssumption DEF LimiterInvariant, LimiterTypes, LimiterTypeOK
<1>2. /\ now' = now
      /\ \A j \in Identities \ {k} : Unrounded(j, now, now)' = Unrounded(j, now, now)
  <2>1. now' = now
    BY <1>1, ExecuteEffect
  <2>2. ASSUME NEW j \in Identities \ {k} PROVE Unrounded(j, now, now)' = Unrounded(j, now, now)
    <3>1. tokens'[j] = tokens[j] /\ updated_at'[j] = updated_at[j] /\ expires'[j] = expires[j]
      BY <1>1, ExecuteEffect
    <3>2. QED
      BY <2>1, <3>1 DEF Unrounded, Exists, Elapsed, Full, One, Unit, Lesser, Greater
  <2>3. QED
    BY <2>1, <2>2
<1>3. ASSUME NEW v, Unrounded(k, now, now)' = v
      PROVE  Allowance' = [Allowance EXCEPT ![k] = v]
  BY <1>2, <1>3 DEF Allowance
<1>4. /\ grants' = [grants EXCEPT ![k] = grants'[k]]
      /\ answer' = [answer EXCEPT ![k] = answer'[k]]
  BY <1>1 DEF Execute, Write, LimiterTypes, LimiterShape
<1>5. /\ Unrounded(k, now, now)' = tokens'[k]
      /\ grants = [grants EXCEPT ![k] = grants[k]]
  BY <1>1, PromptRun DEF LimiterTypes, LimiterShape
<1>6. /\ Ideal!One(k) = One(k) /\ Ideal!Full(k) = Full(k)
      /\ Allowed(k, now, now) <=> left >= Ideal!One(k) /\ Ideal!Recent(k) < Maximum[k]
  BY SameRecent DEF Allowed, One, Full, Ideal!One, Ideal!Full
<1>7. /\ left \in Nat /\ One(k) \in Nat
      /\ Maximum[k] \in Nat /\ Ideal!Recent(k) \in Nat
  <2>1. left \in 0..Full(k) /\ Full(k) \in Nat
    BY <1>1, RefillBounds, RuleValues
  <2>2. Count(k, now, now) \in Nat
    BY <1>1, PrunedMembers
  <2>3. QED
    BY <2>1, <2>2, SameRecent, RuleValues
<1>8. left \in Ideal!Readings(k)
  <2> DEFINE exact == Unrounded(k, now, now)
  <2>1. /\ left \in 0..Full(k) /\ exact \in 0..Full(k)
        /\ left <= exact + 2 * Error /\ exact <= left + 2 * Error
    BY <1>1, RefillBounds
  <2>2. Full(k) \in Nat /\ Error \in Nat
    BY RuleValues
  <2>3. left \in (exact - 2 * Error)..(exact + 2 * Error)
    <3> HIDE DEF left, exact
    <3>1. QED
      BY <2>1, <2>2
  <2>4. Allowance[k] = exact
    BY DEF Allowance
  <2>5. QED
    BY <1>6, <2>1, <2>3, <2>4 DEF Ideal!Readings, Allowance
<1>9. ASSUME Allowed(k, now, now), tokens'[k] = left - One(k), answer'[k] = "allowed"
      PROVE  Ideal!Pay(k, left)
  <2>1. Allowance' = [Allowance EXCEPT ![k] = left - Ideal!One(k)]
    BY <1>3, <1>5, <1>6, <1>9
  <2>2. answer' = [answer EXCEPT ![k] = "allowed"]
    BY <1>4, <1>9
  <2>3. left >= Ideal!One(k) /\ Ideal!Recent(k) < Maximum[k]
    BY <1>6, <1>9
  <2>4. QED
    BY <1>2, <2>1, <2>2, <2>3 DEF Ideal!Pay, Allowance
<1>10. CASE /\ Allowed(k, now, now) /\ tokens'[k] = Refilled(k, now, now) - One(k)
            /\ grants'[k] = Append(grants[k], now) /\ answer'[k] = "allowed"
  <2>1. Ideal!Pay(k, left)
    BY <1>9, <1>10
  <2>2. grants' = [grants EXCEPT ![k] = Append(@, now)]
    BY <1>4, <1>10
  <2>3. QED
    BY <1>8, <2>1, <2>2 DEF Ideal!Request
<1>11. CASE /\ Allowed(k, now, now) /\ tokens'[k] = Refilled(k, now, now) - One(k)
            /\ n \in DOMAIN grants[k] /\ grants'[k] = grants[k] /\ answer'[k] = "allowed"
  <2>1. Ideal!Pay(k, left)
    BY <1>9, <1>11
  <2>2. now = grants[k][n]
    <3>1. n \in DOMAIN window[k] /\ window[k][n] = now
      BY <1>1, <1>11, PrunedMembers
    <3>2. QED
      BY <1>1, <3>1 DEF History
  <2>3. grants' = grants
    BY <1>4, <1>5, <1>11
  <2>4. now \in {grants[k][m] : m \in DOMAIN grants[k]}
    BY <1>11, <2>2
  <2>5. QED
    BY <1>8, <2>1, <2>3, <2>4 DEF Ideal!Repeat
<1>12. CASE /\ ~Allowed(k, now, now) /\ tokens'[k] = Refilled(k, now, now)
            /\ grants'[k] = grants[k] /\ answer'[k] = "limited"
  <2>1. Allowance' = [Allowance EXCEPT ![k] = left]
    BY <1>3, <1>5, <1>12
  <2>2. grants' = grants /\ answer' = [answer EXCEPT ![k] = "limited"]
    BY <1>4, <1>5, <1>12
  <2>3. left < Ideal!One(k) \/ Ideal!Recent(k) >= Maximum[k]
    <3>1. ~(left >= One(k)) \/ ~(Ideal!Recent(k) < Maximum[k])
      BY <1>6, <1>12
    <3> HIDE DEF left
    <3>2. left < One(k) \/ Ideal!Recent(k) >= Maximum[k]
      BY <1>7, <3>1
    <3>3. QED
      BY <1>6, <3>2
  <2>4. QED
    BY <1>2, <1>8, <2>1, <2>2, <2>3 DEF Ideal!Request, Allowance
<1>13. QED
  BY <1>1, <1>10, <1>11, <1>12, ExecuteEffect

\* Refilling lazily, pruning lazily, letting both keys expire and running the
\* script again make no difference but for the rounding: the limiter answers
\* every prompt request as the continuous limiter of the Rule type does whose
\* allowance is rounded when a request reads it (redis.go:69-79).
THEOREM RefinesHybridLimit ==
    ASSUME Prompt
    PROVE  LimiterSpec => ImplementsHybridLimit
<1>1. LimiterInit => Ideal!Init
  <2> SUFFICES ASSUME LimiterInit PROVE Ideal!Init
    OBVIOUS
  <2>1. ASSUME NEW k \in Identities PROVE Unrounded(k, now, now) = Full(k)
    BY DEF LimiterInit, Unrounded, Exists
  <2>2. Allowance = [k \in Identities |-> Full(k)]
    BY <2>1 DEF Allowance
  <2>3. QED
    BY <2>2 DEF LimiterInit, Ideal!Init, Allowance, Full, One, Ideal!Full, Ideal!One
<1>2. LimiterInvariant /\ [LimiterNext]_limiterVars
        => [Ideal!Next]_<<now, Allowance, grants, answer>>
  <2> SUFFICES ASSUME LimiterInvariant, [LimiterNext]_limiterVars
               PROVE  [Ideal!Next]_<<now, Allowance, grants, answer>>
    OBVIOUS
  <2>1. LimiterTypes /\ now \in Nat /\ \A k \in Identities : History(k)
    BY OffsetsAssumption DEF LimiterInvariant, LimiterTypes, LimiterTypeOK
  <2>2. CASE Tick
    <3>1. ASSUME NEW k \in Identities
          PROVE  Unrounded(k, now, now)' = Lesser(Full(k), Unrounded(k, now, now) + Unit(k))
      <4>1. Unrounded(k, now, now)' = Unrounded(k, now + 1, now + 1)
        BY <2>2 DEF Tick, Unrounded, Exists, Elapsed, Full, One, Unit, Lesser, Greater
      <4>2. Unrounded(k, now + 1, now + 1)
              = Lesser(Full(k), Unrounded(k, now, now) + 1 * Unit(k))
        BY <2>1, RefillOver
      <4>3. 1 * Unit(k) = Unit(k)
        BY RuleValues
      <4>4. QED
        BY <4>1, <4>2, <4>3
    <3>2. Allowance' = [k \in Identities |-> Lesser(Full(k), Allowance[k] + Unit(k))]
      BY <3>1 DEF Allowance
    <3>3. Ideal!Tick
      BY <2>2, <3>2 DEF Tick, Ideal!Tick, Allowance, Full, One, Unit, Lesser,
                        Ideal!Full, Ideal!One, Ideal!Lesser
    <3>4. QED
      BY <3>3 DEF Ideal!Next
  <2>3. ASSUME NEW k \in Identities,
               NEW n \in DOMAIN grants[k] \cup {NewMember(k)}, Execute(k, now, n),
               n \in DOMAIN grants[k] => n \in DOMAIN Pruned(k, now, now) /\ window[k][n] = now
        PROVE  Ideal!Next
    BY <2>3, RunRefines DEF Ideal!Next
  <2>4. CASE UNCHANGED limiterVars
    <3>1. ASSUME NEW k \in Identities PROVE Unrounded(k, now, now)' = Unrounded(k, now, now)
      BY <2>4 DEF limiterVars, Unrounded, Exists, Elapsed, Full, One, Unit, Lesser, Greater
    <3>2. Allowance' = Allowance
      BY <3>1 DEF Allowance
    <3>3. QED
      BY <2>4, <3>2 DEF limiterVars
  <2>5. ASSUME NEW i \in Instances, NEW offset \in Offsets[i] PROVE now + offset = now
    BY <2>1, OffsetsAssumption DEF Prompt
  <2>6. QED
    BY <2>1, <2>2, <2>3, <2>4, <2>5, LimiterSteps
<1>3. QED
  BY <1>1, <1>2, LimiterInvariantHolds, PTL
     DEF LimiterSpec, ImplementsHybridLimit, Ideal!Spec, Allowance

-----------------------------------------------------------------------------
\* Steps and types of the guards

\* An attempt whose call waits to be sent again had an answer lost, and one is
\* checked for its email or account only if it names one.
GuardTypes ==
    /\ LimiterTypes
    /\ GuardTypeOK
    /\ \A a \in Attempts :
          /\ pc[a] = "identity" => IdentityKey[a] # NoIdentity
          /\ sent[a] # Unsent => repeats[a] > 0

Calling == {"arrived", "source", "identity"}

\* The script runs for the call attempt a is about to make, which has the time
\* the instance read or the one it was first sent with.
Ran(a) ==
    \E t \in Int :
        /\ sent[a] = Unsent => \E i \in Instances : \E offset \in Offsets[i] : t = now + offset
        /\ sent[a] # Unsent => t = sent[a].time
        /\ Execute(CurrentKey(a), t, Member(a, CurrentKey(a)))

\* The call returns, and the attempt goes on or ends.
Returned(a) ==
    /\ sent'[a] = Unsent /\ repeats'[a] = repeats[a]
    /\ \/ pc[a] = "arrived" /\ pc'[a] \in {"refused", "source"} /\ passed_at'[a] = passed_at[a]
       \/ /\ pc[a] = "source" /\ pc'[a] \in {"blocked", "failed", "identity", "admitted"}
          /\ passed_at'[a] = now
       \/ /\ pc[a] = "identity" /\ pc'[a] \in {"blocked", "failed", "admitted"}
          /\ passed_at'[a] = now
    /\ pc'[a] = "refused" => Ran(a) /\ answer'[CurrentKey(a)] = "limited"
    /\ pc'[a] = "identity" => /\ Ran(a) /\ answer'[CurrentKey(a)] = "allowed"
                              /\ IdentityKey[a] # NoIdentity
    /\ pc'[a] = "admitted" => \/ pc[a] = "source" /\ IdentityKey[a] = NoIdentity
                              \/ /\ pc[a] = "identity" /\ Ran(a)
                                 /\ answer'[CurrentKey(a)] = "allowed"

\* The answer does not come.
Lost(a) ==
    /\ Ran(a)
    /\ pc'[a] = pc[a] /\ passed_at'[a] = passed_at[a]
    /\ sent'[a] = [time |-> updated_at'[CurrentKey(a)],
                   member |-> IF AllowedBefore(a) THEN sent[a].member
                              ELSE IF answer'[CurrentKey(a)] = "allowed"
                                   THEN NewMember(CurrentKey(a)) ELSE 0]
    /\ Cardinality(RepeatsOf(Attempts)) < MaxRepeats /\ repeats'[a] = repeats[a] + 1

AttemptMoves(a) ==
    /\ pc[a] \in Calling /\ CurrentKey(a) \in Identities
    /\ Ran(a) \/ UNCHANGED limiterVars
    /\ Returned(a) \/ Lost(a)
    /\ pc' = [b \in Attempts |-> pc'[b]] /\ passed_at' = [b \in Attempts |-> passed_at'[b]]
    /\ sent' = [b \in Attempts |-> sent'[b]] /\ repeats' = [b \in Attempts |-> repeats'[b]]
    /\ \A b \in Attempts \ {a} :
          /\ pc'[b] = pc[b] /\ passed_at'[b] = passed_at[b]
          /\ sent'[b] = sent[b] /\ repeats'[b] = repeats[b]

\* The key of a call is one of the three of its attempt.
LEMMA CallKeys ==
    ASSUME GuardTypes, NEW a \in Attempts, pc[a] \in Calling
    PROVE  /\ CurrentKey(a) \in Identities
           /\ pc[a] = "arrived" => CurrentKey(a) = RequestKey[a]
           /\ pc[a] = "source" => CurrentKey(a) = SourceKey[a]
           /\ pc[a] = "identity" => CurrentKey(a) = IdentityKey[a]
<1>1. /\ pc[a] = "arrived" => CurrentKey(a) = RequestKey[a]
      /\ pc[a] = "source" => CurrentKey(a) = SourceKey[a]
      /\ pc[a] = "identity" => CurrentKey(a) = IdentityKey[a]
  BY DEF CurrentKey
<1>2. /\ RequestKey[a] \in Identities /\ SourceKey[a] \in Identities
      /\ pc[a] = "identity" => IdentityKey[a] \in Identities
  BY KeysAssumption DEF GuardTypes
<1>3. QED
  BY <1>1, <1>2 DEF Calling

\* What the three checks and the loss of an answer have in common: the call of
\* one attempt, for which the script runs or not (attempt_guards.go:62-84,
\* rate_limit.go:37-63).
LEMMA GuardSteps ==
    ASSUME GuardTypes, GuardNext
    PROVE  \/ \E a \in Attempts : AttemptMoves(a)
           \/ GuardTick
           \/ UNCHANGED <<limiterVars, guardVars>>
<1>1. /\ DOMAIN pc = Attempts /\ DOMAIN passed_at = Attempts
      /\ DOMAIN sent = Attempts /\ DOMAIN repeats = Attempts
      /\ now \in Int /\ \A i \in Instances : Offsets[i] \subseteq Int
  BY OffsetsAssumption DEF GuardTypes, GuardTypeOK, LimiterTypes, LimiterTypeOK
<1>2. ASSUME NEW a \in Attempts, NEW i \in Instances, pc[a] \in Calling,
             Executed(a, CurrentKey(a), i)
      PROVE  Ran(a)
  <2>1. CASE sent[a] = Unsent
    <3>1. PICK offset \in Offsets[i] :
             Execute(CurrentKey(a), now + offset, NewMember(CurrentKey(a)))
      BY <1>2, <2>1 DEF Executed, Allow
    <3>2. Member(a, CurrentKey(a)) = NewMember(CurrentKey(a))
      BY <2>1 DEF Member, AllowedBefore
    <3>3. now + offset \in Int
      BY <1>1
    <3>4. QED
      BY <2>1, <3>1, <3>2, <3>3 DEF Ran
  <2>2. CASE sent[a] # Unsent
    <3>1. sent[a].time \in Int
      BY <2>2 DEF GuardTypes, GuardTypeOK
    <3>2. QED
      BY <1>2, <2>2, <3>1 DEF Executed, Ran
  <2>3. QED
    BY <2>1, <2>2
<1>3. ASSUME NEW a \in Attempts, NEW i \in Instances, pc[a] \in Calling,
             NEW outcome \in Outcomes, Outcome(a, CurrentKey(a), i, outcome)
      PROVE  /\ Ran(a) \/ UNCHANGED limiterVars
             /\ outcome # "error" => Ran(a) /\ answer'[CurrentKey(a)] = outcome
             /\ sent'[a] = Unsent /\ repeats' = repeats
             /\ sent' = [b \in Attempts |-> sent'[b]]
             /\ repeats' = [b \in Attempts |-> repeats'[b]]
             /\ \A b \in Attempts \ {a} : sent'[b] = sent[b]
  <2>1. /\ sent' = [sent EXCEPT ![a] = Unsent] /\ repeats' = repeats
    BY <1>3 DEF Outcome
  <2>2. repeats = [b \in Attempts |-> repeats[b]]
    BY DEF GuardTypes, GuardTypeOK
  <2>3. \/ Executed(a, CurrentKey(a), i) /\ outcome = answer'[CurrentKey(a)]
        \/ outcome = "error" /\ (Executed(a, CurrentKey(a), i) \/ UNCHANGED limiterVars)
    BY <1>3 DEF Outcome
  <2>4. QED
    BY <1>1, <1>2, <1>3, <2>1, <2>2, <2>3
<1>4. ASSUME NEW a \in Attempts, NEW i \in Instances, LimitRequest(a, i)
      PROVE  AttemptMoves(a)
  <2>1. pc[a] = "arrived" /\ pc[a] \in Calling
    BY <1>4 DEF LimitRequest, Calling
  <2>2. CurrentKey(a) = RequestKey[a] /\ CurrentKey(a) \in Identities
    BY <2>1, CallKeys
  <2>3. PICK outcome \in Outcomes :
           /\ Outcome(a, CurrentKey(a), i, outcome)
           /\ pc' = [pc EXCEPT ![a] = AfterRequestLimit(outcome)] /\ passed_at' = passed_at
    BY <1>4, <2>2 DEF LimitRequest
  <2>4. /\ pc'[a] = AfterRequestLimit(outcome) /\ pc' = [b \in Attempts |-> pc'[b]]
        /\ passed_at' = [b \in Attempts |-> passed_at'[b]]
        /\ \A b \in Attempts \ {a} : pc'[b] = pc[b] /\ passed_at'[b] = passed_at[b]
    BY <1>1, <2>3 DEF GuardTypes, GuardTypeOK
  <2>5. Returned(a)
    <3>1. sent'[a] = Unsent /\ repeats'[a] = repeats[a] /\ passed_at'[a] = passed_at[a]
      BY <1>3, <2>1, <2>3
    <3>2. pc'[a] \in {"refused", "source"} /\ (pc'[a] = "refused" => outcome = "limited")
      BY <2>4 DEF AfterRequestLimit
    <3>3. outcome = "limited" => Ran(a) /\ answer'[CurrentKey(a)] = "limited"
      BY <1>3, <2>1, <2>3
    <3>4. QED
      BY <2>1, <3>1, <3>2, <3>3 DEF Returned
  <2>6. QED
    BY <1>3, <2>1, <2>2, <2>3, <2>4, <2>5 DEF AttemptMoves
<1>5. ASSUME NEW a \in Attempts, NEW i \in Instances, CheckSource(a, i)
      PROVE  AttemptMoves(a)
  <2>1. pc[a] = "source" /\ pc[a] \in Calling
    BY <1>5 DEF CheckSource, Calling
  <2>2. CurrentKey(a) = SourceKey[a] /\ CurrentKey(a) \in Identities
    BY <2>1, CallKeys
  <2>3. PICK outcome \in Outcomes :
           /\ Outcome(a, CurrentKey(a), i, outcome)
           /\ pc' = [pc EXCEPT ![a] = AfterSource(a, outcome)]
           /\ passed_at' = [passed_at EXCEPT ![a] = now]
    BY <1>5, <2>2 DEF CheckSource
  <2>4. /\ pc'[a] = AfterSource(a, outcome) /\ pc' = [b \in Attempts |-> pc'[b]]
        /\ passed_at'[a] = now /\ passed_at' = [b \in Attempts |-> passed_at'[b]]
        /\ \A b \in Attempts \ {a} : pc'[b] = pc[b] /\ passed_at'[b] = passed_at[b]
    BY <1>1, <2>3
  <2>5. Returned(a)
    <3>1. sent'[a] = Unsent /\ repeats'[a] = repeats[a]
      BY <1>3, <2>1, <2>3
    <3>2. /\ pc'[a] \in {"blocked", "failed", "identity", "admitted"}
          /\ pc'[a] = "identity" => outcome = "allowed" /\ IdentityKey[a] # NoIdentity
          /\ pc'[a] = "admitted" => IdentityKey[a] = NoIdentity
      BY <2>4 DEF AfterSource, Outcomes
    <3>3. outcome = "allowed" => Ran(a) /\ answer'[CurrentKey(a)] = "allowed"
      BY <1>3, <2>1, <2>3
    <3>4. QED
      BY <2>1, <2>4, <3>1, <3>2, <3>3 DEF Returned
  <2>6. QED
    BY <1>3, <2>1, <2>2, <2>3, <2>4, <2>5 DEF AttemptMoves
<1>6. ASSUME NEW a \in Attempts, NEW i \in Instances, CheckIdentity(a, i)
      PROVE  AttemptMoves(a)
  <2>1. pc[a] = "identity" /\ pc[a] \in Calling
    BY <1>6 DEF CheckIdentity, Calling
  <2>2. CurrentKey(a) = IdentityKey[a] /\ CurrentKey(a) \in Identities
    BY <2>1, CallKeys
  <2>3. PICK outcome \in Outcomes :
           /\ Outcome(a, CurrentKey(a), i, outcome)
           /\ pc' = [pc EXCEPT ![a] = AfterIdentity(outcome)]
           /\ passed_at' = [passed_at EXCEPT ![a] = now]
    BY <1>6, <2>2 DEF CheckIdentity
  <2>4. /\ pc'[a] = AfterIdentity(outcome) /\ pc' = [b \in Attempts |-> pc'[b]]
        /\ passed_at'[a] = now /\ passed_at' = [b \in Attempts |-> passed_at'[b]]
        /\ \A b \in Attempts \ {a} : pc'[b] = pc[b] /\ passed_at'[b] = passed_at[b]
    BY <1>1, <2>3
  <2>5. Returned(a)
    <3>1. sent'[a] = Unsent /\ repeats'[a] = repeats[a]
      BY <1>3, <2>1, <2>3
    <3>2. /\ pc'[a] \in {"blocked", "failed", "admitted"}
          /\ pc'[a] = "admitted" => outcome = "allowed"
      BY <2>4 DEF AfterIdentity, Outcomes
    <3>3. outcome = "allowed" => Ran(a) /\ answer'[CurrentKey(a)] = "allowed"
      BY <1>3, <2>1, <2>3
    <3>4. QED
      BY <2>1, <2>4, <3>1, <3>2, <3>3 DEF Returned
  <2>6. QED
    BY <1>3, <2>1, <2>2, <2>3, <2>4, <2>5 DEF AttemptMoves
<1>7. ASSUME NEW a \in Attempts, NEW i \in Instances, AnswerLost(a, i)
      PROVE  AttemptMoves(a)
  <2>1. pc[a] \in Calling /\ CurrentKey(a) \in Identities
    <3>1. pc[a] \in Calling
      BY <1>7 DEF AnswerLost, Calling
    <3>2. QED
      BY <3>1, CallKeys
  <2>2. Ran(a)
    BY <1>2, <1>7, <2>1 DEF AnswerLost
  <2>3. Lost(a)
    BY <1>1, <1>7, <2>2 DEF AnswerLost, Lost
  <2>4. /\ pc' = [b \in Attempts |-> pc'[b]] /\ passed_at' = [b \in Attempts |-> passed_at'[b]]
        /\ sent' = [b \in Attempts |-> sent'[b]] /\ repeats' = [b \in Attempts |-> repeats'[b]]
        /\ \A b \in Attempts \ {a} :
              /\ pc'[b] = pc[b] /\ passed_at'[b] = passed_at[b]
              /\ sent'[b] = sent[b] /\ repeats'[b] = repeats[b]
    BY <1>1, <1>7 DEF AnswerLost, GuardTypes, GuardTypeOK
  <2>5. QED
    BY <2>1, <2>2, <2>3, <2>4 DEF AttemptMoves
<1>8. QED
  BY <1>4, <1>5, <1>6, <1>7 DEF GuardNext, Answered

\* What the script does when it runs at the time t of a's call: a request it
\* allows gets a new member the first time only.
RanAt(a, t) ==
    LET k == CurrentKey(a) IN
    /\ sent[a] = Unsent => \E i \in Instances : \E offset \in Offsets[i] : t = now + offset
    /\ sent[a] # Unsent => t = sent[a].time
    /\ now' = now /\ updated_at'[k] = t /\ expires'[k] = now + Lifespan(k)
    /\ \/ /\ Allowed(k, now, t) /\ answer'[k] = "allowed"
          /\ tokens'[k] = Refilled(k, now, t) - One(k)
          /\ \/ /\ ~AllowedBefore(a) /\ grants'[k] = Append(grants[k], now)
                /\ window'[k] = WithMember(Pruned(k, now, t), NewMember(k), t)
             \/ /\ AllowedBefore(a) /\ grants'[k] = grants[k]
                /\ window'[k] = WithMember(Pruned(k, now, t), sent[a].member, t)
       \/ /\ ~Allowed(k, now, t) /\ answer'[k] = "limited"
          /\ tokens'[k] = Refilled(k, now, t)
          /\ grants'[k] = grants[k] /\ window'[k] = Pruned(k, now, t)
    /\ \A j \in Identities \ {k} :
          /\ tokens'[j] = tokens[j] /\ updated_at'[j] = updated_at[j]
          /\ window'[j] = window[j] /\ expires'[j] = expires[j]
          /\ grants'[j] = grants[j] /\ answer'[j] = answer[j]

\* A run for a call that waits to be sent again is given the member its first
\* run added, if any (the random member of redis.go:134 is part of the call).
LEMMA RunOfAttempt ==
    ASSUME GuardTypes, NEW a \in Attempts, pc[a] \in Calling, Ran(a)
    PROVE  LimiterTypes' /\ \E t \in Int : RanAt(a, t)
<1> DEFINE k == CurrentKey(a)
<1>1. LimiterTypes /\ k \in Identities
  BY CallKeys DEF GuardTypes
<1>2. /\ AllowedBefore(a) => Member(a, k) = sent[a].member /\ Member(a, k) \in DOMAIN grants[k]
      /\ ~AllowedBefore(a) => Member(a, k) = NewMember(k)
  BY DEF GuardTypes, GuardTypeOK, Member
<1>3. NewMember(k) \notin DOMAIN grants[k]
  <2>1. grants[k] \in Seq(0..MaxTime)
    BY <1>1 DEF LimiterTypes, LimiterShape
  <2>2. QED
    BY <2>1 DEF NewMember
<1>4. PICK t \in Int :
         /\ sent[a] = Unsent => \E i \in Instances : \E offset \in Offsets[i] : t = now + offset
         /\ sent[a] # Unsent => t = sent[a].time
         /\ Execute(k, t, Member(a, k))
  BY DEF Ran
<1>5. Member(a, k) \in DOMAIN grants[k] \cup {NewMember(k)}
  BY <1>2
<1> HIDE DEF k
<1>6. LimiterTypes'
  BY <1>1, <1>4, <1>5, ExecuteTypes
<1>7. RanAt(a, t)
  BY <1>1, <1>2, <1>3, <1>4, <1>5, ExecuteEffect DEF RanAt, k
<1>8. QED
  BY <1>6, <1>7

\* The calls sent again are finitely many, and bounded for each attempt.
LEMMA RepeatsFinite ==
    ASSUME GuardTypes, NEW some \in SUBSET Attempts
    PROVE  /\ IsFiniteSet(RepeatsOf(some)) /\ Cardinality(RepeatsOf(some)) \in Nat
           /\ \A a \in some : repeats[a] <= Cardinality(RepeatsOf(some))
<1>1. /\ IsFiniteSet(some \X (1..MaxRepeats)) /\ MaxRepeats \in Nat
  <2>1. IsFiniteSet(some) /\ MaxRepeats \in Nat
    BY KeysAssumption, FS_Subset
  <2>2. IsFiniteSet(1..MaxRepeats)
    BY <2>1, FS_Interval
  <2>3. QED
    BY <2>1, <2>2, FS_Product
<1>2. RepeatsOf(some) \subseteq some \X (1..MaxRepeats)
  BY DEF RepeatsOf
<1>3. IsFiniteSet(RepeatsOf(some))
  BY <1>1, <1>2, FS_Subset
<1>4. Cardinality(RepeatsOf(some)) \in Nat
  BY <1>3, FS_CardinalityType
<1>5. ASSUME NEW a \in some
      PROVE  repeats[a] <= Cardinality(RepeatsOf(some))
  <2>1. repeats[a] \in 0..MaxRepeats
    BY DEF GuardTypes, GuardTypeOK
  <2> DEFINE r == repeats[a]
  <2>2. IsFiniteSet({a}) /\ Cardinality({a}) = 1
    BY FS_Singleton
  <2>3. IsFiniteSet(1..r) /\ Cardinality(1..r) = r
    <3>1. r \in Int /\ r >= 0
      BY <1>1, <2>1
    <3> HIDE DEF r
    <3>2. IsFiniteSet(1..r) /\ Cardinality(1..r) = IF 1 > r THEN 0 ELSE r - 1 + 1
      BY <3>1, FS_Interval
    <3>3. QED
      BY <3>1, <3>2
  <2>4. Cardinality({a} \X (1..r)) = r
    <3>1. Cardinality({a} \X (1..r)) = Cardinality({a}) * Cardinality(1..r)
      BY <2>2, <2>3, FS_Product
    <3>2. QED
      BY <1>1, <2>1, <2>2, <2>3, <3>1
  <2>5. {a} \X (1..r) \subseteq RepeatsOf(some)
    BY <1>1, <2>1 DEF RepeatsOf
  <2>6. QED
    BY <1>3, <2>4, <2>5, FS_Subset
<1>6. QED
  BY <1>3, <1>4, <1>5

\* A step of an attempt keeps the types, the answer of its call lost or not.
LEMMA AttemptTypes ==
    ASSUME GuardTypes, NEW a \in Attempts, AttemptMoves(a)
    PROVE  /\ GuardTypes'
           /\ \A j \in Identities : DOMAIN grants[j] \subseteq DOMAIN grants'[j]
<1> DEFINE k == CurrentKey(a)
<1>1. /\ pc[a] \in Calling /\ k \in Identities /\ LimiterTypes
      /\ now \in 0..MaxTime /\ MaxTime \in Nat
  BY OffsetsAssumption DEF AttemptMoves, GuardTypes, LimiterTypes, LimiterTypeOK
<1>2. /\ LimiterTypes' /\ now' = now
      /\ \A j \in Identities : DOMAIN grants[j] \subseteq DOMAIN grants'[j]
      /\ Ran(a) /\ ~AllowedBefore(a) /\ answer'[k] = "allowed"
            => NewMember(k) \in DOMAIN grants'[k]
  <2>1. CASE Ran(a)
    <3>1. PICK t \in Int : RanAt(a, t)
      BY <1>1, <2>1, RunOfAttempt
    <3>2. grants[k] \in Seq(0..MaxTime) /\ now \in 0..MaxTime
      BY <1>1 DEF LimiterTypes, LimiterTypeOK
    <3>3. /\ DOMAIN grants[k] \subseteq DOMAIN Append(grants[k], now)
          /\ NewMember(k) \in DOMAIN Append(grants[k], now)
      <4>1. /\ DOMAIN grants[k] = 1..Len(grants[k]) /\ Len(grants[k]) \in Nat
            /\ DOMAIN Append(grants[k], now) = 1..(Len(grants[k]) + 1)
        BY <3>2
      <4>2. QED
        BY <4>1 DEF NewMember
    <3>4. /\ now' = now /\ \A j \in Identities \ {k} : grants'[j] = grants[j]
          /\ \/ answer'[k] = "allowed" /\ ~AllowedBefore(a) /\ grants'[k] = Append(grants[k], now)
             \/ AllowedBefore(a) /\ grants'[k] = grants[k]
             \/ answer'[k] = "limited" /\ grants'[k] = grants[k]
      BY <3>1 DEF RanAt
    <3> HIDE DEF k
    <3>5. \A j \in Identities : DOMAIN grants[j] \subseteq DOMAIN grants'[j]
      BY <3>3, <3>4
    <3>6. QED
      BY <1>1, <2>1, <3>3, <3>4, <3>5, RunOfAttempt
  <2>2. CASE ~Ran(a)
    <3>1. UNCHANGED limiterVars
      BY <2>2 DEF AttemptMoves
    <3>2. QED
      BY <1>1, <2>2, <3>1
         DEF limiterVars, LimiterTypes, LimiterShape, LimiterTypeOK, Full, One, Lifespan
  <2>3. QED
    BY <2>1, <2>2
<1>3. /\ pc' = [b \in Attempts |-> pc'[b]] /\ passed_at' = [b \in Attempts |-> passed_at'[b]]
      /\ sent' = [b \in Attempts |-> sent'[b]] /\ repeats' = [b \in Attempts |-> repeats'[b]]
      /\ \A b \in Attempts \ {a} :
            /\ pc'[b] = pc[b] /\ passed_at'[b] = passed_at[b]
            /\ sent'[b] = sent[b] /\ repeats'[b] = repeats[b]
  BY DEF AttemptMoves
<1> DEFINE States == {"arrived", "refused", "source", "identity", "blocked", "failed", "admitted"}
           Fits(b) == /\ pc[b] \in States
                      /\ passed_at[b] \in 0..MaxTime
                      /\ sent[b] \in {Unsent} \cup [time : Int, member : Nat]
                      /\ AllowedBefore(b) => /\ pc[b] \in Calling
                                             /\ sent[b].member \in DOMAIN grants[CurrentKey(b)]
                      /\ repeats[b] \in 0..MaxRepeats
                      /\ pc[b] = "identity" => IdentityKey[b] # NoIdentity
                      /\ sent[b] # Unsent => repeats[b] > 0
<1>4. \A b \in Attempts : Fits(b)
  BY DEF GuardTypes, GuardTypeOK, Calling
<1>5. ASSUME NEW b \in Attempts \ {a} PROVE Fits(b)'
  <2>1. Fits(b)
    BY <1>4
  <2>2. AllowedBefore(b)' = AllowedBefore(b) /\ CurrentKey(b)' = CurrentKey(b)
    BY <1>3 DEF AllowedBefore, CurrentKey
  <2>3. AllowedBefore(b) => sent'[b].member \in DOMAIN grants'[CurrentKey(b)]
    BY <1>2, <1>3, <2>1, CallKeys
  <2>4. QED
    BY <1>3, <2>1, <2>2, <2>3
<1>6. Fits(a)'
  <2>1. Fits(a) /\ now \in 0..MaxTime
    BY <1>1, <1>4
  <2>2. CASE Returned(a)
    <3>1. sent'[a] = Unsent /\ repeats'[a] = repeats[a]
      BY <2>2 DEF Returned
    <3>2. pc'[a] \in States /\ passed_at'[a] \in 0..MaxTime
      BY <2>1, <2>2 DEF Returned
    <3>3. pc'[a] = "identity" => IdentityKey[a] # NoIdentity
      BY <2>2 DEF Returned
    <3>4. ~AllowedBefore(a)'
      BY <3>1 DEF AllowedBefore
    <3>5. QED
      BY <2>1, <3>1, <3>2, <3>3, <3>4
  <2>3. CASE Lost(a)
    <3>1. pc'[a] = pc[a] /\ passed_at'[a] = passed_at[a] /\ CurrentKey(a)' = k
      BY <2>3 DEF Lost, CurrentKey
    <3>2. repeats'[a] \in 0..MaxRepeats /\ repeats'[a] > 0
      <4>1. /\ repeats[a] <= Cardinality(RepeatsOf(Attempts))
            /\ Cardinality(RepeatsOf(Attempts)) \in Nat
        BY RepeatsFinite
      <4>2. /\ Cardinality(RepeatsOf(Attempts)) < MaxRepeats /\ repeats'[a] = repeats[a] + 1
            /\ MaxRepeats \in Nat /\ repeats[a] \in 0..MaxRepeats
        BY <2>1, <2>3, KeysAssumption DEF Lost
      <4>3. QED
        BY <4>1, <4>2
    <3>3. /\ sent'[a] \in [time : Int, member : Nat]
          /\ sent'[a].member # 0 => sent'[a].member \in DOMAIN grants'[k]
      <4>1. updated_at'[k] \in Int
        BY <1>1, <1>2 DEF LimiterTypes, LimiterTypeOK
      <4>2. NewMember(k) \in Nat
        <5>1. grants[k] \in Seq(0..MaxTime)
          BY <1>1 DEF LimiterTypes, LimiterTypeOK
        <5>2. QED
          BY <5>1 DEF NewMember
      <4>3. AllowedBefore(a) => sent[a].member \in Nat /\ sent[a].member \in DOMAIN grants[k]
        BY <2>1 DEF AllowedBefore
      <4>4. CASE AllowedBefore(a)
        BY <1>1, <1>2, <2>3, <4>1, <4>3, <4>4 DEF Lost
      <4>5. CASE ~AllowedBefore(a) /\ answer'[k] = "allowed"
        BY <1>1, <1>2, <2>3, <4>1, <4>2, <4>5 DEF Lost
      <4>6. CASE ~AllowedBefore(a) /\ answer'[k] # "allowed"
        BY <2>3, <4>1, <4>6 DEF Lost
      <4>7. QED
        BY <4>4, <4>5, <4>6
    <3>4. AllowedBefore(a)' => sent'[a].member # 0
      BY DEF AllowedBefore
    <3>5. QED
      BY <1>1, <2>1, <3>1, <3>2, <3>3, <3>4
  <2>4. QED
    BY <2>2, <2>3 DEF AttemptMoves
<1>7. \A b \in Attempts : Fits(b)'
  BY <1>5, <1>6
<1>8. GuardTypeOK'
  BY <1>2, <1>3, <1>7 DEF GuardTypeOK, LimiterTypes, Calling
<1>9. QED
  BY <1>2, <1>7, <1>8 DEF GuardTypes

\* Before the first attempt no call was lost.
LEMMA GuardTypesStart ==
    ASSUME GuardInit
    PROVE  GuardTypes
<1>1. LimiterTypes
  BY InitialTypes DEF GuardInit
<1>2. GuardTypeOK
  BY <1>1, OffsetsAssumption, KeysAssumption
     DEF GuardInit, GuardTypeOK, LimiterTypes, AllowedBefore
<1>3. QED
  BY <1>1, <1>2 DEF GuardInit, GuardTypes

\* Nor does the clock change what is known of a call.
LEMMA GuardTypesStep ==
    ASSUME GuardTypes, [GuardNext]_<<limiterVars, guardVars>>
    PROVE  GuardTypes'
<1>1. CASE GuardTick
  <2>1. LimiterTypes'
    BY <1>1, TickTypes DEF GuardTypes, GuardTick
  <2>2. UNCHANGED guardVars /\ grants' = grants /\ \A a \in Attempts : CurrentKey(a)' = CurrentKey(a)
    BY <1>1 DEF GuardTick, Tick, guardVars, CurrentKey
  <2>3. QED
    BY <2>1, <2>2
       DEF GuardTypes, GuardTypeOK, LimiterTypes, guardVars, AllowedBefore
<1>2. CASE UNCHANGED <<limiterVars, guardVars>>
  <2>1. \A a \in Attempts : CurrentKey(a)' = CurrentKey(a)
    BY <1>2 DEF guardVars, CurrentKey
  <2>2. LimiterTypes'
    BY <1>2 DEF GuardTypes, limiterVars, LimiterTypes, LimiterShape, LimiterTypeOK, Full, One, Lifespan
  <2>3. QED
    BY <1>2, <2>1, <2>2
       DEF GuardTypes, GuardTypeOK, LimiterTypes, limiterVars, guardVars, AllowedBefore
<1>3. QED
  BY <1>1, <1>2, GuardSteps, AttemptTypes

\* Whatever Redis answers, loses or runs twice, a call that waits to be sent
\* again has the member its first run added, if any.
THEOREM GuardTypesHold == GuardSpec => [](GuardTypes /\ GuardTypeOK)
<1>1. GuardTypes /\ [GuardNext]_<<limiterVars, guardVars>> => GuardTypes'
  BY GuardTypesStep
<1>2. GuardInit => GuardTypes
  BY GuardTypesStart
<1>3. GuardTypes => GuardTypeOK
  BY DEF GuardTypes
<1>4. QED
  BY <1>1, <1>2, <1>3, PTL DEF GuardSpec

-----------------------------------------------------------------------------
\* Nobody is refused for nothing

\* The attempts that share the coarse limit's key k.
Sharing(k) == {b \in Attempts : RequestKey[b] = k}

\* The calls sent again, among those of the attempts that share k, that are not
\* on their way to k.
RunAgain(k) ==
    {p \in RepeatsOf(Sharing(k)) :
        ~ (pc[p[1]] = "arrived" /\ sent[p[1]] # Unsent /\ p[2] = repeats[p[1]])}

Charges(k) == Len(grants[k]) + Cardinality(RunAgain(k))

\* Tokens are taken only by requests allowed and by calls sent again.
TokensPaidFor(k) == expires[k] # 0 => tokens[k] + Charges(k) * One(k) >= Full(k)

RefusalInvariant ==
    /\ GuardTypes
    /\ RefusedOnlyWhenSpent
    /\ \A k \in Identities : (\E a \in Attempts : RequestKey[a] = k) => TokensPaidFor(k)

\* The two kinds of charges are numbers, and no more than the attempts made.
LEMMA ChargeNumbers ==
    ASSUME GuardTypes, NEW k \in Identities
    PROVE  /\ Len(grants[k]) \in Nat
           /\ IsFiniteSet(RunAgain(k)) /\ Cardinality(RunAgain(k)) \in Nat
           /\ IsFiniteSet(RepeatsOf(Sharing(k))) /\ Cardinality(RepeatsOf(Sharing(k))) \in Nat
           /\ Cardinality(RunAgain(k)) <= Cardinality(RepeatsOf(Sharing(k)))
           /\ Charges(k) \in Nat
<1>1. grants[k] \in Seq(0..MaxTime)
  BY DEF GuardTypes, LimiterTypes, LimiterTypeOK
<1>2. /\ IsFiniteSet(RepeatsOf(Sharing(k))) /\ Cardinality(RepeatsOf(Sharing(k))) \in Nat
  <2>1. Sharing(k) \in SUBSET Attempts
    BY DEF Sharing
  <2>2. QED
    BY <2>1, RepeatsFinite
<1>3. RunAgain(k) \subseteq RepeatsOf(Sharing(k))
  BY DEF RunAgain
<1>4. /\ IsFiniteSet(RunAgain(k))
      /\ Cardinality(RunAgain(k)) <= Cardinality(RepeatsOf(Sharing(k)))
  BY <1>2, <1>3, FS_Subset
<1>5. Cardinality(RunAgain(k)) \in Nat
  BY <1>4, FS_CardinalityType
<1>6. QED
  BY <1>1, <1>2, <1>4, <1>5 DEF Charges

\* No step takes a charge back, and one more run of a call that was allowed
\* before is one more charge.
LEMMA ChargesAfter ==
    ASSUME GuardTypes, NEW a \in Attempts, AttemptMoves(a), NEW k \in Identities
    PROVE  /\ Len(grants'[k]) \in Nat /\ Charges(k)' \in Nat
           /\ Cardinality(RepeatsOf(Sharing(k)))' \in Nat
           /\ Len(grants[k]) <= Len(grants'[k])
           /\ Cardinality(RepeatsOf(Sharing(k))) <= Cardinality(RepeatsOf(Sharing(k)))'
           /\ Charges(k) <= Charges(k)'
           /\ pc[a] = "arrived" /\ CurrentKey(a) = k /\ Ran(a) /\ answer'[k] = "allowed"
                => Charges(k) + 1 <= Charges(k)'
<1>1. GuardTypes' /\ DOMAIN grants[k] \subseteq DOMAIN grants'[k]
  BY AttemptTypes
<1>2. /\ Len(grants[k]) \in Nat /\ Len(grants'[k]) \in Nat
      /\ DOMAIN grants[k] = 1..Len(grants[k]) /\ DOMAIN grants'[k] = 1..Len(grants'[k])
  BY <1>1 DEF GuardTypes, LimiterTypes, LimiterTypeOK
<1>3. Len(grants[k]) <= Len(grants'[k])
  BY <1>1, <1>2
<1>4. /\ \A b \in Attempts : repeats[b] \in 0..MaxRepeats /\ repeats'[b] \in 0..MaxRepeats
      /\ MaxRepeats \in Nat
  BY <1>1, KeysAssumption DEF GuardTypes, GuardTypeOK
<1>5. /\ \A b \in Attempts \ {a} :
            pc'[b] = pc[b] /\ sent'[b] = sent[b] /\ repeats'[b] = repeats[b]
      /\ \/ sent'[a] = Unsent /\ repeats'[a] = repeats[a]
         \/ pc'[a] = pc[a] /\ repeats'[a] = repeats[a] + 1
  BY DEF AttemptMoves, Returned, Lost
<1>6. /\ \A p : p \in RepeatsOf(Sharing(k)) <=>
            p \in Sharing(k) \X (1..MaxRepeats) /\ p[2] <= repeats[p[1]]
      /\ \A p : p \in RepeatsOf(Sharing(k))' <=>
            p \in Sharing(k) \X (1..MaxRepeats) /\ p[2] <= repeats'[p[1]]
      /\ Sharing(k) \subseteq Attempts
  BY DEF RepeatsOf, Sharing
<1>7. RepeatsOf(Sharing(k)) \subseteq RepeatsOf(Sharing(k))'
  BY <1>4, <1>5, <1>6
<1>8. RunAgain(k) \subseteq RunAgain(k)'
  <2> SUFFICES ASSUME NEW p \in RunAgain(k) PROVE p \in RunAgain(k)'
    OBVIOUS
  <2>1. /\ p \in RepeatsOf(Sharing(k)) /\ p \in RepeatsOf(Sharing(k))'
        /\ ~ (pc[p[1]] = "arrived" /\ sent[p[1]] # Unsent /\ p[2] = repeats[p[1]])
    BY <1>7 DEF RunAgain
  <2>2. p[1] \in Attempts /\ p[2] \in 1..MaxRepeats /\ p[2] <= repeats[p[1]]
    BY <1>6, <2>1
  <2>3. ~ (pc'[p[1]] = "arrived" /\ sent'[p[1]] # Unsent /\ p[2] = repeats'[p[1]])
    <3>1. CASE p[1] = a
      BY <1>4, <1>5, <2>2, <3>1
    <3>2. CASE p[1] # a
      BY <1>5, <2>1, <2>2, <3>2
    <3>3. QED
      BY <3>1, <3>2
  <2>4. QED
    BY <2>1, <2>3 DEF RunAgain
<1>9. /\ IsFiniteSet(RunAgain(k)) /\ Cardinality(RunAgain(k)) \in Nat
      /\ IsFiniteSet(RunAgain(k)') /\ Cardinality(RunAgain(k)') \in Nat
      /\ IsFiniteSet(RepeatsOf(Sharing(k))') /\ Cardinality(RepeatsOf(Sharing(k))') \in Nat
  <2>1. IsFiniteSet(RunAgain(k)') /\ IsFiniteSet(RepeatsOf(Sharing(k))')
    <3>1. IsFiniteSet(Attempts \X (1..MaxRepeats))
      <4>1. IsFiniteSet(Attempts) /\ 1 \in Int /\ MaxRepeats \in Int
        BY KeysAssumption
      <4>2. IsFiniteSet(1..MaxRepeats)
        BY <4>1, FS_Interval
      <4>3. QED
        BY <4>1, <4>2, FS_Product
    <3>2. /\ RunAgain(k)' \subseteq RepeatsOf(Sharing(k))'
          /\ RepeatsOf(Sharing(k))' \subseteq Attempts \X (1..MaxRepeats)
      BY <1>6 DEF RunAgain
    <3>3. QED
      BY <3>1, <3>2, FS_Subset
  <2>2. QED
    BY <2>1, ChargeNumbers, FS_CardinalityType
<1>10. /\ Cardinality(RepeatsOf(Sharing(k))) <= Cardinality(RepeatsOf(Sharing(k))')
       /\ Cardinality(RunAgain(k)) <= Cardinality(RunAgain(k)')
  BY <1>7, <1>8, <1>9, FS_Subset
<1>11. ASSUME pc[a] = "arrived", CurrentKey(a) = k, Ran(a), answer'[k] = "allowed"
       PROVE  Charges(k) + 1 <= Charges(k)'
  <2>1. CASE ~AllowedBefore(a)
    <3>1. Len(grants'[k]) = Len(grants[k]) + 1
      <4>1. PICK t \in Int : RanAt(a, t)
        BY <1>11, RunOfAttempt DEF Calling
      <4>2. grants'[k] = Append(grants[k], now)
        BY <1>11, <2>1, <4>1 DEF RanAt
      <4>3. QED
        BY <4>2 DEF GuardTypes, LimiterTypes, LimiterTypeOK
    <3>2. QED
      BY <1>2, <1>9, <1>10, <3>1 DEF Charges
  <2>2. CASE AllowedBefore(a)
    <3> DEFINE p == <<a, repeats[a]>>
    <3>1. /\ sent[a] # Unsent /\ repeats[a] \in 1..MaxRepeats
          /\ RequestKey[a] = k /\ a \in Sharing(k)
      BY <1>4, <1>11, <2>2, CallKeys DEF AllowedBefore, GuardTypes, Calling, Sharing
    <3>2. p \notin RunAgain(k)
      BY <1>11, <3>1 DEF RunAgain
    <3>3. p \in RunAgain(k)'
      <4>1. p \in RepeatsOf(Sharing(k))'
        BY <1>4, <1>5, <1>6, <3>1
      <4>2. ~ (sent'[a] # Unsent /\ repeats[a] = repeats'[a])
        BY <1>4, <1>5
      <4>3. QED
        BY <4>1, <4>2 DEF RunAgain
    <3>4. Cardinality(RunAgain(k)) + 1 <= Cardinality(RunAgain(k)')
      <4>1. /\ IsFiniteSet(RunAgain(k) \cup {p})
            /\ Cardinality(RunAgain(k) \cup {p}) = Cardinality(RunAgain(k)) + 1
        BY <1>9, <3>2, FS_AddElement
      <4>2. RunAgain(k) \cup {p} \subseteq RunAgain(k)'
        BY <1>8, <3>3
      <4>3. QED
        BY <1>9, <4>1, <4>2, FS_Subset
    <3>5. QED
      BY <1>2, <1>3, <1>9, <3>4 DEF Charges
  <2>3. QED
    BY <2>1, <2>2
<1>12. Charges(k) <= Charges(k)' /\ Charges(k)' \in Nat
  BY <1>2, <1>3, <1>9, <1>10 DEF Charges
<1>13. QED
  BY <1>2, <1>3, <1>9, <1>10, <1>11, <1>12

\* The bucket of a coarse limit is paid for whenever the script looks at it.
LEMMA RefilledPaidFor ==
    ASSUME GuardTypes, NEW k \in Identities, TokensPaidFor(k), NEW t \in Int
    PROVE  /\ Refilled(k, now, t) \in Nat /\ Charges(k) * One(k) \in Nat
           /\ Refilled(k, now, t) + Charges(k) * One(k) >= Full(k)
<1> DEFINE paid == Charges(k) * One(k)
           left == Refilled(k, now, t)
<1>1. /\ paid \in Nat /\ Full(k) \in Nat /\ tokens[k] \in Nat /\ now \in Nat
      /\ expires[k] \in Nat
  <2>1. Charges(k) \in Nat /\ One(k) \in Nat /\ Full(k) \in Nat
    BY ChargeNumbers, RuleValues
  <2>2. paid \in Nat
    BY <2>1, Products
  <2>3. /\ tokens[k] \in Nat /\ expires[k] \in Nat
        /\ now \in 0..MaxTime /\ MaxTime \in Nat
    BY OffsetsAssumption DEF GuardTypes, LimiterTypes, LimiterTypeOK, LimiterShape
  <2>4. QED
    BY <2>1, <2>2, <2>3
<1>2. left \in 0..Full(k) /\ tokens[k] <= left
  <2>1. LimiterTypes /\ now \in Int
    BY <1>1 DEF GuardTypes
  <2>2. QED
    BY <2>1, RefillBounds
<1>3. ~Exists(k, now) => left = Full(k)
  BY DEF Refilled
<1>4. Exists(k, now) => tokens[k] + paid >= Full(k)
  BY <1>1 DEF TokensPaidFor, Exists
<1> HIDE DEF paid, left
<1>5. left \in Nat /\ left + paid >= Full(k)
  BY <1>1, <1>2, <1>3, <1>4
<1>6. QED
  BY <1>1, <1>5 DEF paid, left

\* A run of the script keeps the account of the tokens, and refuses only when
\* the allowance is used.
LEMMA RefusalStep ==
    ASSUME RefusalInvariant, NEW a \in Attempts, AttemptMoves(a)
    PROVE  RefusalInvariant'
<1> DEFINE current == CurrentKey(a)
<1>1. /\ GuardTypes /\ GuardTypes' /\ pc[a] \in Calling /\ current \in Identities
      /\ now \in Int
  BY AttemptTypes, OffsetsAssumption
     DEF RefusalInvariant, AttemptMoves, GuardTypes, LimiterTypes, LimiterTypeOK
<1>2. ASSUME NEW k \in Identities, \E b \in Attempts : RequestKey[b] = k
      PROVE  TokensPaidFor(k)'
  <2>1. TokensPaidFor(k)
    BY <1>2 DEF RefusalInvariant
  <2> DEFINE c == Charges(k)
             d == Charges(k)'
             r == One(k)
  <2>2. c \in Nat /\ d \in Nat /\ c <= d /\ r \in Nat /\ Full(k) \in Nat
    <3>1. c \in Nat /\ d \in Nat /\ c <= d
      BY <1>1, ChargeNumbers, ChargesAfter
    <3>2. QED
      BY <3>1, RuleValues
  <2>3. c * r \in Nat /\ d * r \in Nat /\ c * r <= d * r
    <3> HIDE DEF c, d, r
    <3>1. QED
      BY <2>2, Products
  <2>4. CASE k = current /\ Ran(a)
    <3>1. PICK t \in Int : RanAt(a, t)
      BY <1>1, <2>4, RunOfAttempt
    <3>2. Refilled(k, now, t) \in Nat /\ Refilled(k, now, t) + c * r >= Full(k)
      BY <1>1, <2>1, RefilledPaidFor
    <3>3. \/ answer'[k] = "allowed" /\ tokens'[k] = Refilled(k, now, t) - r
          \/ tokens'[k] = Refilled(k, now, t)
      BY <2>4, <3>1 DEF RanAt
    <3>4. CASE answer'[k] = "allowed" /\ tokens'[k] = Refilled(k, now, t) - r
      <4>1. pc[a] = "arrived"
        BY <1>1, <1>2, <2>4, CallKeys, KeysAssumption DEF Calling
      <4>2. c + 1 <= d
        BY <1>1, <2>4, <3>4, <4>1, ChargesAfter
      <4>3. (c + 1) * r <= d * r /\ (c + 1) * r = c * r + r
        <5> HIDE DEF c, d, r
        <5>1. (c + 1) * r <= d * r
          BY <2>2, <4>2, Products
        <5>2. (c + 1) * r = c * r + 1 * r /\ 1 * r = r
          BY <2>2, Products
        <5>3. QED
          BY <5>1, <5>2
      <4> DEFINE x == c * r
                 y == d * r
      <4>4. tokens'[k] + y >= Full(k)
        <5>1. x \in Nat /\ y \in Nat /\ x + r <= y /\ Refilled(k, now, t) + x >= Full(k)
          BY <2>3, <3>2, <4>3
        <5> HIDE DEF x, y, r
        <5>2. QED
          BY <2>2, <3>2, <3>4, <5>1
      <4>5. QED
        BY <4>4 DEF TokensPaidFor, Full, One
    <3>5. CASE tokens'[k] = Refilled(k, now, t)
      <4> DEFINE x == c * r
                 y == d * r
      <4>1. tokens'[k] + y >= Full(k)
        <5>1. x \in Nat /\ y \in Nat /\ x <= y /\ Refilled(k, now, t) + x >= Full(k)
          BY <2>3, <3>2
        <5> HIDE DEF x, y, r
        <5>2. QED
          BY <2>2, <3>2, <3>5, <5>1
      <4>2. QED
        BY <4>1 DEF TokensPaidFor, Full, One
    <3>6. QED
      BY <3>3, <3>4, <3>5
  <2>5. CASE ~ (k = current /\ Ran(a))
    <3>1. tokens'[k] = tokens[k] /\ expires'[k] = expires[k]
      <4>1. CASE Ran(a)
        BY <1>1, <2>5, <4>1, RunOfAttempt DEF RanAt
      <4>2. CASE ~Ran(a)
        BY <4>2 DEF AttemptMoves, limiterVars
      <4>3. QED
        BY <4>1, <4>2
    <3> DEFINE x == c * r
               y == d * r
    <3>2. /\ x \in Nat /\ y \in Nat /\ x <= y /\ tokens[k] \in Nat
          /\ expires[k] # 0 => tokens[k] + x >= Full(k)
      BY <1>1, <2>1, <2>3 DEF TokensPaidFor, GuardTypes, LimiterTypes, LimiterShape
    <3>3. expires'[k] # 0 => tokens'[k] + y >= Full(k)
      <4> HIDE DEF x, y
      <4>1. QED
        BY <2>2, <3>1, <3>2
    <3>4. QED
      BY <3>3 DEF TokensPaidFor, Full, One
  <2>6. QED
    BY <2>4, <2>5
<1>3. ASSUME NEW b \in Attempts, pc'[b] = "refused"
      PROVE  LET k == RequestKey[b] IN
             Len(grants'[k]) + Cardinality(RepeatsOf(Sharing(k)))'
               >= Lesser(Immediate[k], Maximum[k])
  <2> DEFINE k == RequestKey[b]
             before == Len(grants[k]) + Cardinality(RepeatsOf(Sharing(k)))
             after == Len(grants'[k]) + Cardinality(RepeatsOf(Sharing(k)))'
             least == Lesser(Immediate[k], Maximum[k])
  <2>1. k \in Identities /\ Immediate[k] \in Nat /\ Maximum[k] \in Nat
        /\ One(k) \in Nat \ {0} /\ Full(k) = Immediate[k] * One(k)
    <3>1. k \in Identities
      BY KeysAssumption
    <3>2. QED
      BY <3>1, RuleValues
  <2>2. before \in Nat /\ after \in Nat /\ before <= after
    <3>1. /\ Len(grants[k]) \in Nat /\ Cardinality(RepeatsOf(Sharing(k))) \in Nat
      BY <1>1, <2>1, ChargeNumbers
    <3>2. /\ Len(grants'[k]) \in Nat /\ Cardinality(RepeatsOf(Sharing(k)))' \in Nat
      BY <1>1, <2>1, ChargesAfter
    <3>3. /\ Len(grants[k]) <= Len(grants'[k])
          /\ Cardinality(RepeatsOf(Sharing(k))) <= Cardinality(RepeatsOf(Sharing(k)))'
      BY <1>1, <2>1, ChargesAfter
    <3> DEFINE m == Len(grants[k])
               r == Cardinality(RepeatsOf(Sharing(k)))
               o == Len(grants'[k])
               q == Cardinality(RepeatsOf(Sharing(k)))'
    <3>4. m \in Nat /\ r \in Nat /\ o \in Nat /\ q \in Nat /\ m <= o /\ r <= q
      BY <3>1, <3>2, <3>3
    <3> HIDE DEF m, r, o, q
    <3>5. m + r \in Nat /\ o + q \in Nat /\ m + r <= o + q
      BY <3>4
    <3>6. QED
      BY <3>5 DEF m, r, o, q
  <2>3. before >= least
    <3>1. CASE pc[b] = "refused"
      BY <3>1 DEF RefusalInvariant, RefusedOnlyWhenSpent, Sharing
    <3>2. CASE pc[b] # "refused"
      <4>1. b = a /\ pc[a] = "arrived" /\ Ran(a) /\ answer'[current] = "limited"
        BY <1>3, <3>2 DEF AttemptMoves, Returned, Lost
      <4>2. current = k
        BY <1>1, <4>1, CallKeys
      <4>3. PICK t \in Int : RanAt(a, t)
        BY <1>1, <4>1, RunOfAttempt
      <4>4. ~Allowed(k, now, t)
        BY <4>1, <4>2, <4>3 DEF RanAt
      <4>5. /\ Refilled(k, now, t) \in Nat /\ Charges(k) * One(k) \in Nat
            /\ Refilled(k, now, t) + Charges(k) * One(k) >= Full(k)
        <5>1. TokensPaidFor(k)
          BY <1>3, <2>1 DEF RefusalInvariant
        <5>2. QED
          BY <1>1, <2>1, <5>1, RefilledPaidFor
      <4>6. Charges(k) \in Nat /\ Charges(k) <= before
        BY <1>1, <2>1, ChargeNumbers DEF Charges
      <4>7. CASE Refilled(k, now, t) < One(k)
        <5> DEFINE c == Charges(k)
                   r == One(k)
                   m == Immediate[k]
        <5>1. c \in Nat /\ m \in Nat /\ r \in Nat
          BY <2>1, <4>6
        <5>2. ~ (c + 1 <= m)
          <6> SUFFICES ASSUME c + 1 <= m PROVE FALSE
            OBVIOUS
          <6>1. Full(k) = m * r /\ Refilled(k, now, t) < r /\ Refilled(k, now, t) + c * r >= Full(k)
            BY <2>1, <4>5, <4>7, <5>1, Products
          <6> HIDE DEF c, r, m
          <6>2. (c + 1) * r <= m * r
            BY <5>1, Products
          <6>3. (c + 1) * r = c * r + 1 * r /\ 1 * r = r
            BY <5>1, Products
          <6> DEFINE x == c * r
                     y == m * r
          <6>4. x \in Nat /\ y \in Nat /\ x + r <= y /\ Refilled(k, now, t) + x >= y
            BY <5>1, <6>1, <6>2, <6>3, Products
          <6> HIDE DEF x, y
          <6>5. QED
            BY <4>5, <5>1, <6>1, <6>4
        <5>3. c >= m
          <6> HIDE DEF c, m
          <6>1. QED
            BY <5>1, <5>2
        <5>4. QED
          BY <2>1, <2>2, <4>6, <5>3 DEF Lesser
      <4>8. CASE ~ (Count(k, now, t) < Maximum[k])
        <5>1. /\ Count(k, now, t) \in Nat
              /\ DOMAIN Pruned(k, now, t) \subseteq DOMAIN grants[k]
          BY <1>1, <2>1, PrunedMembers DEF GuardTypes
        <5>2. /\ DOMAIN grants[k] = 1..Len(grants[k]) /\ Len(grants[k]) \in Nat
          BY <1>1, <2>1 DEF GuardTypes, LimiterTypes, LimiterTypeOK
        <5>3. IsFiniteSet(1..Len(grants[k])) /\ Cardinality(1..Len(grants[k])) = Len(grants[k])
          <6> DEFINE l == Len(grants[k])
          <6>1. l \in Int /\ l >= 0
            BY <5>2
          <6> HIDE DEF l
          <6>2. IsFiniteSet(1..l) /\ Cardinality(1..l) = IF 1 > l THEN 0 ELSE l - 1 + 1
            BY <6>1, FS_Interval
          <6>3. Cardinality(1..l) = l
            BY <6>1, <6>2
          <6>4. QED
            BY <6>2, <6>3 DEF l
        <5>4. Count(k, now, t) <= Len(grants[k])
          BY <5>1, <5>2, <5>3, FS_Subset DEF Count
        <5>5. Cardinality(RepeatsOf(Sharing(k))) \in Nat
          BY <1>1, <2>1, ChargeNumbers
        <5>6. QED
          BY <2>1, <4>8, <5>1, <5>2, <5>4, <5>5 DEF Lesser
      <4>9. QED
        <5>1. One(k) \in Nat /\ Refilled(k, now, t) \in Nat
          BY <2>1, <4>5
        <5>2. Refilled(k, now, t) < One(k) \/ ~ (Count(k, now, t) < Maximum[k])
          BY <4>4, <5>1 DEF Allowed
        <5>3. QED
          BY <4>7, <4>8, <5>2
    <3>3. QED
      BY <3>1, <3>2
  <2>4. least \in Nat
    BY <2>1 DEF Lesser
  <2> HIDE DEF before, after, least
  <2>5. after >= least
    BY <2>2, <2>3, <2>4
  <2>6. QED
    BY <2>5 DEF after, least
<1>4. RefusedOnlyWhenSpent'
  BY <1>3 DEF RefusedOnlyWhenSpent, Sharing, Lesser
<1>5. QED
  BY <1>1, <1>2, <1>4 DEF RefusalInvariant

\* A client is answered 429 only after requests of its IP, or calls Redis was
\* sent again for them, used the allowance: an outage refuses nobody
\* (rate_limit.go:60-61), whatever the clocks of the instances are.
THEOREM RefusalsAreSpent == GuardSpec => []RefusedOnlyWhenSpent
<1>1. GuardInit => RefusalInvariant
  BY GuardTypesStart
     DEF GuardInit, LimiterInit, RefusalInvariant, RefusedOnlyWhenSpent, TokensPaidFor
<1>2. RefusalInvariant /\ [GuardNext]_<<limiterVars, guardVars>> => RefusalInvariant'
  <2> SUFFICES ASSUME RefusalInvariant, [GuardNext]_<<limiterVars, guardVars>>
               PROVE  RefusalInvariant'
    OBVIOUS
  <2>1. GuardTypes /\ GuardTypes'
    BY GuardTypesStep DEF RefusalInvariant
  <2>2. CASE GuardTick \/ UNCHANGED <<limiterVars, guardVars>>
    <3>1. /\ tokens' = tokens /\ expires' = expires /\ grants' = grants
          /\ pc' = pc /\ sent' = sent /\ repeats' = repeats
      BY <2>2 DEF GuardTick, Tick, limiterVars, guardVars
    <3>2. \A some : RepeatsOf(some)' = RepeatsOf(some)
      BY <3>1 DEF RepeatsOf
    <3>3. \A k : Charges(k)' = Charges(k)
      BY <3>1, <3>2 DEF Charges, RunAgain, Sharing
    <3>4. \A k : TokensPaidFor(k) => TokensPaidFor(k)'
      BY <3>1, <3>3 DEF TokensPaidFor, Full, One
    <3>5. RefusedOnlyWhenSpent'
      BY <3>1, <3>2 DEF RefusalInvariant, RefusedOnlyWhenSpent
    <3>6. QED
      BY <2>1, <3>4, <3>5 DEF RefusalInvariant
  <2>3. QED
    BY <2>1, <2>2, GuardSteps, RefusalStep
<1>3. RefusalInvariant => RefusedOnlyWhenSpent
  BY DEF RefusalInvariant
<1>4. QED
  BY <1>1, <1>2, <1>3, PTL DEF GuardSpec

-----------------------------------------------------------------------------
\* A source that is refused spares the identity

SourceKeys == {SourceKey[a] : a \in Attempts}
IdentityKeys == {IdentityKey[a] : a \in Attempts} \ {NoIdentity}

\* Attempts that their source was charged for and their identity not yet.
Owed ==
    {a \in Attempts : \/ pc[a] = "source" /\ AllowedBefore(a)
                      \/ pc[a] = "identity" /\ ~AllowedBefore(a)}

SourceInvariant ==
    /\ GuardTypes
    /\ IsFiniteSet(Granted(SourceKeys)) /\ IsFiniteSet(Granted(IdentityKeys))
    /\ Cardinality(Granted(IdentityKeys)) + Cardinality(Owed)
         <= Cardinality(Granted(SourceKeys))

\* The script allows a call of a for the first time.
FirstAllowed(a) == Ran(a) /\ ~AllowedBefore(a) /\ answer'[CurrentKey(a)] = "allowed"

\* A request is granted only by a run that allows its call for the first time.
LEMMA GrantedAfter ==
    ASSUME GuardTypes, NEW a \in Attempts, AttemptMoves(a), NEW K \in SUBSET Identities
    PROVE  LET k == CurrentKey(a) IN
           /\ FirstAllowed(a) /\ k \in K =>
                 /\ Granted(K)' = Granted(K) \cup {<<k, NewMember(k)>>}
                 /\ <<k, NewMember(k)>> \notin Granted(K)
           /\ ~ (FirstAllowed(a) /\ k \in K) => Granted(K)' = Granted(K)
<1> DEFINE k == CurrentKey(a)
<1>1. pc[a] \in Calling /\ k \in Identities /\ grants[k] \in Seq(0..MaxTime) /\ now \in 0..MaxTime
  BY DEF AttemptMoves, GuardTypes, LimiterTypes, LimiterTypeOK
<1>2. /\ \A j \in Identities \ {k} : grants'[j] = grants[j]
      /\ FirstAllowed(a) => grants'[k] = Append(grants[k], now)
      /\ ~FirstAllowed(a) => grants'[k] = grants[k]
  <2>1. CASE Ran(a)
    <3>1. PICK t \in Int : RanAt(a, t)
      BY <1>1, <2>1, RunOfAttempt
    <3>2. /\ \A j \in Identities \ {k} : grants'[j] = grants[j]
          /\ \/ /\ answer'[k] = "allowed" /\ ~AllowedBefore(a)
                /\ grants'[k] = Append(grants[k], now)
             \/ AllowedBefore(a) /\ grants'[k] = grants[k]
             \/ answer'[k] = "limited" /\ grants'[k] = grants[k]
      BY <3>1 DEF RanAt
    <3>3. QED
      BY <2>1, <3>2 DEF FirstAllowed
  <2>2. CASE ~Ran(a)
    BY <2>2 DEF AttemptMoves, FirstAllowed, limiterVars
  <2>3. QED
    BY <2>1, <2>2
<1>3. /\ DOMAIN Append(grants[k], now) = DOMAIN grants[k] \cup {NewMember(k)}
      /\ NewMember(k) \notin DOMAIN grants[k]
  <2>1. /\ DOMAIN grants[k] = 1..Len(grants[k]) /\ Len(grants[k]) \in Nat
        /\ DOMAIN Append(grants[k], now) = 1..(Len(grants[k]) + 1)
    BY <1>1
  <2>2. QED
    BY <2>1 DEF NewMember
<1>4. /\ \A p : p \in Granted(K) <=> \E j \in K : \E n \in DOMAIN grants[j] : p = <<j, n>>
      /\ \A p : p \in Granted(K)' <=> \E j \in K : \E n \in DOMAIN grants'[j] : p = <<j, n>>
  BY DEF Granted
<1> HIDE DEF k
<1>5. CASE FirstAllowed(a) /\ k \in K
  <2>1. Granted(K)' = Granted(K) \cup {<<k, NewMember(k)>>}
    <3>1. \A p : p \in Granted(K)' <=> p \in Granted(K) \cup {<<k, NewMember(k)>>}
      BY <1>2, <1>3, <1>4, <1>5
    <3>2. QED
      BY <3>1
  <2>2. <<k, NewMember(k)>> \notin Granted(K)
    BY <1>3, <1>4
  <2>3. QED
    BY <1>5, <2>1, <2>2 DEF k
<1>6. CASE ~ (FirstAllowed(a) /\ k \in K)
  <2>1. \A j \in K : grants'[j] = grants[j]
    BY <1>2, <1>6
  <2>2. Granted(K)' = Granted(K)
    BY <2>1 DEF Granted
  <2>3. QED
    BY <1>6, <2>2 DEF k
<1>7. QED
  BY <1>5, <1>6

\* Who owes afterwards: an attempt joins when its source is charged for it, and
\* leaves when its identity is.
LEMMA OwedAfter ==
    ASSUME GuardTypes, NEW a \in Attempts, AttemptMoves(a)
    PROVE  /\ Owed' \subseteq Owed \cup {a}
           /\ a \in Owed' \ Owed => pc[a] = "source" /\ FirstAllowed(a)
           /\ pc[a] = "identity" /\ FirstAllowed(a) => a \in Owed \ Owed'
<1>1. \A b \in Attempts \ {a} : pc'[b] = pc[b] /\ AllowedBefore(b)' = AllowedBefore(b)
  BY DEF AttemptMoves, AllowedBefore
<1>2. Owed' \subseteq Owed \cup {a}
  BY <1>1 DEF Owed
<1>3. Returned(a) => ~AllowedBefore(a)'
  BY DEF Returned, AllowedBefore
<1>4. Lost(a) => (AllowedBefore(a)' <=> AllowedBefore(a) \/ FirstAllowed(a))
  <2> SUFFICES ASSUME Lost(a) PROVE AllowedBefore(a)' <=> AllowedBefore(a) \/ FirstAllowed(a)
    OBVIOUS
  <2>1. NewMember(CurrentKey(a)) \in Nat \ {0} /\ updated_at'[CurrentKey(a)] \in Int
    <3>1. CurrentKey(a) \in Identities /\ pc[a] \in Calling /\ Ran(a)
      BY DEF AttemptMoves, Lost
    <3>2. grants[CurrentKey(a)] \in Seq(0..MaxTime) /\ LimiterTypes'
      BY <3>1, RunOfAttempt DEF GuardTypes, LimiterTypes, LimiterTypeOK
    <3>3. updated_at'[CurrentKey(a)] \in Int
      BY <3>1, <3>2 DEF LimiterTypes, LimiterTypeOK
    <3>4. QED
      BY <3>2, <3>3 DEF NewMember
  <2>2. AllowedBefore(a) => sent[a].member \in Nat \ {0}
    BY DEF AllowedBefore, GuardTypes, GuardTypeOK
  <2> DEFINE m == IF AllowedBefore(a) THEN sent[a].member
                  ELSE IF answer'[CurrentKey(a)] = "allowed" THEN NewMember(CurrentKey(a)) ELSE 0
  <2>3. sent'[a] = [time |-> updated_at'[CurrentKey(a)], member |-> m] /\ Ran(a)
    BY DEF Lost
  <2>4. m \in Nat /\ (m # 0 <=> AllowedBefore(a) \/ FirstAllowed(a))
    BY <2>1, <2>2, <2>3 DEF FirstAllowed
  <2> HIDE DEF m
  <2>5. sent'[a] # Unsent
    BY <2>1, <2>3, <2>4, KeysAssumption
  <2>6. QED
    BY <2>3, <2>4, <2>5 DEF AllowedBefore
<1>5. a \in Owed' \ Owed => pc[a] = "source" /\ FirstAllowed(a)
  <2>1. CASE Returned(a)
    <3>1. SUFFICES ASSUME a \in Owed', a \notin Owed PROVE pc[a] = "source" /\ FirstAllowed(a)
      OBVIOUS
    <3>2. pc'[a] = "identity"
      BY <1>3, <2>1, <3>1 DEF Owed
    <3>3. pc[a] = "source" /\ Ran(a) /\ answer'[CurrentKey(a)] = "allowed"
      BY <2>1, <3>2 DEF Returned
    <3>4. QED
      BY <3>1, <3>3 DEF Owed, FirstAllowed
  <2>2. CASE Lost(a)
    BY <1>4, <2>2 DEF Owed, Lost, FirstAllowed
  <2>3. QED
    BY <2>1, <2>2 DEF AttemptMoves
<1>6. pc[a] = "identity" /\ FirstAllowed(a) => a \in Owed \ Owed'
  <2> SUFFICES ASSUME pc[a] = "identity", FirstAllowed(a) PROVE a \in Owed \ Owed'
    OBVIOUS
  <2>1. a \in Owed
    BY DEF Owed, FirstAllowed
  <2>2. CASE Returned(a)
    BY <2>1, <2>2 DEF Returned, Owed
  <2>3. CASE Lost(a)
    BY <1>4, <2>1, <2>3 DEF Lost, Owed
  <2>4. QED
    BY <2>2, <2>3 DEF AttemptMoves
<1>7. QED
  BY <1>2, <1>5, <1>6

\* What the identities are charged, and what they still may be, never exceeds
\* what the sources are.
LEMMA SourceStep ==
    ASSUME SourceInvariant, NEW a \in Attempts, AttemptMoves(a)
    PROVE  SourceInvariant'
<1> DEFINE k == CurrentKey(a)
           IDs == Granted(IdentityKeys)
           Srcs == Granted(SourceKeys)
<1>1. GuardTypes /\ GuardTypes' /\ pc[a] \in Calling
  BY AttemptTypes DEF SourceInvariant, AttemptMoves
<1>2. SourceKeys \in SUBSET Identities /\ IdentityKeys \in SUBSET Identities
  BY KeysAssumption DEF SourceKeys, IdentityKeys
<1>3. /\ k \in SourceKeys => pc[a] = "source"
      /\ k \in IdentityKeys => pc[a] = "identity"
      /\ pc[a] = "identity" => k \in IdentityKeys
      /\ pc[a] = "source" => k \in SourceKeys
  BY <1>1, CallKeys, KeysAssumption DEF SourceKeys, IdentityKeys, Calling, GuardTypes
<1>4. /\ IsFiniteSet(IDs) /\ IsFiniteSet(Srcs) /\ IsFiniteSet(Owed) /\ IsFiniteSet(Owed')
      /\ Cardinality(IDs) + Cardinality(Owed) <= Cardinality(Srcs)
  BY KeysAssumption, FS_Subset DEF SourceInvariant, Owed
<1>5. /\ Cardinality(IDs) \in Nat /\ Cardinality(Srcs) \in Nat
      /\ Cardinality(Owed) \in Nat /\ Cardinality(Owed') \in Nat
  BY <1>4, FS_CardinalityType
<1>6. /\ Owed' \subseteq Owed \cup {a}
      /\ a \in Owed' \ Owed => pc[a] = "source" /\ FirstAllowed(a)
      /\ pc[a] = "identity" /\ FirstAllowed(a) => a \in Owed \ Owed'
  BY <1>1, OwedAfter
<1>7. /\ FirstAllowed(a) /\ pc[a] = "source" =>
            Srcs' = Srcs \cup {<<k, NewMember(k)>>} /\ <<k, NewMember(k)>> \notin Srcs
      /\ ~ (FirstAllowed(a) /\ pc[a] = "source") => Srcs' = Srcs
  BY <1>1, <1>2, <1>3, GrantedAfter
<1>8. /\ FirstAllowed(a) /\ pc[a] = "identity" =>
            IDs' = IDs \cup {<<k, NewMember(k)>>} /\ <<k, NewMember(k)>> \notin IDs
      /\ ~ (FirstAllowed(a) /\ pc[a] = "identity") => IDs' = IDs
  BY <1>1, <1>2, <1>3, GrantedAfter
<1> DEFINE new == <<k, NewMember(k)>>
<1>9. SUFFICES /\ IsFiniteSet(IDs') /\ IsFiniteSet(Srcs')
               /\ Cardinality(IDs') + Cardinality(Owed') <= Cardinality(Srcs')
  BY <1>1 DEF SourceInvariant
<1> HIDE DEF k, IDs, Srcs, new
<1>10. CASE FirstAllowed(a) /\ pc[a] = "source"
  <2>1. /\ IsFiniteSet(Srcs') /\ Cardinality(Srcs') = Cardinality(Srcs) + 1 /\ IDs' = IDs
    BY <1>4, <1>7, <1>8, <1>10, FS_AddElement DEF new
  <2>2. Cardinality(Owed') <= Cardinality(Owed) + 1
    <3>1. IsFiniteSet(Owed \cup {a}) /\ Cardinality(Owed \cup {a}) <= Cardinality(Owed) + 1
      <4>1. /\ IsFiniteSet(Owed \cup {a})
            /\ \/ Cardinality(Owed \cup {a}) = Cardinality(Owed)
               \/ Cardinality(Owed \cup {a}) = Cardinality(Owed) + 1
        BY <1>4, FS_AddElement
      <4>2. QED
        BY <1>5, <4>1
    <3>2. Cardinality(Owed') <= Cardinality(Owed \cup {a}) /\ Cardinality(Owed \cup {a}) \in Nat
      BY <1>6, <3>1, FS_Subset, FS_CardinalityType
    <3>3. QED
      BY <1>5, <3>1, <3>2
  <2>3. QED
    BY <1>4, <1>5, <2>1, <2>2
<1>11. CASE FirstAllowed(a) /\ pc[a] = "identity"
  <2>1. /\ IsFiniteSet(IDs') /\ Cardinality(IDs') = Cardinality(IDs) + 1 /\ Srcs' = Srcs
    BY <1>4, <1>7, <1>8, <1>11, FS_AddElement DEF new
  <2>2. Cardinality(Owed') <= Cardinality(Owed) - 1
    <3>1. IsFiniteSet(Owed \ {a}) /\ Cardinality(Owed \ {a}) = Cardinality(Owed) - 1
      BY <1>4, <1>6, <1>11, FS_RemoveElement
    <3>2. Owed' \subseteq Owed \ {a}
      BY <1>6, <1>11
    <3>3. QED
      BY <3>1, <3>2, FS_Subset
  <2>3. QED
    BY <1>4, <1>5, <2>1, <2>2
<1>12. CASE ~ (FirstAllowed(a) /\ pc[a] \in {"source", "identity"})
  <2>1. IDs' = IDs /\ Srcs' = Srcs
    BY <1>7, <1>8, <1>12
  <2>2. Cardinality(Owed') <= Cardinality(Owed)
    <3>1. Owed' \subseteq Owed
      BY <1>6, <1>12
    <3>2. QED
      BY <1>4, <3>1, FS_Subset
  <2>3. QED
    BY <1>4, <1>5, <2>1, <2>2
<1>13. QED
  BY <1>10, <1>11, <1>12

\* For any attempts, rules and losses, blocked, failed and unanswered checks of
\* a source leave the email or account it aimed at as it was: Check asks for
\* the identity only after the source was allowed (attempt_guards.go:62-84).
THEOREM SourceSparesIdentity == GuardSpec => []BlockedSourceSparesIdentity
<1>1. GuardInit => SourceInvariant
  <2> SUFFICES ASSUME GuardInit PROVE SourceInvariant
    OBVIOUS
  <2>1. Granted(SourceKeys) = {} /\ Granted(IdentityKeys) = {} /\ Owed = {}
    <3>1. ASSUME NEW K \in SUBSET Identities PROVE Granted(K) = {}
      BY DEF GuardInit, LimiterInit, Granted
    <3>2. SourceKeys \in SUBSET Identities /\ IdentityKeys \in SUBSET Identities
      BY KeysAssumption DEF SourceKeys, IdentityKeys
    <3>3. QED
      BY <3>1, <3>2 DEF GuardInit, Owed
  <2>2. QED
    BY <2>1, GuardTypesStart, FS_EmptySet DEF SourceInvariant
<1>2. SourceInvariant /\ [GuardNext]_<<limiterVars, guardVars>> => SourceInvariant'
  <2> SUFFICES ASSUME SourceInvariant, [GuardNext]_<<limiterVars, guardVars>>
               PROVE  SourceInvariant'
    OBVIOUS
  <2>1. GuardTypes /\ GuardTypes'
    BY GuardTypesStep DEF SourceInvariant
  <2>2. CASE GuardTick \/ UNCHANGED <<limiterVars, guardVars>>
    <3>1. grants' = grants /\ pc' = pc /\ sent' = sent
      BY <2>2 DEF GuardTick, Tick, limiterVars, guardVars
    <3>2. QED
      BY <2>1, <3>1 DEF SourceInvariant, Granted, Owed, AllowedBefore
  <2>3. QED
    BY <2>1, <2>2, GuardSteps, SourceStep
<1>3. SourceInvariant => BlockedSourceSparesIdentity
  <2> SUFFICES ASSUME SourceInvariant PROVE BlockedSourceSparesIdentity
    OBVIOUS
  <2>1. IsFiniteSet(Owed)
    BY KeysAssumption, FS_Subset DEF Owed
  <2>2. /\ Cardinality(Owed) \in Nat /\ Cardinality(Granted(SourceKeys)) \in Nat
        /\ Cardinality(Granted(IdentityKeys)) \in Nat
    BY <2>1, FS_CardinalityType DEF SourceInvariant
  <2>3. Cardinality(Granted(IdentityKeys)) <= Cardinality(Granted(SourceKeys))
    BY <2>2 DEF SourceInvariant
  <2>4. QED
    BY <2>3 DEF BlockedSourceSparesIdentity, SourceKeys, IdentityKeys
<1>4. QED
  BY <1>1, <1>2, <1>3, PTL DEF GuardSpec

-----------------------------------------------------------------------------
\* The budget of an email or account

\* The members of k's window with a score of at least t, and the attempts
\* against k that passed at t or later, each by calls that were sent once.
MembersSince(k, t) == {n \in DOMAIN window[k] : window[k][n] >= t}
AdmittedSince(k, t) ==
    {a \in Attempts \ SentAgain : pc[a] = "admitted" /\ IdentityKey[a] = k /\ passed_at[a] >= t}

\* No score is ahead of the clock, and the key outlives its members' window.
ScoresKept(k) ==
    \A n \in DOMAIN window[k] : window[k][n] <= now /\ window[k][n] + Window[k] <= expires[k]

\* A call that waits to be sent again carries the score its member has, and no
\* two calls have the same member.
CallKept(a) ==
    /\ sent[a] # Unsent => sent[a].time <= now
    /\ AllowedBefore(a) =>
          /\ sent[a].member \in DOMAIN window[CurrentKey(a)] =>
                window[CurrentKey(a)][sent[a].member] = sent[a].time
          /\ \A b \in Attempts \ {a} : AllowedBefore(b) /\ CurrentKey(b) = CurrentKey(a)
                => sent[b].member # sent[a].member

BudgetInvariant ==
    /\ GuardTypes
    /\ GuessBudget
    /\ \A a \in Attempts : CallKept(a)
    /\ \A k \in Identities : ScoresKept(k)
    /\ \A k \in Identities, t \in 0..MaxTime : t > now - Window[k] =>
          Cardinality(AdmittedSince(k, t)) <= Cardinality(MembersSince(k, t))

\* The time of a prompt call is never ahead of the clock of Redis.
LEMMA CallTimes ==
    ASSUME Prompt, GuardTypes, NEW a \in Attempts, CallKept(a), NEW t \in Int, RanAt(a, t)
    PROVE  /\ t <= now /\ now \in Nat
           /\ sent[a] = Unsent => t = now
           /\ AllowedBefore(a) => t = sent[a].time
<1>1. now \in Nat
  BY OffsetsAssumption DEF GuardTypes, LimiterTypes, LimiterTypeOK
<1>2. sent[a] = Unsent => t = now
  BY <1>1 DEF RanAt, Prompt
<1>3. sent[a] # Unsent => t = sent[a].time /\ sent[a].time <= now
  BY DEF RanAt, CallKept
<1>4. QED
  BY <1>1, <1>2, <1>3 DEF AllowedBefore

\* The member the script adds for a, if it allows a's call.
Added(a) == IF AllowedBefore(a) THEN sent[a].member ELSE NewMember(CurrentKey(a))

\* The window after a run: what pruning left, and the member of the call.
LEMMA WindowAfter ==
    ASSUME GuardTypes, NEW a \in Attempts, pc[a] \in Calling, NEW t \in Int, RanAt(a, t)
    PROVE  LET k == CurrentKey(a) IN
           /\ DOMAIN window'[k] = DOMAIN Pruned(k, now, t)
                                     \cup (IF answer'[k] = "allowed" THEN {Added(a)} ELSE {})
           /\ \A n \in DOMAIN window'[k] :
                 IF answer'[k] = "allowed" /\ n = Added(a) THEN window'[k][n] = t
                 ELSE n \in DOMAIN window[k] /\ window'[k][n] = window[k][n]
           /\ DOMAIN Pruned(k, now, t) =
                 {n \in DOMAIN window[k] : Exists(k, now) /\ window[k][n] > t - Window[k]}
           /\ NewMember(k) \notin DOMAIN window[k] /\ NewMember(k) \notin DOMAIN grants[k]
           /\ DOMAIN window[k] \subseteq DOMAIN grants[k]
<1> DEFINE k == CurrentKey(a)
<1>1. k \in Identities /\ LimiterTypes /\ now \in Int
  BY CallKeys, OffsetsAssumption DEF GuardTypes, LimiterTypes, LimiterTypeOK
<1> HIDE DEF k
<1> DEFINE kept == Pruned(k, now, t)
<1>2. /\ DOMAIN kept =
            {n \in DOMAIN window[k] : Exists(k, now) /\ window[k][n] > t - Window[k]}
      /\ kept = [n \in DOMAIN kept |-> window[k][n]]
      /\ DOMAIN kept \subseteq DOMAIN window[k]
  BY DEF Pruned, Restrict
<1> HIDE DEF kept
<1>3. NewMember(k) \notin DOMAIN grants[k] /\ DOMAIN window[k] \subseteq DOMAIN grants[k]
  <2>1. grants[k] \in Seq(0..MaxTime) /\ DOMAIN window[k] \subseteq DOMAIN grants[k]
    BY <1>1 DEF LimiterTypes, LimiterTypeOK
  <2>2. QED
    BY <2>1 DEF NewMember
<1>4. \/ answer'[k] = "allowed" /\ window'[k] = WithMember(kept, Added(a), t)
      \/ answer'[k] = "limited" /\ window'[k] = kept
  BY DEF RanAt, Added, k, kept
<1>5. \A n \in DOMAIN kept : kept[n] = window[k][n] /\ n \in DOMAIN window[k]
  <2> DEFINE S == DOMAIN kept
  <2>1. kept = [n \in S |-> window[k][n]] /\ S \subseteq DOMAIN window[k]
    BY <1>2
  <2>2. \A n \in S : [m \in S |-> window[k][m]][n] = window[k][n]
    OBVIOUS
  <2>3. QED
    BY <2>1, <2>2
<1>6. CASE answer'[k] = "allowed" /\ window'[k] = WithMember(kept, Added(a), t)
  <2>1. /\ DOMAIN window'[k] = DOMAIN kept \cup {Added(a)}
        /\ \A n \in DOMAIN window'[k] :
              window'[k][n] = IF n = Added(a) THEN t ELSE kept[n]
    BY <1>6 DEF WithMember
  <2>2. QED
    BY <1>2, <1>3, <1>5, <1>6, <2>1 DEF k, kept
<1>7. CASE answer'[k] = "limited" /\ window'[k] = kept
  BY <1>2, <1>3, <1>5, <1>7 DEF k, kept
<1>8. QED
  BY <1>4, <1>6, <1>7

\* Scores stay behind the clock, and keys outlive them (line 50).
LEMMA ScoresAfter ==
    ASSUME Prompt, BudgetInvariant, NEW a \in Attempts, AttemptMoves(a), NEW k \in Identities
    PROVE  ScoresKept(k)'
<1>1. GuardTypes /\ pc[a] \in Calling /\ CallKept(a) /\ ScoresKept(k)
  BY DEF BudgetInvariant, AttemptMoves
<1>2. CASE Ran(a)
  <2>1. PICK t \in Int : RanAt(a, t)
    BY <1>1, <1>2, RunOfAttempt
  <2>2. t <= now /\ now \in Nat /\ now' = now
    BY <1>1, <2>1, CallTimes DEF RanAt
  <2>3. CASE k = CurrentKey(a)
    <3>1. expires'[k] = now + Lifespan(k) /\ Lifespan(k) \in Nat /\ Window[k] \in Nat
          /\ Window[k] <= Lifespan(k)
      BY <2>1, <2>3, RuleValues DEF RanAt
    <3>2. ASSUME NEW n \in DOMAIN window'[k] PROVE window'[k][n] \in Int /\ window'[k][n] <= now
      <4>1. \A m \in DOMAIN window[k] : window[k][m] \in Int /\ window[k][m] <= now
        <5>1. window[k] \in [DOMAIN window[k] -> Int]
          BY <1>1 DEF GuardTypes, LimiterTypes, LimiterTypeOK
        <5>2. QED
          BY <1>1, <5>1 DEF ScoresKept
      <4>2. \/ window'[k][n] = t
            \/ n \in DOMAIN window[k] /\ window'[k][n] = window[k][n]
        <5> DEFINE c == CurrentKey(a)
        <5>1. \A m \in DOMAIN window'[c] :
                 IF answer'[c] = "allowed" /\ m = Added(a) THEN window'[c][m] = t
                 ELSE m \in DOMAIN window[c] /\ window'[c][m] = window[c][m]
          BY <1>1, <2>1, WindowAfter
        <5> HIDE DEF c
        <5>2. k = c
          BY <2>3 DEF c
        <5>3. QED
          BY <5>1, <5>2
      <4>3. QED
        BY <2>2, <4>1, <4>2
    <3>3. QED
      BY <2>2, <3>1, <3>2 DEF ScoresKept
  <2>4. CASE k # CurrentKey(a)
    BY <1>1, <2>1, <2>2, <2>4 DEF RanAt, ScoresKept
  <2>5. QED
    BY <2>3, <2>4
<1>3. CASE ~Ran(a)
  BY <1>1, <1>3 DEF AttemptMoves, limiterVars, ScoresKept
<1>4. QED
  BY <1>2, <1>3

\* A call sent again writes the score its member has already, so that every
\* member keeps its score, and the members of distinct calls stay distinct.
LEMMA CallsAfter ==
    ASSUME Prompt, BudgetInvariant, NEW a \in Attempts, AttemptMoves(a), NEW b \in Attempts
    PROVE  CallKept(b)'
<1> DEFINE k == CurrentKey(a)
<1>1. /\ GuardTypes /\ GuardTypes' /\ pc[a] \in Calling /\ k \in Identities
      /\ \A c \in Attempts : CallKept(c)
  BY AttemptTypes DEF BudgetInvariant, AttemptMoves
<1>2. ASSUME NEW c \in Attempts \ {a}
      PROVE  /\ sent'[c] = sent[c] /\ AllowedBefore(c)' = AllowedBefore(c)
             /\ CurrentKey(c)' = CurrentKey(c)
             /\ AllowedBefore(c) => /\ CurrentKey(c) \in Identities
                                    /\ sent[c].member \in DOMAIN grants[CurrentKey(c)]
  <2>1. sent'[c] = sent[c] /\ pc'[c] = pc[c]
    BY DEF AttemptMoves
  <2>2. AllowedBefore(c) => /\ pc[c] \in Calling
                            /\ sent[c].member \in DOMAIN grants[CurrentKey(c)]
    BY <1>1 DEF GuardTypes, GuardTypeOK, Calling
  <2>3. QED
    BY <1>1, <2>1, <2>2, CallKeys DEF AllowedBefore, CurrentKey
<1>3. now' = now /\ now \in Nat
  <2>1. CASE Ran(a)
    BY <1>1, <2>1, RunOfAttempt, OffsetsAssumption
       DEF RanAt, GuardTypes, LimiterTypes, LimiterTypeOK
  <2>2. CASE ~Ran(a)
    BY <1>1, <2>2, OffsetsAssumption
       DEF AttemptMoves, limiterVars, GuardTypes, LimiterTypes, LimiterTypeOK
  <2>3. QED
    BY <2>1, <2>2
\* The call of a after the step: the one it was, or a new one.
<1>4. AllowedBefore(a)' =>
         /\ Lost(a) /\ CurrentKey(a)' = k /\ sent'[a].member = Added(a)
         /\ AllowedBefore(a) \/ answer'[k] = "allowed"
  <2> SUFFICES ASSUME AllowedBefore(a)'
               PROVE  /\ Lost(a) /\ CurrentKey(a)' = k /\ sent'[a].member = Added(a)
                      /\ AllowedBefore(a) \/ answer'[k] = "allowed"
    OBVIOUS
  <2>1. Lost(a)
    BY DEF AttemptMoves, Returned, AllowedBefore
  <2>2. CurrentKey(a)' = k
    BY <2>1 DEF Lost, CurrentKey
  <2>3. sent'[a].member # 0
    BY DEF AllowedBefore
  <2>4. QED
    BY <2>1, <2>2, <2>3 DEF Lost, Added
<1>5. NewMember(k) \notin DOMAIN grants[k]
  <2>1. grants[k] \in Seq(0..MaxTime)
    BY <1>1 DEF GuardTypes, LimiterTypes, LimiterTypeOK
  <2>2. QED
    BY <2>1 DEF NewMember
<1>6. ASSUME NEW c \in Attempts \ {a}, AllowedBefore(c), CurrentKey(c) = k
      PROVE  sent[c].member # Added(a)
  BY <1>1, <1>2, <1>5, <1>6 DEF Added, CallKept
<1> HIDE DEF k
<1>7. CASE b # a
  <2>1. sent'[b] # Unsent => sent'[b].time <= now'
    BY <1>1, <1>2, <1>3, <1>7 DEF CallKept
  <2>2. ASSUME AllowedBefore(b)', sent'[b].member \in DOMAIN window'[CurrentKey(b)']
        PROVE  window'[CurrentKey(b)'][sent'[b].member] = sent'[b].time
    <3> DEFINE j == CurrentKey(b)
               n == sent[b].member
    <3>1. /\ AllowedBefore(b) /\ j \in Identities /\ n \in DOMAIN window'[j]
          /\ CurrentKey(b)' = j /\ sent'[b] = sent[b]
          /\ n \in DOMAIN window[j] => window[j][n] = sent[b].time
      BY <1>1, <1>2, <1>7, <2>2 DEF CallKept
    <3> HIDE DEF j, n
    <3>2. CASE Ran(a) /\ j = k
      <4>1. PICK t \in Int : RanAt(a, t)
        BY <1>1, <3>2, RunOfAttempt
      <4>2. n # Added(a)
        BY <1>6, <1>7, <3>1, <3>2 DEF j, n
      <4>3. n \in DOMAIN window[j] /\ window'[j][n] = window[j][n]
        <5> DEFINE i == CurrentKey(a)
        <5>1. \A m \in DOMAIN window'[i] :
                 IF answer'[i] = "allowed" /\ m = Added(a) THEN window'[i][m] = t
                 ELSE m \in DOMAIN window[i] /\ window'[i][m] = window[i][m]
          BY <1>1, <4>1, WindowAfter
        <5>2. i = j
          BY <3>2 DEF k
        <5> HIDE DEF i
        <5>3. QED
          BY <3>1, <4>2, <5>1, <5>2
      <4>4. QED
        BY <3>1, <4>3 DEF n
    <3>3. CASE ~ (Ran(a) /\ j = k)
      <4>1. window'[j] = window[j]
        <5>1. CASE Ran(a)
          BY <1>1, <3>1, <3>3, <5>1, RunOfAttempt DEF RanAt, k
        <5>2. CASE ~Ran(a)
          BY <5>2 DEF AttemptMoves, limiterVars
        <5>3. QED
          BY <5>1, <5>2
      <4>2. QED
        BY <3>1, <4>1 DEF n
    <3>4. QED
      BY <3>2, <3>3
  <2>3. ASSUME NEW c \in Attempts \ {b}, AllowedBefore(b)', AllowedBefore(c)',
               CurrentKey(c)' = CurrentKey(b)'
        PROVE  sent'[c].member # sent'[b].member
    <3>1. CASE c = a
      BY <1>2, <1>4, <1>6, <1>7, <2>3, <3>1
    <3>2. CASE c # a
      BY <1>1, <1>2, <1>7, <2>3, <3>2 DEF CallKept
    <3>3. QED
      BY <3>1, <3>2
  <2>4. QED
    BY <2>1, <2>2, <2>3 DEF CallKept
<1>8. CASE b = a
  <2>1. CASE Returned(a)
    BY <1>8, <2>1 DEF Returned, CallKept, AllowedBefore
  <2>2. CASE Lost(a)
    <3>1. PICK t \in Int : RanAt(a, t)
      BY <1>1, <2>2, RunOfAttempt DEF Lost
    <3>2. t <= now /\ updated_at'[k] = t /\ (AllowedBefore(a) => t = sent[a].time)
      BY <1>1, <3>1, CallTimes DEF RanAt, k
    <3>3. sent'[a].time = t
      BY <2>2, <3>2 DEF Lost, k
    <3>4. ASSUME AllowedBefore(a)', sent'[a].member \in DOMAIN window'[k]
          PROVE  window'[k][sent'[a].member] = t
      <4> DEFINE n == sent'[a].member
      <4>1. n = Added(a) /\ (AllowedBefore(a) \/ answer'[k] = "allowed")
        BY <1>4, <3>4
      <4>2. IF answer'[k] = "allowed" /\ n = Added(a) THEN window'[k][n] = t
            ELSE n \in DOMAIN window[k] /\ window'[k][n] = window[k][n]
        BY <1>1, <3>1, <3>4, WindowAfter DEF k
      <4>3. CASE answer'[k] = "allowed"
        BY <4>1, <4>2, <4>3
      <4>4. CASE answer'[k] # "allowed"
        <5>1. AllowedBefore(a) /\ n = sent[a].member
          BY <4>1, <4>4 DEF Added
        <5>2. QED
          BY <1>1, <3>2, <4>2, <4>4, <5>1 DEF CallKept, k
      <4>5. QED
        BY <4>3, <4>4
    <3>5. ASSUME NEW c \in Attempts \ {a}, AllowedBefore(a)', AllowedBefore(c)',
                 CurrentKey(c)' = CurrentKey(a)'
          PROVE  sent'[c].member # sent'[a].member
      BY <1>2, <1>4, <1>6, <3>5
    <3>6. QED
      BY <1>3, <1>4, <1>8, <3>2, <3>3, <3>4, <3>5 DEF CallKept
  <2>3. QED
    BY <2>1, <2>2 DEF AttemptMoves
<1>9. QED
  BY <1>7, <1>8

\* Members younger than the window stay, and an attempt that passes by a call
\* sent once adds one of its own.
LEMMA CountAfter ==
    ASSUME Prompt, BudgetInvariant, NEW a \in Attempts, AttemptMoves(a),
           NEW k \in Identities, NEW since \in 0..MaxTime, since > now - Window[k]
    PROVE  Cardinality(AdmittedSince(k, since))' <= Cardinality(MembersSince(k, since))'
<1> DEFINE members == MembersSince(k, since)
           admitted == AdmittedSince(k, since)
<1>1. /\ GuardTypes /\ GuardTypes' /\ pc[a] \in Calling /\ CallKept(a) /\ ScoresKept(k)
      /\ now \in Nat /\ MaxTime \in Nat /\ Window[k] \in Nat /\ since \in Nat
  <2>1. /\ GuardTypes /\ GuardTypes' /\ pc[a] \in Calling /\ CallKept(a) /\ ScoresKept(k)
    BY AttemptTypes DEF BudgetInvariant, AttemptMoves
  <2>2. now \in 0..MaxTime /\ MaxTime \in Nat /\ Window[k] \in Nat
    BY <2>1, RuleValues, OffsetsAssumption DEF GuardTypes, LimiterTypes, LimiterTypeOK
  <2>3. QED
    BY <2>1, <2>2
<1>2. /\ IsFiniteSet(members) /\ IsFiniteSet(members')
      /\ IsFiniteSet(admitted) /\ IsFiniteSet(admitted')
      /\ Cardinality(admitted) <= Cardinality(members)
  <2>1. IsFiniteSet(DOMAIN window[k]) /\ IsFiniteSet(DOMAIN window'[k])
    BY <1>1 DEF GuardTypes, LimiterTypes, LimiterTypeOK
  <2>2. members \subseteq DOMAIN window[k] /\ members' \subseteq DOMAIN window'[k]
    BY DEF MembersSince
  <2>3. admitted \subseteq Attempts /\ admitted' \subseteq Attempts
    BY DEF AdmittedSince
  <2>4. Cardinality(admitted) <= Cardinality(members)
    BY DEF BudgetInvariant
  <2>5. QED
    BY <2>1, <2>2, <2>3, <2>4, KeysAssumption, FS_Subset
<1>3. /\ Cardinality(members) \in Nat /\ Cardinality(members') \in Nat
      /\ Cardinality(admitted) \in Nat /\ Cardinality(admitted') \in Nat
  BY <1>2, FS_CardinalityType
<1>4. members \subseteq members'
  <2> SUFFICES ASSUME NEW n \in DOMAIN window[k], window[k][n] >= since
               PROVE  n \in DOMAIN window'[k] /\ window'[k][n] >= since
    BY DEF MembersSince
  <2>1. CASE Ran(a) /\ k = CurrentKey(a)
    <3>1. PICK t \in Int : RanAt(a, t)
      BY <1>1, <2>1, RunOfAttempt
    <3>2. t <= now /\ (AllowedBefore(a) => t = sent[a].time)
      BY <1>1, <3>1, CallTimes
    <3>3. window[k][n] \in Int /\ window[k][n] + Window[k] <= expires[k] /\ expires[k] \in Nat
      BY <1>1 DEF ScoresKept, GuardTypes, LimiterTypes, LimiterTypeOK, LimiterShape
    <3>4. Exists(k, now) /\ window[k][n] > t - Window[k]
      BY <1>1, <3>2, <3>3 DEF Exists
    <3>5. n \in DOMAIN window'[k]
      <4> DEFINE j == CurrentKey(a)
      <4>1. /\ DOMAIN window'[j] = DOMAIN Pruned(j, now, t)
                                     \cup (IF answer'[j] = "allowed" THEN {Added(a)} ELSE {})
            /\ DOMAIN Pruned(j, now, t) =
                  {m \in DOMAIN window[j] : Exists(j, now) /\ window[j][m] > t - Window[j]}
        BY <1>1, <3>1, WindowAfter
      <4>2. k = j
        BY <2>1
      <4> HIDE DEF j
      <4>3. n \in DOMAIN Pruned(k, now, t)
        BY <3>4, <4>1, <4>2
      <4>4. QED
        BY <4>1, <4>2, <4>3
    <3>6. window'[k][n] = window[k][n]
      <4>1. CASE answer'[k] = "allowed" /\ n = Added(a)
        <5>1. AllowedBefore(a) /\ n = sent[a].member
          BY <1>1, <2>1, <3>1, <4>1, WindowAfter DEF Added
        <5>2. window[k][n] = t
          BY <1>1, <2>1, <3>2, <5>1 DEF CallKept
        <5>3. QED
          BY <1>1, <2>1, <3>1, <3>5, <4>1, <5>2, WindowAfter
      <4>2. CASE ~ (answer'[k] = "allowed" /\ n = Added(a))
        BY <1>1, <2>1, <3>1, <3>5, <4>2, WindowAfter
      <4>3. QED
        BY <4>1, <4>2
    <3>7. QED
      BY <3>5, <3>6
  <2>2. CASE ~ (Ran(a) /\ k = CurrentKey(a))
    <3>1. window'[k] = window[k]
      <4>1. CASE Ran(a)
        BY <1>1, <2>2, <4>1, RunOfAttempt DEF RanAt
      <4>2. CASE ~Ran(a)
        BY <4>2 DEF AttemptMoves, limiterVars
      <4>3. QED
        BY <4>1, <4>2
    <3>2. QED
      BY <3>1
  <2>3. QED
    BY <2>1, <2>2
<1>5. admitted' \subseteq admitted \cup {a}
  <2> SUFFICES ASSUME NEW b \in Attempts \ {a}, b \in admitted' PROVE b \in admitted
    BY DEF AdmittedSince
  <2>1. pc'[b] = pc[b] /\ passed_at'[b] = passed_at[b] /\ repeats'[b] = repeats[b]
    BY DEF AttemptMoves
  <2>2. QED
    BY <2>1 DEF AdmittedSince, SentAgain
<1>6. CASE a \in admitted'
  <2>1. /\ pc'[a] = "admitted" /\ IdentityKey[a] = k /\ ~ (repeats'[a] > 0)
        /\ passed_at'[a] >= since
    BY <1>6 DEF AdmittedSince, SentAgain
  <2>2. Returned(a)
    BY <1>1, <2>1 DEF AttemptMoves, Lost, Calling
  <2>3. IdentityKey[a] # NoIdentity
    BY <2>1, KeysAssumption
  <2>4. /\ pc[a] = "identity" /\ Ran(a) /\ answer'[CurrentKey(a)] = "allowed"
        /\ passed_at'[a] = now
    BY <2>1, <2>2, <2>3 DEF Returned
  <2>5. CurrentKey(a) = k /\ sent[a] = Unsent /\ ~AllowedBefore(a)
    BY <1>1, <2>1, <2>2, <2>4, CallKeys DEF Returned, GuardTypes, AllowedBefore
  <2>6. PICK t \in Int : RanAt(a, t)
    BY <1>1, <2>4, RunOfAttempt
  <2>7. t = now
    BY <1>1, <2>5, <2>6, CallTimes
  <2>8. NewMember(k) \in members' /\ NewMember(k) \notin members
    <3>1. Added(a) = NewMember(k)
      BY <2>5 DEF Added
    <3>2. /\ NewMember(k) \in DOMAIN window'[k] /\ window'[k][NewMember(k)] = now
          /\ NewMember(k) \notin DOMAIN window[k]
      BY <1>1, <2>4, <2>5, <2>6, <2>7, <3>1, WindowAfter
    <3>3. now >= since
      BY <2>1, <2>4
    <3>4. QED
      BY <3>2, <3>3 DEF MembersSince
  <2> HIDE DEF members, admitted
  <2>9. Cardinality(members) + 1 <= Cardinality(members')
    <3>1. /\ IsFiniteSet(members \cup {NewMember(k)})
          /\ Cardinality(members \cup {NewMember(k)}) = Cardinality(members) + 1
      BY <1>2, <2>8, FS_AddElement
    <3>2. members \cup {NewMember(k)} \subseteq members'
      BY <1>4, <2>8
    <3>3. QED
      BY <1>2, <3>1, <3>2, FS_Subset
  <2>10. Cardinality(admitted') <= Cardinality(admitted) + 1
    <3>1. /\ IsFiniteSet(admitted \cup {a})
          /\ \/ Cardinality(admitted \cup {a}) = Cardinality(admitted)
             \/ Cardinality(admitted \cup {a}) = Cardinality(admitted) + 1
      BY <1>2, FS_AddElement
    <3>2. Cardinality(admitted') <= Cardinality(admitted \cup {a})
      BY <1>5, <3>1, FS_Subset
    <3>3. QED
      BY <1>3, <3>1, <3>2
  <2>11. Cardinality(admitted') <= Cardinality(members')
    BY <1>2, <1>3, <2>9, <2>10
  <2>12. QED
    BY <2>11 DEF members, admitted
<1>7. CASE a \notin admitted'
  <2>1. admitted' \subseteq admitted
    BY <1>5, <1>7
  <2> HIDE DEF members, admitted
  <2>2. /\ Cardinality(admitted') <= Cardinality(admitted)
        /\ Cardinality(members) <= Cardinality(members')
    BY <1>2, <1>4, <2>1, FS_Subset
  <2>3. Cardinality(admitted') <= Cardinality(members')
    BY <1>2, <1>3, <2>2
  <2>4. QED
    BY <2>3 DEF members, admitted
<1>8. QED
  BY <1>6, <1>7

\* The windows that reach up to now are bounded by the members of the sorted
\* set, and nobody joins an earlier one.
LEMMA BudgetAfter ==
    ASSUME Prompt, BudgetInvariant, NEW a \in Attempts, AttemptMoves(a),
           NEW e \in Identities, NEW t \in 0..MaxTime
    PROVE  Cardinality(AdmittedWithin(e, t) \ SentAgain)' <= Maximum[e]
<1> DEFINE S == AdmittedWithin(e, t) \ SentAgain
<1>1. /\ GuardTypes /\ GuardTypes' /\ pc[a] \in Calling
      /\ now \in Nat /\ Window[e] \in Nat /\ t \in Nat /\ Maximum[e] \in Nat
  <2>1. /\ GuardTypes /\ GuardTypes' /\ pc[a] \in Calling
    BY AttemptTypes DEF BudgetInvariant, AttemptMoves
  <2>2. /\ now \in 0..MaxTime /\ MaxTime \in Nat /\ Window[e] \in Nat /\ Maximum[e] \in Nat
    BY <2>1, RuleValues, OffsetsAssumption DEF GuardTypes, LimiterTypes, LimiterTypeOK
  <2>3. QED
    BY <2>1, <2>2
<1>2. S \subseteq Attempts /\ S' \subseteq Attempts
  BY DEF AdmittedWithin
<1>3. IsFiniteSet(S) /\ IsFiniteSet(S')
  BY <1>2, KeysAssumption, FS_Subset
<1>4. Cardinality(S) \in Nat /\ Cardinality(S') \in Nat
  BY <1>3, FS_CardinalityType
<1>5. CASE t > now - Window[e]
  <2>1. S' \subseteq AdmittedSince(e, t)'
    BY DEF AdmittedWithin, AdmittedSince
  <2>2. AdmittedSince(e, t)' \subseteq Attempts /\ MembersSince(e, t)' \subseteq DOMAIN window'[e]
    BY DEF AdmittedSince, MembersSince
  <2>3. IsFiniteSet(DOMAIN window'[e]) /\ Cardinality(DOMAIN window'[e]) <= Maximum[e]
    BY <1>1 DEF GuardTypes, LimiterTypes, LimiterTypeOK
  <2>4. /\ IsFiniteSet(AdmittedSince(e, t)') /\ IsFiniteSet(MembersSince(e, t)')
        /\ Cardinality(MembersSince(e, t)') <= Cardinality(DOMAIN window'[e])
    BY <2>2, <2>3, KeysAssumption, FS_Subset
  <2> HIDE DEF S
  <2>5. Cardinality(S') <= Cardinality(AdmittedSince(e, t)')
    BY <2>1, <2>4, FS_Subset
  <2>6. Cardinality(AdmittedSince(e, t)') <= Cardinality(MembersSince(e, t)')
    BY <1>5, CountAfter
  <2>7. /\ Cardinality(AdmittedSince(e, t)') \in Nat /\ Cardinality(MembersSince(e, t)') \in Nat
        /\ Cardinality(DOMAIN window'[e]) \in Nat
    BY <2>3, <2>4, FS_CardinalityType
  <2>8. Cardinality(S') <= Maximum[e]
    BY <1>1, <1>4, <2>3, <2>4, <2>5, <2>6, <2>7
  <2>9. QED
    BY <2>8 DEF S
<1>6. CASE ~ (t > now - Window[e])
  <2>1. S' \subseteq S
    <3> SUFFICES ASSUME NEW b \in S' PROVE b \in S
      OBVIOUS
    <3>1. /\ b \in Attempts /\ pc'[b] = "admitted" /\ IdentityKey[b] = e
          /\ passed_at'[b] >= t /\ passed_at'[b] < t + Window[e] /\ ~ (repeats'[b] > 0)
      BY DEF AdmittedWithin, SentAgain
    <3>2. b # a
      <4> SUFFICES ASSUME b = a PROVE FALSE
        OBVIOUS
      <4>1. Returned(a)
        BY <1>1, <3>1 DEF AttemptMoves, Lost, Calling
      <4>2. passed_at'[a] = now
        BY <3>1, <4>1 DEF Returned
      <4>3. QED
        BY <1>1, <1>6, <3>1, <4>2
    <3>3. pc'[b] = pc[b] /\ passed_at'[b] = passed_at[b] /\ repeats'[b] = repeats[b]
      BY <3>1, <3>2 DEF AttemptMoves
    <3>4. QED
      BY <3>1, <3>3 DEF AdmittedWithin, SentAgain
  <2>2. Cardinality(S) <= Maximum[e]
    BY DEF BudgetInvariant, GuessBudget
  <2> HIDE DEF S
  <2>3. Cardinality(S') <= Cardinality(S)
    BY <1>3, <2>1, FS_Subset
  <2>4. Cardinality(S') <= Maximum[e]
    BY <1>1, <1>4, <2>2, <2>3
  <2>5. QED
    BY <2>4 DEF S
<1>7. QED
  BY <1>5, <1>6

\* Time passes: fewer members are young, and nobody is admitted.
LEMMA BudgetTick ==
    ASSUME BudgetInvariant, GuardTick
    PROVE  BudgetInvariant'
<1>1. /\ GuardTypes /\ GuardTypes' /\ now \in Nat /\ now' = now + 1
  <2>1. GuardTypes /\ GuardTypes'
    BY GuardTypesStep DEF BudgetInvariant, GuardNext
  <2>2. QED
    BY <2>1, OffsetsAssumption DEF GuardTypes, LimiterTypes, LimiterTypeOK, GuardTick, Tick
<1>2. /\ window' = window /\ expires' = expires
      /\ pc' = pc /\ passed_at' = passed_at /\ sent' = sent /\ repeats' = repeats
  BY DEF GuardTick, Tick, guardVars
<1>3. /\ \A a \in Attempts : AllowedBefore(a)' = AllowedBefore(a)
      /\ \A a \in Attempts : CurrentKey(a)' = CurrentKey(a)
      /\ \A a \in Attempts : sent[a] # Unsent => sent[a].time \in Int
      /\ \A k \in Identities : \A n \in DOMAIN window[k] : window[k][n] \in Int
      /\ \A k \in Identities : Window[k] \in Nat
  BY <1>1, <1>2, RuleValues
     DEF AllowedBefore, CurrentKey, GuardTypes, GuardTypeOK, LimiterTypes, LimiterTypeOK
<1>4. \A a \in Attempts : CallKept(a)'
  BY <1>1, <1>2, <1>3 DEF BudgetInvariant, CallKept
<1>5. \A k \in Identities : ScoresKept(k)'
  BY <1>1, <1>2, <1>3 DEF BudgetInvariant, ScoresKept
<1>6. ASSUME NEW k \in Identities, NEW t \in 0..MaxTime, t > now' - Window[k]
      PROVE  Cardinality(AdmittedSince(k, t))' <= Cardinality(MembersSince(k, t))'
  <2>1. t > now - Window[k]
    BY <1>1, <1>3, <1>6, OffsetsAssumption
  <2>2. AdmittedSince(k, t)' = AdmittedSince(k, t) /\ MembersSince(k, t)' = MembersSince(k, t)
    BY <1>2 DEF AdmittedSince, MembersSince, SentAgain
  <2>3. QED
    BY <2>1, <2>2 DEF BudgetInvariant
<1>7. GuessBudget'
  BY <1>2 DEF BudgetInvariant, GuessBudget, AdmittedWithin, SentAgain
<1>8. QED
  BY <1>1, <1>4, <1>5, <1>6, <1>7 DEF BudgetInvariant

\* For any number of attempts from any number of IPs, whatever Redis answers or
\* loses, no rolling window of an email or account sees more attempts reach the
\* credentials than its rule allows, leaving aside those whose calls were sent
\* again (attempt_guards.go:62-84; ARCHITECTURE.md, "Failure behavior").
THEOREM GuessesWithinBudget ==
    ASSUME Prompt
    PROVE  GuardSpec => []GuessBudget
<1>1. GuardInit => BudgetInvariant
  <2> SUFFICES ASSUME GuardInit PROVE BudgetInvariant
    OBVIOUS
  <2>1. GuardTypes
    BY GuardTypesStart
  <2>2. /\ \A k, t : AdmittedSince(k, t) = {} /\ AdmittedWithin(k, t) = {}
        /\ \A k \in Identities : \A t : MembersSince(k, t) = {}
    BY DEF GuardInit, LimiterInit, AdmittedSince, AdmittedWithin, MembersSince
  <2>3. Cardinality({}) = 0 /\ {} \ SentAgain = {} /\ \A e \in Identities : 0 <= Maximum[e]
    BY FS_EmptySet, RuleValues
  <2>4. GuessBudget
    BY <2>2, <2>3 DEF GuessBudget
  <2>5. \A a \in Attempts : CallKept(a)
    BY DEF GuardInit, CallKept, AllowedBefore
  <2>6. \A k \in Identities : ScoresKept(k)
    BY DEF GuardInit, LimiterInit, ScoresKept
  <2>7. \A k \in Identities, t \in 0..MaxTime :
           Cardinality(AdmittedSince(k, t)) <= Cardinality(MembersSince(k, t))
    <3>1. Cardinality({}) <= Cardinality({})
      BY <2>3
    <3>2. QED
      BY <2>2, <3>1
  <2>8. QED
    BY <2>1, <2>4, <2>5, <2>6, <2>7 DEF BudgetInvariant
<1>2. BudgetInvariant /\ [GuardNext]_<<limiterVars, guardVars>> => BudgetInvariant'
  <2> SUFFICES ASSUME BudgetInvariant, [GuardNext]_<<limiterVars, guardVars>>
               PROVE  BudgetInvariant'
    OBVIOUS
  <2>1. GuardTypes /\ GuardTypes'
    BY GuardTypesStep DEF BudgetInvariant
  <2>2. ASSUME NEW a \in Attempts, AttemptMoves(a) PROVE BudgetInvariant'
    <3>1. now' = now
      <4>1. pc[a] \in Calling /\ (Ran(a) \/ UNCHANGED limiterVars)
        BY <2>2 DEF AttemptMoves
      <4>2. QED
        BY <2>1, <4>1, RunOfAttempt DEF RanAt, limiterVars
    <3>2. /\ \A b \in Attempts : CallKept(b)'
          /\ \A k \in Identities : ScoresKept(k)'
      BY <2>2, CallsAfter, ScoresAfter
    <3>3. \A k \in Identities, t \in 0..MaxTime : t > now - Window[k] =>
             Cardinality(AdmittedSince(k, t))' <= Cardinality(MembersSince(k, t))'
      BY <2>2, CountAfter
    <3>4. GuessBudget'
      BY <2>2, BudgetAfter DEF GuessBudget
    <3>5. QED
      BY <2>1, <3>1, <3>2, <3>3, <3>4 DEF BudgetInvariant
  <2>3. CASE UNCHANGED <<limiterVars, guardVars>>
    <3>1. /\ now' = now /\ window' = window /\ expires' = expires
          /\ pc' = pc /\ passed_at' = passed_at /\ sent' = sent /\ repeats' = repeats
      BY <2>3 DEF limiterVars, guardVars
    <3>2. \A a \in Attempts : CallKept(a) <=> CallKept(a)'
      BY <3>1 DEF CallKept, AllowedBefore, CurrentKey
    <3>3. \A k \in Identities : ScoresKept(k) <=> ScoresKept(k)'
      BY <3>1 DEF ScoresKept
    <3>4. GuessBudget <=> GuessBudget'
      BY <3>1 DEF GuessBudget, AdmittedWithin, SentAgain
    <3>5. \A k, t : /\ AdmittedSince(k, t)' = AdmittedSince(k, t)
                    /\ MembersSince(k, t)' = MembersSince(k, t)
      BY <3>1 DEF AdmittedSince, MembersSince, SentAgain
    <3>6. QED
      BY <2>1, <3>1, <3>2, <3>3, <3>4, <3>5 DEF BudgetInvariant
  <2>4. QED
    BY <2>1, <2>2, <2>3, GuardSteps, BudgetTick
<1>3. BudgetInvariant => GuessBudget
  BY DEF BudgetInvariant
<1>4. QED
  BY <1>1, <1>2, <1>3, PTL DEF GuardSpec
=============================================================================
