----------------------------- MODULE NatsProofs -----------------------------
(***************************************************************************)
(* The NATS protocol, for any operations with any subjects, texts, numbers *)
(* and payloads, any number of them, and any cut of the stream into reads. *)
(*                                                                         *)
(* A sequence is reasoned about by its elements.  DecodeStreams says what  *)
(* the decoder does with a beginning of its input, DecodeOfEncode what it  *)
(* does with the encoding of an operation in front of anything; with what  *)
(* Arrived says of the bytes these are the steps of the invariant.         *)
(***************************************************************************)
EXTENDS Nats, WellFoundedInduction, TLAPS

-----------------------------------------------------------------------------
(* Induction over numbers, as far as it can be said about sets. *)

\* A set of naturals has a least element.
LEMMA LeastNumber ==
    ASSUME NEW S, S \subseteq Nat, S # {}
    PROVE  \E x \in S : \A y \in S : x <= y
  <1> DEFINE R == OpToRel(<, Nat)
  <1>1. IsWellFoundedOn(R, Nat)
    BY NatLessThanWellFounded
  <1>2. \A x, y \in Nat : x < y => <<x, y>> \in R
    BY DEF OpToRel
  <1> HIDE DEF R
  <1>3. \E x \in S : \A y \in S : ~ (<<y, x>> \in R)
    BY <1>1, WFMin, Zenon
  <1>4. PICK x \in S : \A y \in S : ~(y < x)
    BY <1>2, <1>3
  <1> QED
    BY <1>4

\* What holds of a number if it holds of the smaller ones holds of all.
LEMMA Ascent ==
    ASSUME NEW S, \A n \in Nat : (\A m \in Nat : m < n => m \in S) => n \in S
    PROVE  Nat \subseteq S
  <1> SUFFICES ASSUME ~(Nat \subseteq S) PROVE FALSE
    OBVIOUS
  <1>1. PICK x \in Nat \ S : \A y \in Nat \ S : x <= y
    <2>1. Nat \ S \subseteq Nat /\ Nat \ S # {}
      OBVIOUS
    <2> QED
      BY <2>1, LeastNumber
  <1>2. \A m \in Nat : m < x => m \in S
    BY <1>1
  <1> QED
    BY <1>1, <1>2

\* Step by step up to a bound.
LEMMA StepByStep ==
    ASSUME NEW n \in Nat, NEW S, 0 \in S, \A k \in 0 .. n - 1 : k \in S => k + 1 \in S
    PROVE  0 .. n \subseteq S
  <1> DEFINE T == {k \in Nat : k <= n => k \in S}
  <1>1. ASSUME NEW k \in Nat, \A m \in Nat : m < k => m \in T PROVE k \in T
    <2>1. CASE k = 0
      BY <2>1
    <2>2. CASE k # 0 /\ k <= n
      <3>1. k - 1 \in T /\ k - 1 \in 0 .. n - 1
        BY <1>1, <2>2
      <3> QED
        BY <2>2, <3>1
    <2>3. CASE k > n
      BY <2>3
    <2> QED
      BY <2>1, <2>2, <2>3
  <1> HIDE DEF T
  <1>2. Nat \subseteq T
    BY <1>1, Ascent
  <1> QED
    BY <1>2 DEF T

\* A recursion along a sequence defines a function.
Recursive(n, T, base, step, f) ==
    f \in [0 .. n -> T] /\ f[0] = base /\ \A k \in 1 .. n : f[k] = step[<<k, f[k - 1]>>]

LEMMA Recursion ==
    ASSUME NEW n \in Nat, NEW T, NEW base \in T, NEW step \in [(1 .. n) \X T -> T]
    PROVE  \E f : Recursive(n, T, base, step, f)
  <1> DEFINE Good(m, f) == f[0] = base /\ \A k \in 1 .. m : f[k] = step[<<k, f[k - 1]>>]
             S == {m \in 0 .. n : \E f \in [0 .. m -> T] : Good(m, f)}
  <1>1. 0 \in S
    <2> DEFINE f == [k \in 0 .. 0 |-> base]
    <2>1. f \in [0 .. 0 -> T] /\ f[0] = base
      OBVIOUS
    <2> HIDE DEF f
    <2>2. Good(0, f)
      BY <2>1
    <2> HIDE DEF Good
    <2> QED
      BY <2>1, <2>2
  <1>2. ASSUME NEW m \in 0 .. n - 1, m \in S PROVE m + 1 \in S
    <2>1. PICK f \in [0 .. m -> T] : Good(m, f)
      BY <1>2
    <2> DEFINE g == [k \in 0 .. m + 1 |-> IF k = m + 1 THEN step[<<m + 1, f[m]>>] ELSE f[k]]
    <2>2. <<m + 1, f[m]>> \in (1 .. n) \X T
      OBVIOUS
    <2>3. step[<<m + 1, f[m]>>] \in T
      BY <2>2
    <2>4. g \in [0 .. m + 1 -> T]
      BY <2>3
    <2>5. g[0] = base
      BY <2>1
    <2>6. ASSUME NEW k \in 1 .. m + 1 PROVE g[k] = step[<<k, g[k - 1]>>]
      <3>1. k - 1 \in 0 .. m /\ g[k - 1] = f[k - 1]
        OBVIOUS
      <3>2. CASE k = m + 1
        <4>1. g[m + 1] = step[<<m + 1, f[m]>>] /\ k - 1 = m
          BY <3>2
        <4> HIDE DEF g
        <4> QED
          BY <3>1, <3>2, <4>1
      <3>3. CASE k # m + 1
        <4>1. k \in 1 .. m /\ g[k] = f[k]
          BY <3>3
        <4>2. f[k] = step[<<k, f[k - 1]>>]
          BY <2>1, <4>1
        <4> HIDE DEF g
        <4> QED
          BY <3>1, <4>1, <4>2
      <3> QED
        BY <3>2, <3>3
    <2>7. Good(m + 1, g)
      BY <2>5, <2>6
    <2>8. m + 1 \in 0 .. n
      OBVIOUS
    <2> HIDE DEF g, Good
    <2> QED
      BY <2>4, <2>7, <2>8
  <1> HIDE DEF S
  <1>3. n \in S
    BY <1>1, <1>2, StepByStep
  <1> QED
    BY <1>3 DEF S, Recursive

-----------------------------------------------------------------------------
(* Numbers: what itoa writes is what the digits are worth. *)

LEMMA DigitFacts ==
    /\ \A d \in 0 .. 9 : Digit[d] \in Digits /\ DigitValue[Digit[d]] = d
    /\ \A c \in Digits : DigitValue[c] \in Nat
    /\ Digits \subseteq TextSymbols /\ {" ", "x", "~", "bad", "CR"} \cap Digits = {}
  <1> DEFINE all == <<"0", "1", "2", "3", "4", "5", "6", "7", "8", "9">>
  <1>1. \A d \in 0 .. 9 : Digit[d] = all[d + 1]
    BY DEF Digit
  <1>2. \A d \in 0 .. 9 : /\ d = 0 => Digit[d] = "0"
                          /\ d = 1 => Digit[d] = "1"
                          /\ d = 2 => Digit[d] = "2"
                          /\ d = 3 => Digit[d] = "3"
                          /\ d = 4 => Digit[d] = "4"
                          /\ d = 5 => Digit[d] = "5"
                          /\ d = 6 => Digit[d] = "6"
                          /\ d = 7 => Digit[d] = "7"
                          /\ d = 8 => Digit[d] = "8"
                          /\ d = 9 => Digit[d] = "9"
    BY <1>1
  <1>3. \A d \in 0 .. 9 : d \in {0, 1, 2, 3, 4, 5, 6, 7, 8, 9}
    OBVIOUS
  <1>4. \A d, e \in 0 .. 9 : Digit[d] = Digit[e] => d = e
    BY <1>2, <1>3
  <1>5. \A d \in 0 .. 9 : Digit[d] \notin {" ", "x", "~", "bad", "CR"}
    BY <1>2, <1>3
  <1>6. ASSUME NEW d \in 0 .. 9 PROVE Digit[d] \in Digits /\ DigitValue[Digit[d]] = d
    BY <1>4 DEF Digits, DigitValue
  <1>7. \A c \in Digits : \E d \in 0 .. 9 : c = Digit[d]
    BY DEF Digits
  <1>8. ASSUME NEW c \in Digits PROVE DigitValue[c] \in Nat /\ c \notin {" ", "x", "~", "bad", "CR"}
    <2>1. PICK d \in 0 .. 9 : c = Digit[d]
      BY <1>7
    <2>2. DigitValue[c] = d
      BY <1>6, <2>1
    <2>3. c \notin {" ", "x", "~", "bad", "CR"}
      BY <1>5, <2>1
    <2>4. d \in Nat
      BY <2>1
    <2> QED
      BY <2>2, <2>3, <2>4
  <1>9. Digits \subseteq TextSymbols
    BY <1>8 DEF TextSymbols, Symbols
  <1> QED
    BY <1>6, <1>8, <1>9

\* The steps of the value.
ValueSteps(s, f) == /\ f \in [0 .. Len(s) -> Nat] /\ f[0] = 0
                    /\ \A k \in 1 .. Len(s) : f[k] = 10 * f[k - 1] + DigitValue[s[k]]

LEMMA ValueDefined ==
    ASSUME NEW s \in Seq(Digits)
    PROVE  \E f : ValueSteps(s, f) /\ Value(s) = f[Len(s)]
  <1> DEFINE n == Len(s)
             Law(f) == f = [k \in 0 .. n |-> IF k = 0 THEN 0 ELSE 10 * f[k - 1] + DigitValue[s[k]]]
             upto == CHOOSE f : Law(f)
             step == [p \in (1 .. n) \X Nat |-> 10 * p[2] + DigitValue[s[p[1]]]]
  <1>1. n \in Nat /\ \A k \in 1 .. n : DigitValue[s[k]] \in Nat
    <2>1. n \in Nat /\ \A k \in 1 .. n : s[k] \in Digits
      OBVIOUS
    <2>2. \A c \in Digits : DigitValue[c] \in Nat
      BY DigitFacts
    <2> QED
      BY <2>1, <2>2
  <1>2. step \in [(1 .. n) \X Nat -> Nat]
    BY <1>1
  <1>3. \A k \in 1 .. n, v \in Nat : step[<<k, v>>] = 10 * v + DigitValue[s[k]]
    OBVIOUS
  <1>4. PICK f \in [0 .. n -> Nat] : f[0] = 0 /\ \A k \in 1 .. n : f[k] = step[<<k, f[k - 1]>>]
    <2>1. n \in Nat /\ 0 \in Nat
      OBVIOUS
    <2> HIDE DEF step, n
    <2>2. PICK f : Recursive(n, Nat, 0, step, f)
      BY <1>2, <2>1, Recursion
    <2> QED
      BY <2>2 DEF Recursive
  <1>5. Law(f)
    <2>1. ASSUME NEW k \in 1 .. n PROVE f[k] = 10 * f[k - 1] + DigitValue[s[k]]
      <3>1. k - 1 \in 0 .. n
        OBVIOUS
      <3> HIDE DEF step
      <3> QED
        BY <1>3, <1>4, <3>1
    <2> HIDE DEF step
    <2> QED
      BY <1>4, <2>1
  <1>6. Law(upto)
    BY <1>5
  <1>7. Value(s) = upto[n]
    BY DEF Value
  <1> HIDE DEF upto
  <1>8. upto[0] = 0 /\ \A k \in 1 .. n : upto[k] = 10 * upto[k - 1] + DigitValue[s[k]]
    BY <1>1, <1>6
  <1>9. \A k \in 0 .. n : upto[k] \in Nat
    <2> DEFINE S == {k \in Nat : upto[k] \in Nat}
    <2>1. 0 \in S
      BY <1>8
    <2>2. ASSUME NEW k \in 0 .. n - 1, k \in S PROVE k + 1 \in S
      <3>1. upto[k + 1] = 10 * upto[k] + DigitValue[s[k + 1]]
        BY <1>8
      <3> QED
        BY <1>1, <2>2, <3>1
    <2> HIDE DEF S
    <2>3. 0 .. n \subseteq S
      BY <1>1, <2>1, <2>2, StepByStep
    <2> QED
      BY <2>3 DEF S
  <1>10. upto \in [0 .. n -> Nat]
    <2>1. upto = [k \in 0 .. n |-> upto[k]]
      BY <1>6
    <2> QED
      BY <1>9, <2>1
  <1> QED
    BY <1>7, <1>8, <1>10 DEF ValueSteps

\* Sequences that begin alike have the same steps, and the value only grows.
LEMMA ValueOfPrefix ==
    ASSUME NEW s \in Seq(Digits), NEW t \in Seq(Digits), Len(s) <= Len(t),
           \A k \in 1 .. Len(s) : s[k] = t[k]
    PROVE  /\ Value(s) \in Nat /\ Value(s) <= Value(t)
           /\ Len(t) = Len(s) + 1 => Value(t) = 10 * Value(s) + DigitValue[t[Len(t)]]
  <1>1. PICK f : ValueSteps(s, f) /\ Value(s) = f[Len(s)]
    BY ValueDefined
  <1>2. PICK g : ValueSteps(t, g) /\ Value(t) = g[Len(t)]
    BY ValueDefined
  <1>3. 0 .. Len(s) \subseteq {k \in Nat : f[k] = g[k]}
    <2> DEFINE S == {k \in Nat : f[k] = g[k]}
    <2>1. 0 \in S
      BY <1>1, <1>2 DEF ValueSteps
    <2>2. ASSUME NEW k \in 0 .. Len(s) - 1, k \in S PROVE k + 1 \in S
      <3>1. k + 1 \in 1 .. Len(s) /\ k + 1 \in 1 .. Len(t) /\ (k + 1) - 1 = k
        OBVIOUS
      <3>2. f[k + 1] = 10 * f[k] + DigitValue[s[k + 1]] /\ g[k + 1] = 10 * g[k] + DigitValue[t[k + 1]]
        BY <1>1, <1>2, <3>1 DEF ValueSteps
      <3> QED
        BY <2>2, <3>1, <3>2
    <2>3. Len(s) \in Nat
      OBVIOUS
    <2> HIDE DEF S
    <2>4. 0 .. Len(s) \subseteq S
      BY <2>1, <2>2, <2>3, StepByStep
    <2> QED
      BY <2>4 DEF S
  <1>4. Len(s) \in 0 .. Len(s) /\ Len(s) \in Nat /\ Len(t) \in Nat
    OBVIOUS
  <1>5. g[Len(s)] = Value(s) /\ Value(s) \in Nat
    BY <1>1, <1>3, <1>4 DEF ValueSteps
  <1>6. 0 .. Len(t) - Len(s) \subseteq {k \in Nat : Value(s) <= g[Len(s) + k]}
    <2> DEFINE S == {k \in Nat : Value(s) <= g[Len(s) + k]}
    <2>1. 0 \in S
      BY <1>5
    <2>2. ASSUME NEW k \in 0 .. (Len(t) - Len(s)) - 1, k \in S PROVE k + 1 \in S
      <3>1. Len(s) + (k + 1) \in 1 .. Len(t) /\ (Len(s) + (k + 1)) - 1 = Len(s) + k
        OBVIOUS
      <3>2. g[Len(s) + (k + 1)] = 10 * g[Len(s) + k] + DigitValue[t[Len(s) + (k + 1)]]
        BY <1>2, <3>1 DEF ValueSteps
      <3>3. DigitValue[t[Len(s) + (k + 1)]] \in Nat /\ g[Len(s) + k] \in Nat
        <4>1. t[Len(s) + (k + 1)] \in Digits
          BY <3>1
        <4>2. Len(s) + k \in 0 .. Len(t)
          BY <3>1
        <4>3. \A c \in Digits : DigitValue[c] \in Nat
          BY DigitFacts
        <4> QED
          BY <1>2, <4>1, <4>2, <4>3 DEF ValueSteps
      <3>4. Value(s) <= g[Len(s) + k]
        BY <2>2
      <3> QED
        BY <1>5, <3>2, <3>3, <3>4
    <2> DEFINE m == Len(t) - Len(s)
    <2>3. m \in Nat
      OBVIOUS
    <2> HIDE DEF S, m
    <2>4. 0 .. m \subseteq S
      BY <2>1, <2>2, <2>3, StepByStep DEF m
    <2> QED
      BY <2>4 DEF S, m
  <1>7. Value(s) <= Value(t)
    <2>1. Len(t) - Len(s) \in 0 .. Len(t) - Len(s) /\ Len(s) + (Len(t) - Len(s)) = Len(t)
      OBVIOUS
    <2> QED
      BY <1>2, <1>6, <2>1
  <1>8. ASSUME Len(t) = Len(s) + 1 PROVE Value(t) = 10 * Value(s) + DigitValue[t[Len(t)]]
    <2>1. Len(t) \in 1 .. Len(t) /\ Len(t) - 1 = Len(s)
      BY <1>8
    <2>2. g[Len(t)] = 10 * g[Len(t) - 1] + DigitValue[t[Len(t)]]
      BY <1>2, <2>1 DEF ValueSteps
    <2> QED
      BY <1>2, <1>5, <2>1, <2>2
  <1> QED
    BY <1>5, <1>7, <1>8

\* One digit more.
LEMMA ValueAppend ==
    ASSUME NEW s \in Seq(Digits), NEW c \in Digits
    PROVE  Value(Append(s, c)) = 10 * Value(s) + DigitValue[c] /\ Value(s) \in Nat
  <1> DEFINE t == Append(s, c)
  <1>1. /\ t \in Seq(Digits) /\ Len(t) = Len(s) + 1 /\ t[Len(t)] = c
        /\ \A k \in 1 .. Len(s) : s[k] = t[k]
    OBVIOUS
  <1> HIDE DEF t
  <1>2. Len(s) <= Len(t)
    BY <1>1
  <1> QED
    BY <1>1, <1>2, ValueOfPrefix DEF t

LEMMA ValueEmpty == Value(<<>>) = 0
  <1>1. <<>> \in Seq(Digits) /\ Len(<<>>) = 0
    OBVIOUS
  <1>2. PICK f : ValueSteps(<<>>, f) /\ Value(<<>>) = f[Len(<<>>)]
    BY <1>1, ValueDefined
  <1> QED
    BY <1>1, <1>2 DEF ValueSteps

\* Ten is more than one.
LEMMA Tenth ==
    ASSUME NEW n \in Nat, n >= 10
    PROVE  /\ n \div 10 \in Nat /\ n \div 10 < n
           /\ n % 10 \in 0 .. 9 /\ n = 10 * (n \div 10) + (n % 10)
  OBVIOUS

\* The recursion of Number, up to a bound.
NumberSteps(m, f) ==
    \A n \in 0 .. m : f[n] = IF n < 10 THEN <<Digit[n]>> ELSE Append(f[n \div 10], Digit[n % 10])

LEMMA NumberStepsExist ==
    ASSUME NEW m \in Nat
    PROVE  \E f : NumberSteps(m, f)
  <1> DEFINE S == {k \in Nat : \E f : NumberSteps(k, f)}
  <1>1. ASSUME NEW k \in Nat, \A l \in Nat : l < k => l \in S PROVE k \in S
    <2>1. PICK f : k > 0 => NumberSteps(k - 1, f)
      <3>1. CASE k = 0
        BY <3>1
      <3>2. CASE k > 0
        <4>1. k - 1 \in Nat /\ k - 1 < k
          BY <3>2
        <4>2. k - 1 \in S
          BY <1>1, <4>1
        <4> QED
          BY <4>2
      <3> QED
        BY <3>1, <3>2
    <2> DEFINE g == [n \in 0 .. k |-> IF n < k THEN f[n]
                                      ELSE IF k < 10 THEN <<Digit[k]>>
                                      ELSE Append(f[k \div 10], Digit[k % 10])]
    <2>2. ASSUME NEW n \in 0 .. k
          PROVE  g[n] = IF n < 10 THEN <<Digit[n]>> ELSE Append(g[n \div 10], Digit[n % 10])
      <3>1. n >= 10 => n \div 10 \in 0 .. k /\ n \div 10 < n
        BY Tenth
      <3>2. n >= 10 => g[n \div 10] = f[n \div 10]
        BY <3>1
      <3>3. CASE n = k
        <4>1. g[n] = IF k < 10 THEN <<Digit[k]>> ELSE Append(f[k \div 10], Digit[k % 10])
          BY <3>3
        <4> HIDE DEF g
        <4> QED
          BY <3>2, <3>3, <4>1
      <3>4. CASE n < k
        <4>1. g[n] = f[n] /\ n \in 0 .. k - 1 /\ k > 0
          BY <3>4
        <4>2. f[n] = IF n < 10 THEN <<Digit[n]>> ELSE Append(f[n \div 10], Digit[n % 10])
          BY <2>1, <4>1 DEF NumberSteps
        <4> HIDE DEF g
        <4> QED
          BY <3>2, <4>1, <4>2
      <3> QED
        BY <3>3, <3>4
    <2>3. NumberSteps(k, g)
      BY <2>2 DEF NumberSteps
    <2> HIDE DEF g
    <2> QED
      BY <2>3
  <1> HIDE DEF S
  <1>2. Nat \subseteq S
    BY <1>1, Ascent
  <1> QED
    BY <1>2 DEF S

LEMMA NumberStepsAgree ==
    ASSUME NEW m \in Nat, NEW l \in Nat, NEW f, NEW g, NumberSteps(m, f), NumberSteps(l, g),
           NEW n \in Nat, n <= m, n <= l
    PROVE  f[n] = g[n]
  <1> DEFINE S == {k \in Nat : k <= m /\ k <= l => f[k] = g[k]}
  <1>1. ASSUME NEW k \in Nat, \A i \in Nat : i < k => i \in S PROVE k \in S
    <2> SUFFICES ASSUME k <= m, k <= l PROVE f[k] = g[k]
      OBVIOUS
    <2>1. /\ f[k] = IF k < 10 THEN <<Digit[k]>> ELSE Append(f[k \div 10], Digit[k % 10])
          /\ g[k] = IF k < 10 THEN <<Digit[k]>> ELSE Append(g[k \div 10], Digit[k % 10])
      BY DEF NumberSteps
    <2>2. k >= 10 => f[k \div 10] = g[k \div 10]
      BY <1>1, Tenth
    <2> QED
      BY <2>1, <2>2
  <1> HIDE DEF S
  <1>2. Nat \subseteq S
    BY <1>1, Ascent
  <1> QED
    BY <1>2 DEF S

\* itoa is defined for every number.
LEMMA NumberDefined ==
    \A n \in Nat : Number[n] = IF n < 10 THEN <<Digit[n]>> ELSE Append(Number[n \div 10], Digit[n % 10])
  <1> DEFINE Law(f) == f = [n \in Nat |-> IF n < 10 THEN <<Digit[n]>>
                                          ELSE Append(f[n \div 10], Digit[n % 10])]
             steps == [m \in Nat |-> CHOOSE f : NumberSteps(m, f)]
             h == [n \in Nat |-> steps[n][n]]
  <1>1. ASSUME NEW m \in Nat PROVE NumberSteps(m, steps[m])
    BY NumberStepsExist
  <1> HIDE DEF steps
  <1>2. ASSUME NEW n \in Nat
        PROVE  h[n] = IF n < 10 THEN <<Digit[n]>> ELSE Append(h[n \div 10], Digit[n % 10])
    <2>1. steps[n][n] = IF n < 10 THEN <<Digit[n]>> ELSE Append(steps[n][n \div 10], Digit[n % 10])
      BY <1>1 DEF NumberSteps
    <2>2. ASSUME n >= 10 PROVE steps[n][n \div 10] = h[n \div 10]
      <3>1. n \div 10 \in Nat /\ n \div 10 <= n
        BY <2>2, Tenth
      <3>2. NumberSteps(n, steps[n]) /\ NumberSteps(n \div 10, steps[n \div 10])
        BY <1>1, <3>1
      <3>3. steps[n][n \div 10] = steps[n \div 10][n \div 10]
        BY <3>1, <3>2, NumberStepsAgree
      <3> QED
        BY <3>1, <3>3
    <2>3. h[n] = steps[n][n]
      OBVIOUS
    <2> HIDE DEF h
    <2> QED
      BY <2>1, <2>2, <2>3
  <1>3. Law(h)
    <2>1. h = [n \in Nat |-> h[n]]
      OBVIOUS
    <2> HIDE DEF h
    <2> QED
      BY <1>2, <2>1
  <1>4. Number = CHOOSE f : Law(f)
    BY DEF Number
  <1> HIDE DEF h
  <1>5. Law(Number)
    BY <1>3, <1>4
  <1> QED
    BY <1>5

\* What itoa writes is worth the number.
LEMMA NumberFacts ==
    \A n \in Nat : /\ Number[n] \in Seq(Digits) /\ Number[n] # <<>>
                   /\ Value(Number[n]) = n
  <1> DEFINE S == {n \in Nat : Number[n] \in Seq(Digits) /\ Number[n] # <<>> /\ Value(Number[n]) = n}
  <1>1. ASSUME NEW n \in Nat, \A m \in Nat : m < n => m \in S PROVE n \in S
    <2> DEFINE u == Number[n]
               tens == Number[n \div 10]
    <2>3. u = IF n < 10 THEN <<Digit[n]>> ELSE Append(tens, Digit[n % 10])
      BY NumberDefined, Zenon
    <2> HIDE DEF u, tens
    <2>1. CASE n < 10
      <3>1. Number[n] = <<Digit[n]>> /\ n \in 0 .. 9
        <4>1. u = <<Digit[n]>>
          BY <2>1, <2>3
        <4> QED
          BY <2>1, <4>1 DEF u
      <3>2. Digit[n] \in Digits /\ DigitValue[Digit[n]] = n
        BY <3>1, DigitFacts
      <3>3. Value(Append(<<>>, Digit[n])) = 10 * Value(<<>>) + DigitValue[Digit[n]]
        <4>1. <<>> \in Seq(Digits)
          OBVIOUS
        <4> QED
          BY <3>2, <4>1, ValueAppend
      <3>4. Append(<<>>, Digit[n]) = <<Digit[n]>>
        OBVIOUS
      <3>5. Value(Number[n]) = n
        BY <3>1, <3>2, <3>3, <3>4, ValueEmpty
      <3>6. <<Digit[n]>> \in Seq(Digits) /\ <<Digit[n]>> # <<>>
        BY <3>2
      <3> QED
        BY <3>1, <3>5, <3>6
    <2>2. CASE n >= 10
      <3> DEFINE d == n % 10
                 t == n \div 10
      <3>1. t \in Nat /\ t < n /\ d \in 0 .. 9 /\ n = 10 * t + d
        BY <2>2, Tenth
      <3>2. Number[n] = Append(Number[t], Digit[d])
        <4>1. ~(n < 10)
          BY <2>2
        <4>2. u = Append(tens, Digit[n % 10])
          BY <2>3, <4>1
        <4> QED
          BY <4>2 DEF u, tens
      <3> HIDE DEF t, d
      <3>3. Digit[d] \in Digits /\ DigitValue[Digit[d]] = d
        BY <3>1, DigitFacts
      <3>4. Number[t] \in Seq(Digits) /\ Value(Number[t]) = t
        BY <1>1, <3>1
      <3>5. Value(Number[n]) = 10 * t + d
        BY <3>2, <3>3, <3>4, ValueAppend
      <3>6. Append(Number[t], Digit[d]) \in Seq(Digits) /\ Append(Number[t], Digit[d]) # <<>>
        BY <3>3, <3>4
      <3> QED
        BY <3>1, <3>2, <3>5, <3>6
    <2> QED
      BY <2>1, <2>2
  <1> HIDE DEF S
  <1>2. Nat \subseteq S
    BY <1>1, Ascent
  <1> QED
    BY <1>2 DEF S

-----------------------------------------------------------------------------
(* Sequences of symbols, and where one sits inside another. *)

Strings == Seq(Symbols)

\* t is found in s at position i.
Sits(s, i, t) == i + Len(t) - 1 <= Len(s) /\ \A k \in 1 .. Len(t) : s[i + k - 1] = t[k]

\* p is what has arrived of s.
Begins(p, s) == Len(p) <= Len(s) /\ \A k \in 1 .. Len(p) : p[k] = s[k]

LEMMA Joined ==
    ASSUME NEW s \in Strings, NEW t \in Strings
    PROVE  /\ s \o t \in Strings /\ Len(s \o t) = Len(s) + Len(t)
           /\ \A k \in 1 .. Len(s) : (s \o t)[k] = s[k]
           /\ \A k \in 1 .. Len(t) : (s \o t)[Len(s) + k] = t[k]
  <1>1. /\ s \o t \in Seq(Symbols) /\ Len(s \o t) = Len(s) + Len(t)
        /\ \A k \in 1 .. Len(s) : (s \o t)[k] = s[k]
    BY DEF Strings
  <1>2. ASSUME NEW k \in 1 .. Len(t) PROVE (s \o t)[Len(s) + k] = t[k]
    BY DEF Strings
  <1> QED
    BY <1>1, <1>2 DEF Strings

\* Sequences are equal if they have the same length and elements.
LEMMA SameElements ==
    ASSUME NEW s \in Strings, NEW t \in Strings, Len(s) = Len(t), \A k \in 1 .. Len(s) : s[k] = t[k]
    PROVE  s = t
  BY DEF Strings

LEMMA JoinedTwice ==
    ASSUME NEW s \in Strings, NEW t \in Strings, NEW u \in Strings
    PROVE  (s \o t) \o u = s \o (t \o u)
  BY DEF Strings

LEMMA JoinedEmpty ==
    ASSUME NEW s \in Strings
    PROVE  /\ <<>> \in Strings /\ Len(<<>>) = 0
           /\ s \o <<>> = s /\ <<>> \o s = s
  BY DEF Strings

\* The parts of what sits somewhere sit one behind the other.
LEMMA SitsParts ==
    ASSUME NEW s \in Strings, NEW i \in Nat \ {0}, NEW a \in Strings, NEW b \in Strings, Sits(s, i, a \o b)
    PROVE  Sits(s, i, a) /\ Sits(s, i + Len(a), b)
  <1>1. Len(a) \in Nat /\ Len(b) \in Nat /\ Len(s) \in Nat
    BY DEF Strings
  <1>2. Len(a \o b) = Len(a) + Len(b)
    BY Joined
  <1>3. ASSUME NEW k \in 1 .. Len(a) PROVE s[i + k - 1] = a[k]
    <2>1. k \in 1 .. Len(a \o b) /\ (a \o b)[k] = a[k]
      BY <1>1, <1>2, Joined
    <2> QED
      BY <2>1 DEF Sits
  <1>4. ASSUME NEW k \in 1 .. Len(b) PROVE s[(i + Len(a)) + k - 1] = b[k]
    <2>1. Len(a) + k \in 1 .. Len(a \o b) /\ (i + Len(a)) + k - 1 = i + (Len(a) + k) - 1
      BY <1>1, <1>2
    <2>2. (a \o b)[Len(a) + k] = b[k]
      BY Joined
    <2>3. s[i + (Len(a) + k) - 1] = (a \o b)[Len(a) + k]
      BY <2>1 DEF Sits
    <2> QED
      BY <2>1, <2>2, <2>3
  <1> QED
    BY <1>1, <1>2, <1>3, <1>4 DEF Sits

\* A sequence sits at the beginning of itself.
LEMMA SitsFirst ==
    ASSUME NEW a \in Strings, NEW b \in Strings
    PROVE  Sits(a \o b, 1, a)
  <1>1. Len(a) \in Nat /\ Len(b) \in Nat
    BY DEF Strings
  <1> QED
    BY <1>1, Joined DEF Sits

LEMMA PrefixPoints ==
    ASSUME NEW s \in Strings, NEW t \in Strings
    PROVE  IsPrefix(s, t) <=> Begins(s, t)
  <1>1. Len(s) \in Nat /\ Len(t) \in Nat
    BY DEF Strings
  <1>2. ASSUME Len(s) <= Len(t)
        PROVE  (SubSeq(s, 1, Len(s)) = SubSeq(t, 1, Len(s))) <=> \A k \in 1 .. Len(s) : s[k] = t[k]
    <2> DEFINE a == SubSeq(s, 1, Len(s))
               b == SubSeq(t, 1, Len(s))
    <2>1. /\ a \in Strings /\ Len(a) = Len(s) /\ \A k \in 1 .. Len(s) : a[k] = s[k]
          /\ b \in Strings /\ Len(b) = Len(s) /\ \A k \in 1 .. Len(s) : b[k] = t[k]
      BY <1>1, <1>2 DEF Strings
    <2> HIDE DEF a, b
    <2>2. a = b <=> \A k \in 1 .. Len(s) : s[k] = t[k]
      BY <2>1, SameElements
    <2> QED
      BY <2>2 DEF a, b
  <1> QED
    BY <1>1, <1>2 DEF IsPrefix, Begins

\* The rest of a sequence from a position on, and a piece of it.
LEMMA Piece ==
    ASSUME NEW s \in Strings, NEW i \in 1 .. Len(s) + 1, NEW j \in i - 1 .. Len(s)
    PROVE  /\ SubSeq(s, i, j) \in Strings /\ Len(SubSeq(s, i, j)) = j - i + 1
           /\ \A k \in 1 .. j - i + 1 : SubSeq(s, i, j)[k] = s[i + k - 1]
  BY DEF Strings

\* The piece is what sits there.
LEMMA PieceThatSits ==
    ASSUME NEW s \in Strings, NEW i \in 1 .. Len(s) + 1, NEW t \in Strings, Sits(s, i, t)
    PROVE  SubSeq(s, i, i + Len(t) - 1) = t
  <1>1. Len(s) \in Nat /\ Len(t) \in Nat
    BY DEF Strings
  <1> DEFINE j == i + Len(t) - 1
  <1>2. j \in i - 1 .. Len(s) /\ j - i + 1 = Len(t)
    BY <1>1 DEF Sits
  <1>3. /\ SubSeq(s, i, j) \in Strings /\ Len(SubSeq(s, i, j)) = Len(t)
        /\ \A k \in 1 .. Len(t) : SubSeq(s, i, j)[k] = s[i + k - 1]
    BY <1>2, Piece
  <1> QED
    BY <1>3, SameElements DEF Sits

\* Pieces of a part of a sequence begin the pieces of the whole.
LEMMA PieceBegins ==
    ASSUME NEW s \in Strings, NEW p \in Strings, Begins(p, s), NEW i \in 1 .. Len(p) + 1,
           NEW j \in i - 1 .. Len(p), NEW l \in j .. Len(s)
    PROVE  /\ SubSeq(p, i, j) \in Strings /\ SubSeq(s, i, l) \in Strings
           /\ Begins(SubSeq(p, i, j), SubSeq(s, i, l))
           /\ l = j => SubSeq(p, i, j) = SubSeq(s, i, l)
  <1> DEFINE x == SubSeq(p, i, j)
             y == SubSeq(s, i, l)
  <1>1. Len(s) \in Nat /\ Len(p) \in Nat /\ Len(p) <= Len(s) /\ i \in 1 .. Len(s) + 1 /\ l \in i - 1 .. Len(s)
    BY DEF Strings, Begins
  <1>2. /\ x \in Strings /\ Len(x) = j - i + 1 /\ \A k \in 1 .. j - i + 1 : x[k] = p[i + k - 1]
        /\ y \in Strings /\ Len(y) = l - i + 1 /\ \A k \in 1 .. l - i + 1 : y[k] = s[i + k - 1]
    BY <1>1, Piece
  <1> HIDE DEF x, y
  <1>3. ASSUME NEW k \in 1 .. Len(x) PROVE x[k] = y[k]
    <2>1. /\ k \in 1 .. j - i + 1 /\ k \in 1 .. l - i + 1 /\ i + k - 1 \in 1 .. Len(p)
      BY <1>1, <1>2
    <2>2. p[i + k - 1] = s[i + k - 1]
      BY <2>1 DEF Begins
    <2> QED
      BY <1>2, <2>1, <2>2
  <1>4. Len(x) <= Len(y) /\ (l = j => Len(x) = Len(y))
    BY <1>1, <1>2
  <1>5. l = j => x = y
    BY <1>2, <1>3, <1>4, SameElements
  <1> QED
    BY <1>2, <1>3, <1>4, <1>5 DEF Begins, x, y

\* Digits are symbols.
LEMMA DigitStrings ==
    ASSUME NEW t \in Seq(Digits)
    PROVE  t \in Strings /\ Len(t) \in Nat /\ \A k \in 1 .. Len(t) : t[k] \in Digits
  <1>1. Digits \subseteq Symbols
    BY DEF Symbols
  <1>2. /\ Len(t) \in Nat /\ \A k \in 1 .. Len(t) : t[k] \in Digits
        /\ \A S : Digits \subseteq S => t \in Seq(S)
    OBVIOUS
  <1> QED
    BY <1>1, <1>2 DEF Strings

-----------------------------------------------------------------------------
(* The parsers of nom: what they return where something sits, and that they *)
(* return nothing else on a part of the input, or ask for more.             *)

\* A parser at position i of s.
Sound(s, i, r) ==
    \/ r = Incomplete
    \/ r = Failed
    \/ r.status = "ok" /\ r.at \in i .. Len(s) + 1

\* What a parser says of a part of the input, and of more of it.
Streams(u, v) == u = Incomplete \/ u = v

LEMMA Results ==
    /\ Failed # Incomplete /\ Failed.status = "error" /\ Failed.status # "ok" /\ Incomplete.status # "ok"
    /\ \A at, v : /\ Parsed(at, v).status = "ok" /\ Parsed(at, v).at = at /\ Parsed(at, v).value = v
                  /\ Parsed(at, v) # Failed /\ Parsed(at, v) # Incomplete
  <1>1. Failed.status = "error" /\ Incomplete.status = "incomplete"
    BY DEF Failed, Incomplete
  <1>2. ASSUME NEW at, NEW v
        PROVE  Parsed(at, v).status = "ok" /\ Parsed(at, v).at = at /\ Parsed(at, v).value = v
    BY DEF Parsed
  <1>3. Failed # Incomplete /\ Failed.status # "ok" /\ Incomplete.status # "ok"
    BY <1>1
  <1>4. ASSUME NEW at, NEW v PROVE Parsed(at, v) # Failed /\ Parsed(at, v) # Incomplete
    BY <1>2, <1>3
  <1> QED
    BY <1>1, <1>2, <1>3, <1>4

\* tag compares symbol by symbol.
LEMMA TagResult ==
    ASSUME NEW s \in Strings, NEW i \in 1 .. Len(s) + 1, NEW tag \in Strings
    PROVE  /\ Sits(s, i, tag) => Tag(s, i, tag) = Parsed(i + Len(tag), tag)
           /\ (\E k \in 1 .. Len(tag) : i + k - 1 <= Len(s) /\ s[i + k - 1] # tag[k]) =>
                  Tag(s, i, tag) = Failed
           /\ ~Sits(s, i, tag) /\ (\A k \in 1 .. Len(tag) : i + k - 1 <= Len(s) => s[i + k - 1] = tag[k]) =>
                  Tag(s, i, tag) = Incomplete
  <1> DEFINE rest == SubSeq(s, i, Len(s))
  <1>1. Len(s) \in Nat /\ Len(tag) \in Nat
    BY DEF Strings
  <1>2. /\ rest \in Strings /\ Len(rest) = Len(s) - i + 1
        /\ \A k \in 1 .. Len(rest) : rest[k] = s[i + k - 1]
    <2>1. Len(s) \in i - 1 .. Len(s)
      BY <1>1
    <2> QED
      BY <2>1, Piece
  <1>3. Tag(s, i, tag) = CASE IsPrefix(tag, rest)                         -> Parsed(i + Len(tag), tag)
                           [] rest # tag /\ IsPrefix(rest, tag)             -> Incomplete
                           [] ~IsPrefix(tag, rest) /\ ~IsPrefix(rest, tag)  -> Failed
    BY DEF Tag
  <1> HIDE DEF rest
  <1>4. IsPrefix(tag, rest) <=> Sits(s, i, tag)
    BY <1>1, <1>2, PrefixPoints DEF Begins, Sits
  <1>5. IsPrefix(rest, tag) <=> Len(rest) <= Len(tag) /\ \A k \in 1 .. Len(rest) : s[i + k - 1] = tag[k]
    BY <1>2, PrefixPoints DEF Begins
  <1>6. CASE Sits(s, i, tag)
    <2>1. ~(rest # tag /\ IsPrefix(rest, tag))
      BY <1>1, <1>2, <1>5, <1>6, SameElements DEF Sits
    <2>2. ~(\E k \in 1 .. Len(tag) : i + k - 1 <= Len(s) /\ s[i + k - 1] # tag[k])
      BY <1>6 DEF Sits
    <2> QED
      BY <1>3, <1>4, <1>6, <2>1, <2>2
  <1>7. CASE \E k \in 1 .. Len(tag) : i + k - 1 <= Len(s) /\ s[i + k - 1] # tag[k]
    <2>1. PICK k \in 1 .. Len(tag) : i + k - 1 <= Len(s) /\ s[i + k - 1] # tag[k]
      BY <1>7
    <2>2. ~Sits(s, i, tag)
      BY <2>1 DEF Sits
    <2>3. k \in 1 .. Len(rest)
      BY <1>1, <1>2, <2>1
    <2>4. ~IsPrefix(rest, tag)
      BY <1>5, <2>1, <2>3
    <2> QED
      BY <1>3, <1>4, <2>1, <2>2, <2>4
  <1>8. CASE ~Sits(s, i, tag) /\ \A k \in 1 .. Len(tag) : i + k - 1 <= Len(s) => s[i + k - 1] = tag[k]
    <2>1. Len(rest) < Len(tag)
      BY <1>1, <1>2, <1>8 DEF Sits
    <2>2. IsPrefix(rest, tag)
      BY <1>1, <1>2, <1>5, <1>8, <2>1
    <2>3. rest # tag
      BY <1>1, <1>2, <2>1
    <2> QED
      BY <1>3, <1>4, <1>8, <2>2, <2>3
  <1> QED
    BY <1>6, <1>7, <1>8

LEMMA TagStreams ==
    ASSUME NEW s \in Strings, NEW p \in Strings, Begins(p, s), NEW i \in 1 .. Len(p) + 1, NEW tag \in Strings
    PROVE  Streams(Tag(p, i, tag), Tag(s, i, tag)) /\ Sound(p, i, Tag(p, i, tag))
  <1>1. Len(s) \in Nat /\ Len(p) \in Nat /\ Len(tag) \in Nat /\ Len(p) <= Len(s) /\ i \in 1 .. Len(s) + 1
    BY DEF Strings, Begins
  <1>2. \A k \in 1 .. Len(tag) : i + k - 1 <= Len(p) => p[i + k - 1] = s[i + k - 1]
    BY <1>1 DEF Begins
  <1>3. CASE Sits(p, i, tag)
    <2>1. Sits(s, i, tag)
      BY <1>1, <1>2, <1>3 DEF Sits
    <2>2. Tag(p, i, tag) = Parsed(i + Len(tag), tag) /\ Tag(s, i, tag) = Parsed(i + Len(tag), tag)
      BY <1>1, <1>3, <2>1, TagResult
    <2>3. i + Len(tag) \in i .. Len(p) + 1
      BY <1>1, <1>3 DEF Sits
    <2> QED
      BY <2>2, <2>3, Results DEF Streams, Sound
  <1>4. CASE \E k \in 1 .. Len(tag) : i + k - 1 <= Len(p) /\ p[i + k - 1] # tag[k]
    <2>1. \E k \in 1 .. Len(tag) : i + k - 1 <= Len(s) /\ s[i + k - 1] # tag[k]
      BY <1>1, <1>2, <1>4
    <2>2. Tag(p, i, tag) = Failed /\ Tag(s, i, tag) = Failed
      BY <1>1, <1>4, <2>1, TagResult
    <2> QED
      BY <2>2 DEF Streams, Sound
  <1>5. CASE ~Sits(p, i, tag) /\ \A k \in 1 .. Len(tag) : i + k - 1 <= Len(p) => p[i + k - 1] = tag[k]
    <2>1. Tag(p, i, tag) = Incomplete
      BY <1>5, TagResult
    <2> QED
      BY <2>1 DEF Streams, Sound
  <1> QED
    BY <1>3, <1>4, <1>5

\* Where a run of C ends.
Ends(s, i, C, j) == /\ j \in i .. Len(s) + 1
                    /\ \A k \in i .. j - 1 : s[k] \in C
                    /\ j <= Len(s) => s[j] \notin C

LEMMA StopFacts ==
    ASSUME NEW s \in Strings, NEW i \in 1 .. Len(s) + 1, NEW C
    PROVE  /\ Ends(s, i, C, Stop(s, i, C))
           /\ \A j : Ends(s, i, C, j) => j = Stop(s, i, C)
  <1>1. Len(s) \in Nat
    BY DEF Strings
  <1> DEFINE T == {j \in i .. Len(s) + 1 : j <= Len(s) => s[j] \notin C}
  <1>2. PICK x \in T : \A y \in T : x <= y
    <2>1. Len(s) + 1 \in T
      BY <1>1
    <2>2. T \subseteq Nat
      BY <1>1
    <2> HIDE DEF T
    <2> QED
      BY <2>1, <2>2, LeastNumber
  <1>3. ASSUME NEW k \in i .. x - 1 PROVE s[k] \in C
    <2>1. k \in i .. Len(s) + 1 /\ k <= Len(s) /\ k \notin T
      BY <1>1, <1>2, <1>3
    <2> QED
      BY <2>1
  <1>4. Ends(s, i, C, x)
    BY <1>2, <1>3 DEF Ends
  <1>5. Ends(s, i, C, Stop(s, i, C))
    <2> DEFINE Q(j) == /\ \A k \in i .. j - 1 : s[k] \in C
                       /\ j <= Len(s) => s[j] \notin C
    <2>1. x \in i .. Len(s) + 1 /\ Q(x)
      BY <1>4 DEF Ends
    <2>2. Stop(s, i, C) = CHOOSE j \in i .. Len(s) + 1 : Q(j)
      BY DEF Stop
    <2>3. Stop(s, i, C) \in i .. Len(s) + 1 /\ Q(Stop(s, i, C))
      BY <2>1, <2>2
    <2> QED
      BY <2>3 DEF Ends
  <1>6. ASSUME NEW j, Ends(s, i, C, j), NEW l, Ends(s, i, C, l), j < l PROVE FALSE
    <2>1. j \in i .. l - 1 /\ j <= Len(s)
      BY <1>1, <1>6 DEF Ends
    <2> QED
      BY <1>6, <2>1 DEF Ends
  <1>7. ASSUME NEW j, Ends(s, i, C, j) PROVE j = Stop(s, i, C)
    <2>1. j \in Int /\ Stop(s, i, C) \in Int
      BY <1>1, <1>5, <1>7 DEF Ends
    <2> QED
      BY <1>5, <1>6, <1>7, <2>1
  <1> QED
    BY <1>5, <1>7

\* What ends a run in a part of the input ends it in more of it.
LEMMA StopStreams ==
    ASSUME NEW s \in Strings, NEW p \in Strings, Begins(p, s), NEW i \in 1 .. Len(p) + 1, NEW C
    PROVE  /\ Stop(p, i, C) <= Len(p) => Stop(s, i, C) = Stop(p, i, C)
           /\ Stop(p, i, C) > Len(p) => Stop(s, i, C) > Len(p)
  <1>1. Len(s) \in Nat /\ Len(p) \in Nat /\ Len(p) <= Len(s) /\ i \in 1 .. Len(s) + 1
    BY DEF Strings, Begins
  <1>2. Ends(p, i, C, Stop(p, i, C)) /\ Ends(s, i, C, Stop(s, i, C))
    BY <1>1, StopFacts
  <1>3. \A k \in 1 .. Len(p) : p[k] = s[k]
    BY DEF Begins
  <1>4. ASSUME Stop(p, i, C) <= Len(p) PROVE Stop(s, i, C) = Stop(p, i, C)
    <2>1. Ends(s, i, C, Stop(p, i, C))
      BY <1>1, <1>2, <1>3, <1>4 DEF Ends
    <2> QED
      BY <1>1, <2>1, StopFacts
  <1>5. ASSUME Stop(p, i, C) > Len(p), Stop(s, i, C) <= Len(p) PROVE FALSE
    <2>1. Stop(s, i, C) \in 1 .. Len(p) /\ Stop(s, i, C) \in i .. Stop(p, i, C) - 1
      BY <1>1, <1>2, <1>5 DEF Ends
    <2>2. p[Stop(s, i, C)] \in C /\ s[Stop(s, i, C)] \notin C
      BY <1>1, <1>2, <1>5, <2>1 DEF Ends
    <2> QED
      BY <1>3, <2>1, <2>2
  <1> QED
    BY <1>1, <1>2, <1>4, <1>5 DEF Ends

\* The run that sits at i, if something else follows.
LEMMA StopFound ==
    ASSUME NEW s \in Strings, NEW i \in 1 .. Len(s) + 1, NEW t \in Strings, NEW C, Sits(s, i, t),
           \A k \in 1 .. Len(t) : t[k] \in C, i + Len(t) <= Len(s), s[i + Len(t)] \notin C
    PROVE  Stop(s, i, C) = i + Len(t)
  <1>1. Len(s) \in Nat /\ Len(t) \in Nat
    BY DEF Strings
  <1>2. ASSUME NEW k \in i .. (i + Len(t)) - 1 PROVE s[k] \in C
    <2>1. k - i + 1 \in 1 .. Len(t) /\ i + (k - i + 1) - 1 = k
      BY <1>1
    <2> QED
      BY <2>1 DEF Sits
  <1>3. Ends(s, i, C, i + Len(t))
    BY <1>1, <1>2 DEF Ends
  <1> QED
    BY <1>3, StopFacts

LEMMA WhileFound ==
    ASSUME NEW s \in Strings, NEW i \in 1 .. Len(s) + 1, NEW t \in Strings \ {<<>>}, NEW C, Sits(s, i, t),
           \A k \in 1 .. Len(t) : t[k] \in C, i + Len(t) <= Len(s), s[i + Len(t)] \notin C
    PROVE  TakeWhile1(s, i, C) = Parsed(i + Len(t), t)
  <1>1. Len(s) \in Nat /\ Len(t) \in Nat \ {0}
    BY DEF Strings
  <1> DEFINE stop == Stop(s, i, C)
  <1>2. stop = i + Len(t)
    BY StopFound
  <1>3. TakeWhile1(s, i, C) = CASE stop > Len(s)               -> Incomplete
                                [] stop <= Len(s) /\ stop = i  -> Failed
                                [] stop <= Len(s) /\ stop # i  -> Parsed(stop, SubSeq(s, i, stop - 1))
    BY DEF TakeWhile1
  <1>4. SubSeq(s, i, (i + Len(t)) - 1) = t
    BY PieceThatSits
  <1> HIDE DEF stop
  <1>5. stop <= Len(s) /\ stop # i /\ ~(stop > Len(s))
    BY <1>1, <1>2
  <1>6. TakeWhile1(s, i, C) = Parsed(stop, SubSeq(s, i, stop - 1))
    BY <1>3, <1>5
  <1> QED
    BY <1>2, <1>4, <1>6

LEMMA WhileMissed ==
    ASSUME NEW s \in Strings, NEW i \in 1 .. Len(s), NEW C, s[i] \notin C
    PROVE  TakeWhile1(s, i, C) = Failed
  <1>1. Len(s) \in Nat /\ i \in 1 .. Len(s) + 1
    BY DEF Strings
  <1> DEFINE stop == Stop(s, i, C)
  <1>2. stop = i
    <2>1. Ends(s, i, C, i)
      BY <1>1 DEF Ends
    <2> QED
      BY <1>1, <2>1, StopFacts
  <1>3. TakeWhile1(s, i, C) = CASE stop > Len(s)               -> Incomplete
                                [] stop <= Len(s) /\ stop = i  -> Failed
                                [] stop <= Len(s) /\ stop # i  -> Parsed(stop, SubSeq(s, i, stop - 1))
    BY DEF TakeWhile1
  <1> HIDE DEF stop
  <1> QED
    BY <1>1, <1>2, <1>3

LEMMA WhileStreams ==
    ASSUME NEW s \in Strings, NEW p \in Strings, Begins(p, s), NEW i \in 1 .. Len(p) + 1, NEW C
    PROVE  Streams(TakeWhile1(p, i, C), TakeWhile1(s, i, C)) /\ Sound(p, i, TakeWhile1(p, i, C))
  <1>1. Len(s) \in Nat /\ Len(p) \in Nat /\ Len(p) <= Len(s) /\ i \in 1 .. Len(s) + 1
    BY DEF Strings, Begins
  <1> DEFINE a == Stop(p, i, C)
             b == Stop(s, i, C)
  <1>2. Ends(p, i, C, a)
    BY StopFacts
  <1>3. a <= Len(p) => b = a
    BY StopStreams
  <1>4. /\ TakeWhile1(p, i, C) = CASE a > Len(p)            -> Incomplete
                                   [] a <= Len(p) /\ a = i  -> Failed
                                   [] a <= Len(p) /\ a # i  -> Parsed(a, SubSeq(p, i, a - 1))
        /\ TakeWhile1(s, i, C) = CASE b > Len(s)            -> Incomplete
                                   [] b <= Len(s) /\ b = i  -> Failed
                                   [] b <= Len(s) /\ b # i  -> Parsed(b, SubSeq(s, i, b - 1))
    BY DEF TakeWhile1
  <1>5. a \in i .. Len(p) + 1
    BY <1>2 DEF Ends
  <1> HIDE DEF a, b
  <1>6. CASE a > Len(p)
    BY <1>1, <1>4, <1>5, <1>6 DEF Streams, Sound
  <1>7. CASE a <= Len(p) /\ a = i
    BY <1>1, <1>3, <1>4, <1>5, <1>7 DEF Streams, Sound
  <1>8. CASE a <= Len(p) /\ a # i
    <2>1. SubSeq(p, i, a - 1) = SubSeq(s, i, a - 1)
      <3>1. a - 1 \in i - 1 .. Len(p) /\ a - 1 \in a - 1 .. Len(s)
        BY <1>1, <1>5, <1>8
      <3> QED
        BY <3>1, PieceBegins
    <2>2. TakeWhile1(p, i, C) = Parsed(a, SubSeq(p, i, a - 1)) /\ TakeWhile1(s, i, C) = TakeWhile1(p, i, C)
      <3>1. b = a /\ ~(a > Len(p)) /\ ~(b > Len(s)) /\ b <= Len(s)
        BY <1>1, <1>3, <1>5, <1>8
      <3>2. TakeWhile1(p, i, C) = Parsed(a, SubSeq(p, i, a - 1))
        BY <1>4, <1>8, <3>1
      <3>3. TakeWhile1(s, i, C) = Parsed(b, SubSeq(s, i, b - 1))
        BY <1>4, <1>8, <3>1
      <3> QED
        BY <2>1, <3>1, <3>2, <3>3
    <2> QED
      BY <1>5, <2>2, Results DEF Streams, Sound
  <1> QED
    BY <1>1, <1>5, <1>6, <1>7, <1>8

\* The four outcomes of u64.
LEMMA U64Cases ==
    ASSUME NEW s \in Strings, NEW i \in 1 .. Len(s) + 1
    PROVE  LET stop == Stop(s, i, Digits)
               value == Value(SubSeq(s, i, stop - 1))
           IN  /\ stop \in i .. Len(s) + 1 /\ value \in Nat /\ SubSeq(s, i, stop - 1) \in Seq(Digits)
               /\ stop <= Len(s) /\ stop = i => U64(s, i) = Failed
               /\ stop > i /\ value > MaxU64 => U64(s, i) = Failed
               /\ stop <= Len(s) /\ stop > i /\ value <= MaxU64 => U64(s, i) = Parsed(stop, value)
               /\ stop > Len(s) /\ value <= MaxU64 => U64(s, i) = Incomplete
  <1> DEFINE stop == Stop(s, i, Digits)
             run == SubSeq(s, i, stop - 1)
             value == Value(run)
  <1>1. Len(s) \in Nat /\ MaxU64 \in Nat
    BY NatsAssumption DEF Strings
  <1>2. stop \in i .. Len(s) + 1 /\ \A k \in i .. stop - 1 : s[k] \in Digits
    BY StopFacts DEF Ends
  <1>3. run \in Seq(Digits)
    <2>1. stop - 1 \in i - 1 .. Len(s)
      BY <1>1, <1>2
    <2> HIDE DEF stop
    <2>2. /\ run \in Seq(Symbols) /\ Len(run) = (stop - 1) - i + 1
          /\ \A k \in 1 .. (stop - 1) - i + 1 : run[k] = s[i + k - 1]
      BY <2>1, Piece DEF Strings
    <2> HIDE DEF run
    <2>3. \A k \in 1 .. Len(run) : run[k] \in Digits
      BY <1>1, <1>2, <2>2
    <2> QED
      BY <2>2, <2>3
  <1>4. value \in Nat
    <2>1. <<>> \in Seq(Digits) /\ Len(<<>>) = 0
      OBVIOUS
    <2> HIDE DEF run
    <2> QED
      BY <1>3, ValueOfPrefix
  <1>5. U64(s, i) = CASE stop <= Len(s) /\ stop = i                      -> Failed
                      [] stop > i /\ value > MaxU64                      -> Failed
                      [] stop <= Len(s) /\ stop > i /\ value <= MaxU64   -> Parsed(stop, value)
                      [] stop > Len(s) /\ value <= MaxU64                -> Incomplete
    BY DEF U64
  <1>6. stop > Len(s) => stop > i \/ value <= MaxU64
    <2>1. ASSUME stop = i PROVE value = 0
      <3>1. run = <<>>
        <4>1. stop - 1 = i - 1 /\ i - 1 \in i - 1 .. Len(s)
          BY <1>1, <2>1
        <4>2. SubSeq(s, i, i - 1) \in Strings /\ Len(SubSeq(s, i, i - 1)) = (i - 1) - i + 1
          BY <4>1, Piece
        <4> QED
          BY <4>1, <4>2 DEF Strings
      <3> QED
        BY <3>1, ValueEmpty
    <2> HIDE DEF value, stop
    <2> QED
      BY <1>1, <1>2, <2>1
  <1> HIDE DEF value, stop
  <1>7. stop <= Len(s) /\ stop = i => U64(s, i) = Failed
    BY <1>1, <1>2, <1>4, <1>5
  <1>8. stop > i /\ value > MaxU64 => U64(s, i) = Failed
    BY <1>1, <1>2, <1>4, <1>5
  <1>9. stop <= Len(s) /\ stop > i /\ value <= MaxU64 => U64(s, i) = Parsed(stop, value)
    BY <1>1, <1>2, <1>4, <1>5
  <1>10. stop > Len(s) /\ value <= MaxU64 => U64(s, i) = Incomplete
    BY <1>1, <1>2, <1>4, <1>5
  <1> QED
    BY <1>2, <1>3, <1>4, <1>7, <1>8, <1>9, <1>10 DEF value, stop

LEMMA U64Found ==
    ASSUME NEW s \in Strings, NEW i \in 1 .. Len(s) + 1, NEW n \in Numbers, Sits(s, i, Number[n]),
           i + Len(Number[n]) <= Len(s), s[i + Len(Number[n])] \notin Digits
    PROVE  U64(s, i) = Parsed(i + Len(Number[n]), n)
  <1> DEFINE t == Number[n]
             stop == Stop(s, i, Digits)
  <1>1. n \in Nat /\ n <= MaxU64
    BY NatsAssumption DEF Numbers
  <1>2. t \in Seq(Digits) /\ t # <<>> /\ Value(t) = n
    BY <1>1, NumberFacts
  <1>3. t \in Strings /\ Len(t) \in Nat \ {0} /\ \A k \in 1 .. Len(t) : t[k] \in Digits
    <2>1. t \in Strings /\ Len(t) \in Nat /\ \A k \in 1 .. Len(t) : t[k] \in Digits
      BY <1>2, DigitStrings
    <2>2. Len(t) # 0
      BY <1>2
    <2> QED
      BY <2>1, <2>2
  <1>4. Sits(s, i, t) /\ i + Len(t) <= Len(s) /\ s[i + Len(t)] \notin Digits
    OBVIOUS
  <1>5. SubSeq(s, i, i + Len(t) - 1) = t
    <2> HIDE DEF t
    <2> QED
      BY <1>3, <1>4, PieceThatSits
  <1>6. stop = i + Len(t)
    <2> HIDE DEF t
    <2> QED
      BY <1>3, <1>4, StopFound
  <1>7. Len(s) \in Nat
    BY DEF Strings
  <1>8. /\ stop <= Len(s) /\ stop > i /\ Value(SubSeq(s, i, stop - 1)) = n
    <2> HIDE DEF t, stop
    <2>1. stop - 1 = i + Len(t) - 1 /\ stop <= Len(s) /\ stop > i
      BY <1>3, <1>4, <1>6, <1>7
    <2> QED
      BY <1>2, <1>5, <2>1
  <1>9. U64(s, i) = Parsed(stop, n)
    BY <1>1, <1>8, U64Cases
  <1> QED
    BY <1>6, <1>9

\* A number that is too large is too large whatever follows.
LEMMA U64Streams ==
    ASSUME NEW s \in Strings, NEW p \in Strings, Begins(p, s), NEW i \in 1 .. Len(p) + 1
    PROVE  Streams(U64(p, i), U64(s, i)) /\ Sound(p, i, U64(p, i))
  <1>1. /\ Len(s) \in Nat /\ Len(p) \in Nat /\ Len(p) <= Len(s) /\ i \in 1 .. Len(s) + 1
        /\ MaxU64 \in Nat
    BY NatsAssumption DEF Strings, Begins
  <1> DEFINE a == Stop(p, i, Digits)
             b == Stop(s, i, Digits)
             v == Value(SubSeq(p, i, a - 1))
             w == Value(SubSeq(s, i, b - 1))
  <1>2. /\ a \in i .. Len(p) + 1 /\ v \in Nat /\ SubSeq(p, i, a - 1) \in Seq(Digits)
        /\ a <= Len(p) /\ a = i => U64(p, i) = Failed
        /\ a > i /\ v > MaxU64 => U64(p, i) = Failed
        /\ a <= Len(p) /\ a > i /\ v <= MaxU64 => U64(p, i) = Parsed(a, v)
        /\ a > Len(p) /\ v <= MaxU64 => U64(p, i) = Incomplete
    BY U64Cases
  <1>3. /\ b \in i .. Len(s) + 1 /\ w \in Nat /\ SubSeq(s, i, b - 1) \in Seq(Digits)
        /\ b <= Len(s) /\ b = i => U64(s, i) = Failed
        /\ b > i /\ w > MaxU64 => U64(s, i) = Failed
        /\ b <= Len(s) /\ b > i /\ w <= MaxU64 => U64(s, i) = Parsed(b, w)
    BY <1>1, U64Cases
  <1>4. (a <= Len(p) => b = a) /\ (a > Len(p) => b > Len(p))
    BY StopStreams
  <1>5. v <= w /\ (b = a => w = v)
    <2> HIDE DEF a, b
    <2>1. a <= b
      BY <1>1, <1>2, <1>3, <1>4
    <2>2. a - 1 \in i - 1 .. Len(p) /\ b - 1 \in i - 1 .. Len(s)
      BY <1>1, <1>2, <1>3
    <2> DEFINE x == SubSeq(p, i, a - 1)
               y == SubSeq(s, i, b - 1)
    <2>3. b - 1 \in a - 1 .. Len(s)
      BY <1>1, <1>2, <1>3, <2>1
    <2>4. Begins(x, y) /\ (b - 1 = a - 1 => x = y)
      BY <2>2, <2>3, PieceBegins
    <2>5. x \in Seq(Digits) /\ y \in Seq(Digits)
      BY <1>2, <1>3
    <2> HIDE DEF x, y
    <2>6. Value(x) <= Value(y)
      BY <2>4, <2>5, ValueOfPrefix DEF Begins
    <2> QED
      BY <2>4, <2>6 DEF x, y
  <1> HIDE DEF a, b, v, w
  <1>6. CASE a <= Len(p) /\ a = i
    BY <1>1, <1>2, <1>3, <1>4, <1>6 DEF Streams, Sound
  <1>7. CASE a > i /\ v > MaxU64
    <2>1. b > i /\ w > MaxU64
      BY <1>1, <1>2, <1>3, <1>4, <1>5, <1>7
    <2> QED
      BY <1>2, <1>3, <1>7, <2>1 DEF Streams, Sound
  <1>8. CASE a <= Len(p) /\ a > i /\ v <= MaxU64
    <2>1. b = a /\ b <= Len(s) /\ w = v
      BY <1>1, <1>2, <1>4, <1>5, <1>8
    <2>2. U64(p, i) = Parsed(a, v) /\ U64(s, i) = Parsed(a, v)
      BY <1>2, <1>3, <1>8, <2>1
    <2> QED
      BY <1>2, <2>2, Results DEF Streams, Sound
  <1>9. CASE a > Len(p) /\ v <= MaxU64
    BY <1>2, <1>9 DEF Streams, Sound
  <1>10. a <= Len(p) /\ v > MaxU64 /\ a # i => a > i
    BY <1>1, <1>2
  <1>11. a > Len(p) /\ v > MaxU64 => a > i
    <2>1. SUFFICES ASSUME a > Len(p), v > MaxU64, a = i PROVE FALSE
      BY <1>1, <1>2
    <2>2. SubSeq(p, i, i - 1) = <<>>
      <3>1. i - 1 \in i - 1 .. Len(p)
        BY <1>1
      <3>2. SubSeq(p, i, i - 1) \in Strings /\ Len(SubSeq(p, i, i - 1)) = (i - 1) - i + 1
        BY <3>1, Piece
      <3> QED
        BY <3>2 DEF Strings
    <2>3. v = 0
      BY <2>1, <2>2, ValueEmpty DEF v
    <2> QED
      BY <1>1, <2>1, <2>3
  <1> QED
    BY <1>1, <1>2, <1>6, <1>7, <1>8, <1>9, <1>10, <1>11

LEMMA TakeFound ==
    ASSUME NEW s \in Strings, NEW i \in 1 .. Len(s) + 1, NEW t \in Strings, Sits(s, i, t)
    PROVE  Take(s, i, Len(t)) = Parsed(i + Len(t), t)
  BY PieceThatSits DEF Take, Sits

LEMMA TakeStreams ==
    ASSUME NEW s \in Strings, NEW p \in Strings, Begins(p, s), NEW i \in 1 .. Len(p) + 1, NEW n \in Nat
    PROVE  Streams(Take(p, i, n), Take(s, i, n)) /\ Sound(p, i, Take(p, i, n))
  <1>1. Len(s) \in Nat /\ Len(p) \in Nat /\ Len(p) <= Len(s) /\ i \in 1 .. Len(s) + 1
    BY DEF Strings, Begins
  <1>2. CASE i + n - 1 <= Len(p)
    <2> DEFINE j == i + n - 1
    <2>1. j \in i - 1 .. Len(p) /\ j \in j .. Len(s)
      BY <1>1, <1>2
    <2> HIDE DEF j
    <2>3. SubSeq(p, i, j) = SubSeq(s, i, j)
      BY <2>1, PieceBegins
    <2>4. Take(p, i, n) = Parsed(i + n, SubSeq(p, i, j)) /\ Take(s, i, n) = Parsed(i + n, SubSeq(s, i, j))
      BY <1>1, <1>2 DEF Take, j
    <2>5. i + n \in i .. Len(p) + 1
      BY <1>1, <1>2
    <2> QED
      BY <2>3, <2>4, <2>5, Results DEF Streams, Sound
  <1>3. CASE ~(i + n - 1 <= Len(p))
    BY <1>3 DEF Take, Streams, Sound
  <1> QED
    BY <1>2, <1>3

-----------------------------------------------------------------------------
(* The decoder, on a part of the input and on more of it. *)

Blanks == {" "}

LEMMA TagStrings ==
    /\ INFO \in Strings /\ Len(INFO) = 2 /\ INFO[1] = "I" /\ INFO[2] = "NFO"
    /\ MSG \in Strings /\ Len(MSG) = 2 /\ MSG[1] = "M" /\ MSG[2] = "SG"
    /\ OK \in Strings /\ Len(OK) = 2 /\ OK[1] = "+" /\ OK[2] = "OK"
    /\ ERR \in Strings /\ Len(ERR) = 3 /\ ERR[1] = "-" /\ ERR[2] = "ERR"
    /\ PING \in Strings /\ Len(PING) = 2 /\ PING[1] = "P" /\ PING[2] = "ING"
    /\ PONG \in Strings /\ Len(PONG) = 2 /\ PONG[1] = "P" /\ PONG[2] = "ONG"
    /\ Newline \in Strings /\ Len(Newline) = 2 /\ Newline[1] = "CR" /\ Newline[2] = "LF"
    /\ Space \in Strings /\ Len(Space) = 1 /\ Space[1] \in Blanks
    /\ CONNECT \in Strings /\ Len(CONNECT) = 2 /\ CONNECT[1] = "CONNECT"
    /\ PUB \in Strings /\ Len(PUB) = 2 /\ PUB[1] = "PUB"
    /\ SUB \in Strings /\ Len(SUB) = 2 /\ SUB[1] = "SUB"
    /\ UNSUB \in Strings /\ Len(UNSUB) = 2 /\ UNSUB[1] = "UNSUB"
  <1>1. /\ "I" \in Symbols /\ "NFO" \in Symbols /\ "M" \in Symbols /\ "SG" \in Symbols
        /\ "+" \in Symbols /\ "OK" \in Symbols /\ "-" \in Symbols /\ "ERR" \in Symbols /\ " " \in Symbols
        /\ "P" \in Symbols /\ "ING" \in Symbols /\ "ONG" \in Symbols /\ "CR" \in Symbols /\ "LF" \in Symbols
        /\ "CONNECT" \in Symbols /\ "PUB" \in Symbols /\ "SUB" \in Symbols /\ "UNSUB" \in Symbols
    BY DEF Symbols
  <1>2. \A a, b \in Symbols : <<a, b>> \in Strings /\ Len(<<a, b>>) = 2 /\ <<a, b>>[1] = a /\ <<a, b>>[2] = b
    BY DEF Strings
  <1>3. ERR \in Strings /\ Len(ERR) = 3 /\ ERR[1] = "-" /\ ERR[2] = "ERR"
    <2>1. \A a, b, c \in Symbols : /\ <<a, b, c>> \in Strings /\ Len(<<a, b, c>>) = 3
                                   /\ <<a, b, c>>[1] = a /\ <<a, b, c>>[2] = b /\ <<a, b, c>>[3] = c
      BY DEF Strings
    <2> QED
      BY <1>1, <2>1 DEF ERR
  <1>4. Space \in Strings /\ Len(Space) = 1 /\ Space[1] \in Blanks
    <2>1. \A a \in Symbols : <<a>> \in Strings /\ Len(<<a>>) = 1 /\ <<a>>[1] = a
      BY DEF Strings
    <2> QED
      BY <1>1, <2>1 DEF Space, Blanks
  <1>5. INFO \in Strings /\ Len(INFO) = 2 /\ INFO[1] = "I" /\ INFO[2] = "NFO"
    BY <1>1, <1>2 DEF INFO
  <1>6. MSG \in Strings /\ Len(MSG) = 2 /\ MSG[1] = "M" /\ MSG[2] = "SG"
    BY <1>1, <1>2 DEF MSG
  <1>7. OK \in Strings /\ Len(OK) = 2 /\ OK[1] = "+" /\ OK[2] = "OK"
    BY <1>1, <1>2 DEF OK
  <1>8. PING \in Strings /\ Len(PING) = 2 /\ PING[1] = "P" /\ PING[2] = "ING"
    BY <1>1, <1>2 DEF PING
  <1>9. PONG \in Strings /\ Len(PONG) = 2 /\ PONG[1] = "P" /\ PONG[2] = "ONG"
    BY <1>1, <1>2 DEF PONG
  <1>10. Newline \in Strings /\ Len(Newline) = 2 /\ Newline[1] = "CR" /\ Newline[2] = "LF"
    BY <1>1, <1>2 DEF Newline
  <1>11. CONNECT \in Strings /\ Len(CONNECT) = 2 /\ CONNECT[1] = "CONNECT"
    BY <1>1, <1>2 DEF CONNECT
  <1>12. PUB \in Strings /\ Len(PUB) = 2 /\ PUB[1] = "PUB"
    BY <1>1, <1>2 DEF PUB
  <1>13. SUB \in Strings /\ Len(SUB) = 2 /\ SUB[1] = "SUB"
    BY <1>1, <1>2 DEF SUB
  <1>14. UNSUB \in Strings /\ Len(UNSUB) = 2 /\ UNSUB[1] = "UNSUB"
    BY <1>1, <1>2 DEF UNSUB
  <1> QED
    BY <1>3, <1>4, <1>5, <1>6, <1>7, <1>8, <1>9, <1>10, <1>11, <1>12, <1>13, <1>14

\* Symbols that end a run of others.
LEMMA SymbolFacts ==
    /\ "x" \notin Blanks /\ "CR" \notin Blanks /\ \A c \in Digits : c \notin Blanks
    /\ "x" \notin Digits /\ "CR" \notin Digits /\ \A c \in Blanks : c \notin Digits
    /\ "CR" \notin TextSymbols /\ \A c \in Blanks : c # "x"
    /\ \A c \in Digits : c # "x"
    /\ \A c \in TokenSymbols : c \in TextSymbols /\ c \in Utf8Symbols /\ c \notin Blanks /\ c # "CR"
    /\ "x" \in TokenSymbols /\ Digits \subseteq TokenSymbols
    /\ \A c \in Blanks : c \notin TokenSymbols /\ c # "CR"
    /\ TextSymbols \subseteq Symbols /\ Utf8Symbols \subseteq Symbols
  BY DigitFacts DEF Blanks, TextSymbols, Utf8Symbols, TokenSymbols, Symbols

LEMMA Whitespace ==
    \A s, i : ParseWhitespace(s, i) = TakeWhile1(s, i, Blanks)
  BY DEF ParseWhitespace, Blanks

\* Two results, of a part of the input and of more of it.
Same(p, u, v) == Streams(u, v) /\ Sound(p, 1, u)

\* Where a parser stopped on a part of the input it stops on more of it.
LEMMA Ahead ==
    ASSUME NEW p \in Strings, NEW u, NEW v, Same(p, u, v), u.status = "ok"
    PROVE  u = v /\ u.at \in 1 .. Len(p) + 1
  BY Results DEF Same, Streams, Sound

\* From any position on.
LEMMA SameFrom ==
    ASSUME NEW p \in Strings, NEW i \in 1 .. Len(p) + 1, NEW u, NEW v, Streams(u, v), Sound(p, i, u)
    PROVE  Same(p, u, v)
  <1>1. Len(p) \in Nat
    BY DEF Strings
  <1> QED
    BY <1>1 DEF Same, Sound

\* A parser and what goes on from it.
LEMMA Onward ==
    ASSUME NEW p, NEW u, NEW v, NEW x, NEW y, Same(p, u, v), u.status = "ok" => Same(p, x, y)
    PROVE  Same(p, IF u.status = "ok" THEN x ELSE u, IF v.status = "ok" THEN y ELSE v)
  <1>1. CASE u.status = "ok"
    <2>1. u = v
      BY <1>1, Results DEF Same, Streams
    <2> QED
      BY <1>1, <2>1
  <1>2. CASE u.status # "ok"
    BY <1>2, Results DEF Same, Streams, Sound
  <1> QED
    BY <1>1, <1>2

\* The parsers that go on from a result.
LEMMA NextWhile ==
    ASSUME NEW s \in Strings, NEW p \in Strings, Begins(p, s), NEW C,
           NEW u, NEW v, Same(p, u, v), u.status = "ok"
    PROVE  Same(p, TakeWhile1(p, u.at, C), TakeWhile1(s, v.at, C))
  BY Ahead, SameFrom, WhileStreams

LEMMA NextTag ==
    ASSUME NEW s \in Strings, NEW p \in Strings, Begins(p, s), NEW tag \in Strings,
           NEW u, NEW v, Same(p, u, v), u.status = "ok"
    PROVE  Same(p, Tag(p, u.at, tag), Tag(s, v.at, tag))
  BY Ahead, SameFrom, TagStreams

LEMMA NextU64 ==
    ASSUME NEW s \in Strings, NEW p \in Strings, Begins(p, s),
           NEW u, NEW v, Same(p, u, v), u.status = "ok"
    PROVE  Same(p, U64(p, u.at), U64(s, v.at))
  BY Ahead, SameFrom, U64Streams

LEMMA FirstTag ==
    ASSUME NEW s \in Strings, NEW p \in Strings, Begins(p, s), NEW tag \in Strings
    PROVE  Same(p, Tag(p, 1, tag), Tag(s, 1, tag))
  <1>1. 1 \in 1 .. Len(p) + 1
    BY DEF Strings
  <1> QED
    BY <1>1, SameFrom, TagStreams

LEMMA NextText ==
    ASSUME NEW s \in Strings, NEW p \in Strings, Begins(p, s),
           NEW u, NEW v, Same(p, u, v), u.status = "ok"
    PROVE  Same(p, ParseText(p, u.at), ParseText(s, v.at))
  <1> DEFINE A(z, i) == TakeWhile1(z, i, TextSymbols)
             B(z, i) == IF A(z, i).value \in Strs THEN A(z, i) ELSE Failed
             W(z, i) == IF A(z, i).status = "ok" THEN B(z, i) ELSE A(z, i)
  <1>1. ParseText(p, u.at) = W(p, u.at) /\ ParseText(s, v.at) = W(s, v.at)
    BY DEF ParseText, FromUtf8, Then
  <1>2. Same(p, A(p, u.at), A(s, v.at))
    BY NextWhile
  <1> HIDE DEF A
  <1>3. ASSUME A(p, u.at).status = "ok" PROVE Same(p, B(p, u.at), B(s, v.at))
    <2>1. A(p, u.at) = A(s, v.at)
      BY <1>2, <1>3, Ahead
    <2> QED
      BY <1>2, <2>1 DEF Same, Streams, Sound
  <1> HIDE DEF B
  <1>4. Same(p, W(p, u.at), W(s, v.at))
    BY <1>2, <1>3, Onward
  <1> QED
    BY <1>1, <1>4

\* Where everything has succeeded.
LEMMA SameEnd ==
    ASSUME NEW p \in Strings, NEW u, NEW v, Same(p, u, v), u.status = "ok", NEW x
    PROVE  Same(p, Parsed(u.at, x), Parsed(v.at, x)) /\ u = v
  BY Ahead, Results DEF Same, Streams, Sound

LEMMA InfoStreams ==
    ASSUME NEW s \in Strings, NEW p \in Strings, Begins(p, s)
    PROVE  Same(p, ParseInfo(p), ParseInfo(s))
  <1> DEFINE A(z) == Tag(z, 1, INFO)
             B(z) == ParseWhitespace(z, A(z).at)
             C(z) == ParseText(z, B(z).at)
             Z(z) == Parsed(C(z).at, [op |-> "Info", json |-> C(z).value])
             Y(z) == IF C(z).status = "ok" THEN Z(z) ELSE C(z)
             X(z) == IF B(z).status = "ok" THEN Y(z) ELSE B(z)
             W(z) == IF A(z).status = "ok" THEN X(z) ELSE A(z)
  <1>1. ParseInfo(p) = W(p) /\ ParseInfo(s) = W(s)
    BY DEF ParseInfo, Then
  <1> HIDE DEF A, B, C, W, X, Y, Z
  <1>2. SUFFICES Same(p, W(p), W(s))
    BY <1>1
  <1>3. Same(p, A(p), A(s))
    BY FirstTag, TagStrings DEF A
  <1>4. SUFFICES ASSUME A(p).status = "ok" PROVE Same(p, X(p), X(s))
    BY <1>3, Onward DEF W
  <1>5. Same(p, B(p), B(s))
    BY <1>3, <1>4, NextWhile DEF B, ParseWhitespace
  <1>6. SUFFICES ASSUME B(p).status = "ok" PROVE Same(p, Y(p), Y(s))
    BY <1>5, Onward DEF X
  <1>7. Same(p, C(p), C(s))
    BY <1>5, <1>6, NextText DEF C
  <1>8. SUFFICES ASSUME C(p).status = "ok" PROVE Same(p, Z(p), Z(s))
    BY <1>7, Onward DEF Y
  <1>9. C(p) = C(s)
    BY <1>7, <1>8, SameEnd
  <1> QED
    BY <1>7, <1>8, <1>9, SameEnd DEF Z

LEMMA WordStreams ==
    ASSUME NEW s \in Strings, NEW p \in Strings, Begins(p, s), NEW word \in Strings, NEW name
    PROVE  Same(p, ParseWord(p, word, name), ParseWord(s, word, name))
  <1> DEFINE A(z) == Tag(z, 1, word)
             Z(z) == Parsed(A(z).at, [op |-> name])
             W(z) == IF A(z).status = "ok" THEN Z(z) ELSE A(z)
  <1>1. ParseWord(p, word, name) = W(p) /\ ParseWord(s, word, name) = W(s)
    BY DEF ParseWord, Then
  <1> HIDE DEF A, W, Z
  <1>2. SUFFICES Same(p, W(p), W(s))
    BY <1>1
  <1>3. Same(p, A(p), A(s))
    BY FirstTag DEF A
  <1>4. SUFFICES ASSUME A(p).status = "ok" PROVE Same(p, Z(p), Z(s))
    BY <1>3, Onward DEF W
  <1> QED
    BY <1>3, <1>4, SameEnd DEF Z

LEMMA ErrStreams ==
    ASSUME NEW s \in Strings, NEW p \in Strings, Begins(p, s)
    PROVE  Same(p, ParseErr(p), ParseErr(s))
  <1> DEFINE A(z) == Tag(z, 1, ERR)
             B(z) == ParseText(z, A(z).at)
             Z(z) == Parsed(B(z).at, [op |-> "Err", message |-> B(z).value])
             X(z) == IF B(z).status = "ok" THEN Z(z) ELSE B(z)
             W(z) == IF A(z).status = "ok" THEN X(z) ELSE A(z)
  <1>1. ParseErr(p) = W(p) /\ ParseErr(s) = W(s)
    BY DEF ParseErr, Then
  <1> HIDE DEF A, B, W, X, Z
  <1>2. SUFFICES Same(p, W(p), W(s))
    BY <1>1
  <1>3. Same(p, A(p), A(s))
    BY FirstTag, TagStrings DEF A
  <1>4. SUFFICES ASSUME A(p).status = "ok" PROVE Same(p, X(p), X(s))
    BY <1>3, Onward DEF W
  <1>5. Same(p, B(p), B(s))
    BY <1>3, <1>4, NextText DEF B
  <1>6. SUFFICES ASSUME B(p).status = "ok" PROVE Same(p, Z(p), Z(s))
    BY <1>5, Onward DEF X
  <1>7. B(p) = B(s)
    BY <1>5, <1>6, SameEnd
  <1> QED
    BY <1>5, <1>6, <1>7, SameEnd DEF Z

LEMMA ReplyStreams ==
    ASSUME NEW s \in Strings, NEW p \in Strings, Begins(p, s),
           NEW u, NEW v, Same(p, u, v), u.status = "ok"
    PROVE  Same(p, Opt(ParseReplyTo(p, u.at), u.at), Opt(ParseReplyTo(s, v.at), v.at))
  <1> DEFINE A(z, i) == ParseSubject(z, i)
             B(z, i) == ParseWhitespace(z, A(z, i).at)
             Z(z, i) == Parsed(B(z, i).at, A(z, i).value)
             X(z, i) == IF B(z, i).status = "ok" THEN Z(z, i) ELSE B(z, i)
             W(z, i) == IF A(z, i).status = "ok" THEN X(z, i) ELSE A(z, i)
  <1>1. ParseReplyTo(p, u.at) = W(p, u.at) /\ ParseReplyTo(s, v.at) = W(s, v.at)
    BY DEF ParseReplyTo, Then
  <1> HIDE DEF A, B, W, X, Z
  <1>2. Same(p, A(p, u.at), A(s, v.at))
    BY NextWhile DEF A, ParseSubject
  <1>3. ASSUME A(p, u.at).status = "ok" PROVE Same(p, X(p, u.at), X(s, v.at))
    <2>1. Same(p, B(p, u.at), B(s, v.at))
      BY <1>2, <1>3, NextWhile DEF B, ParseWhitespace
    <2>2. SUFFICES ASSUME B(p, u.at).status = "ok" PROVE Same(p, Z(p, u.at), Z(s, v.at))
      BY <2>1, Onward DEF X
    <2>3. A(p, u.at) = A(s, v.at)
      BY <1>2, <1>3, SameEnd
    <2> QED
      BY <2>1, <2>2, <2>3, SameEnd DEF Z
  <1>4. Same(p, W(p, u.at), W(s, v.at))
    BY <1>2, <1>3, Onward DEF W
  <1>5. u.at = v.at /\ u.at \in 1 .. Len(p) + 1
    BY Ahead
  <1> DEFINE Y(z, i) == IF W(z, i) = Failed THEN Parsed(i, None)
                        ELSE IF W(z, i).status = "ok" THEN Parsed(W(z, i).at, Some(W(z, i).value)) ELSE W(z, i)
  <1>6. Opt(ParseReplyTo(p, u.at), u.at) = Y(p, u.at) /\ Opt(ParseReplyTo(s, v.at), v.at) = Y(s, v.at)
    BY <1>1 DEF Opt, Then
  <1>7. CASE W(p, u.at) = Failed
    <2>1. W(s, v.at) = Failed
      BY <1>4, <1>7, Results DEF Same, Streams
    <2>2. Parsed(u.at, None).status = "ok" /\ Parsed(u.at, None).at = u.at
      BY Results
    <2> QED
      BY <1>5, <1>6, <1>7, <2>1, <2>2 DEF Same, Streams, Sound
  <1>8. CASE W(p, u.at).status = "ok"
    <2>1. W(s, v.at) = W(p, u.at) /\ W(p, u.at).at \in 1 .. Len(p) + 1 /\ W(p, u.at) # Failed
      BY <1>4, <1>8, Ahead, Results
    <2> DEFINE q == Parsed(W(p, u.at).at, Some(W(p, u.at).value))
    <2>2. q.status = "ok" /\ q.at = W(p, u.at).at
      BY Results
    <2> HIDE DEF W
    <2>3. Y(p, u.at) = q /\ Y(s, v.at) = q
      BY <1>8, <2>1
    <2> HIDE DEF q, Y
    <2> QED
      BY <1>6, <2>1, <2>2, <2>3 DEF Same, Streams, Sound
  <1>9. CASE W(p, u.at) = Incomplete
    <2>1. Y(p, u.at) = Incomplete
      BY <1>9, Results
    <2> QED
      BY <1>6, <2>1 DEF Same, Streams, Sound
  <1> QED
    BY <1>4, <1>7, <1>8, <1>9 DEF Same, Sound

\* The size that u64 reads is a number.
LEMMA SizeIsNumber ==
    ASSUME NEW p \in Strings, NEW i \in 1 .. Len(p) + 1, U64(p, i).status = "ok"
    PROVE  U64(p, i).value \in Nat
  <1> DEFINE stop == Stop(p, i, Digits)
             value == Value(SubSeq(p, i, stop - 1))
  <1>1. Len(p) \in Nat /\ MaxU64 \in Nat
    BY NatsAssumption DEF Strings
  <1>2. /\ stop \in i .. Len(p) + 1 /\ value \in Nat
        /\ stop <= Len(p) /\ stop = i => U64(p, i) = Failed
        /\ stop > i /\ value > MaxU64 => U64(p, i) = Failed
        /\ stop <= Len(p) /\ stop > i /\ value <= MaxU64 => U64(p, i) = Parsed(stop, value)
        /\ stop > Len(p) /\ value <= MaxU64 => U64(p, i) = Incomplete
    BY U64Cases
  <1>3. stop > Len(p) /\ stop = i => value <= MaxU64 \/ U64(p, i).status # "ok"
    <2>1. SUFFICES ASSUME stop > Len(p), stop = i PROVE value = 0
      BY <1>1
    <2>2. SubSeq(p, i, i - 1) = <<>>
      <3>1. i - 1 \in i - 1 .. Len(p)
        BY <1>1
      <3>2. SubSeq(p, i, i - 1) \in Strings /\ Len(SubSeq(p, i, i - 1)) = (i - 1) - i + 1
        BY <3>1, Piece
      <3> QED
        BY <3>2 DEF Strings
    <2> QED
      BY <2>1, <2>2, ValueEmpty
  <1> HIDE DEF stop, value
  <1> QED
    BY <1>1, <1>2, <1>3, Results

LEMMA PayloadStreams ==
    ASSUME NEW s \in Strings, NEW p \in Strings, Begins(p, s),
           NEW u, NEW v, Same(p, u, v), u.status = "ok"
    PROVE  Same(p, ParsePayload(p, u.at), ParsePayload(s, v.at))
  <1> DEFINE A(z, i) == U64(z, i)
             B(z, i) == ParseNewline(z, A(z, i).at)
             C(z, i) == Take(z, B(z, i).at, A(z, i).value)
             X(z, i) == IF B(z, i).status = "ok" THEN C(z, i) ELSE B(z, i)
             W(z, i) == IF A(z, i).status = "ok" THEN X(z, i) ELSE A(z, i)
  <1>1. ParsePayload(p, u.at) = W(p, u.at) /\ ParsePayload(s, v.at) = W(s, v.at)
    BY DEF ParsePayload, Then
  <1> HIDE DEF A, B, C, W, X
  <1>2. SUFFICES Same(p, W(p, u.at), W(s, v.at))
    BY <1>1
  <1>3. Same(p, A(p, u.at), A(s, v.at))
    BY NextU64 DEF A
  <1>4. SUFFICES ASSUME A(p, u.at).status = "ok" PROVE Same(p, X(p, u.at), X(s, v.at))
    BY <1>3, Onward DEF W
  <1>5. Same(p, B(p, u.at), B(s, v.at))
    BY <1>3, <1>4, NextTag, TagStrings DEF B, ParseNewline
  <1>6. SUFFICES ASSUME B(p, u.at).status = "ok" PROVE Same(p, C(p, u.at), C(s, v.at))
    BY <1>5, Onward DEF X
  <1>7. A(p, u.at) = A(s, v.at) /\ B(p, u.at) = B(s, v.at) /\ B(p, u.at).at \in 1 .. Len(p) + 1
    BY <1>3, <1>4, <1>5, <1>6, Ahead
  <1>8. A(p, u.at).value \in Nat
    <2>1. u.at \in 1 .. Len(p) + 1
      BY Ahead
    <2> QED
      BY <1>4, <2>1, SizeIsNumber DEF A
  <1> QED
    BY <1>7, <1>8, TakeStreams, SameFrom DEF C

LEMMA MsgStreams ==
    ASSUME NEW s \in Strings, NEW p \in Strings, Begins(p, s)
    PROVE  Same(p, ParseMsg(p), ParseMsg(s))
  <1> DEFINE A(z) == Tag(z, 1, MSG)
             B(z) == ParseWhitespace(z, A(z).at)
             C(z) == ParseSubject(z, B(z).at)
             D(z) == ParseWhitespace(z, C(z).at)
             E(z) == U64(z, D(z).at)
             F(z) == ParseWhitespace(z, E(z).at)
             G(z) == Opt(ParseReplyTo(z, F(z).at), F(z).at)
             H(z) == ParsePayload(z, G(z).at)
             Z(z) == Parsed(H(z).at, [op |-> "Msg", subject |-> C(z).value, sid |-> E(z).value,
                                      reply_to |-> G(z).value, payload |-> H(z).value])
             T7(z) == IF H(z).status = "ok" THEN Z(z) ELSE H(z)
             T6(z) == IF G(z).status = "ok" THEN T7(z) ELSE G(z)
             T5(z) == IF F(z).status = "ok" THEN T6(z) ELSE F(z)
             T4(z) == IF E(z).status = "ok" THEN T5(z) ELSE E(z)
             T3(z) == IF D(z).status = "ok" THEN T4(z) ELSE D(z)
             T2(z) == IF C(z).status = "ok" THEN T3(z) ELSE C(z)
             T1(z) == IF B(z).status = "ok" THEN T2(z) ELSE B(z)
             T(z)  == IF A(z).status = "ok" THEN T1(z) ELSE A(z)
  <1>1. ParseMsg(p) = T(p) /\ ParseMsg(s) = T(s)
    BY DEF ParseMsg, Then
  <1> HIDE DEF A, B, C, D, E, F, G, H, Z, T, T1, T2, T3, T4, T5, T6, T7
  <1>2. SUFFICES Same(p, T(p), T(s))
    BY <1>1
  <1>3. Same(p, A(p), A(s))
    BY FirstTag, TagStrings DEF A
  <1>4. SUFFICES ASSUME A(p).status = "ok" PROVE Same(p, T1(p), T1(s))
    BY <1>3, Onward DEF T
  <1>5. Same(p, B(p), B(s))
    BY <1>3, <1>4, NextWhile DEF B, ParseWhitespace
  <1>6. SUFFICES ASSUME B(p).status = "ok" PROVE Same(p, T2(p), T2(s))
    BY <1>5, Onward DEF T1
  <1>7. Same(p, C(p), C(s))
    BY <1>5, <1>6, NextWhile DEF C, ParseSubject
  <1>8. SUFFICES ASSUME C(p).status = "ok" PROVE Same(p, T3(p), T3(s))
    BY <1>7, Onward DEF T2
  <1>9. Same(p, D(p), D(s))
    BY <1>7, <1>8, NextWhile DEF D, ParseWhitespace
  <1>10. SUFFICES ASSUME D(p).status = "ok" PROVE Same(p, T4(p), T4(s))
    BY <1>9, Onward DEF T3
  <1>11. Same(p, E(p), E(s))
    BY <1>9, <1>10, NextU64 DEF E
  <1>12. SUFFICES ASSUME E(p).status = "ok" PROVE Same(p, T5(p), T5(s))
    BY <1>11, Onward DEF T4
  <1>13. Same(p, F(p), F(s))
    BY <1>11, <1>12, NextWhile DEF F, ParseWhitespace
  <1>14. SUFFICES ASSUME F(p).status = "ok" PROVE Same(p, T6(p), T6(s))
    BY <1>13, Onward DEF T5
  <1>15. Same(p, G(p), G(s))
    BY <1>13, <1>14, ReplyStreams DEF G
  <1>16. SUFFICES ASSUME G(p).status = "ok" PROVE Same(p, T7(p), T7(s))
    BY <1>15, Onward DEF T6
  <1>17. Same(p, H(p), H(s))
    BY <1>15, <1>16, PayloadStreams DEF H
  <1>18. SUFFICES ASSUME H(p).status = "ok" PROVE Same(p, Z(p), Z(s))
    BY <1>17, Onward DEF T7
  <1>19. C(p) = C(s) /\ E(p) = E(s) /\ G(p) = G(s) /\ H(p) = H(s)
    BY <1>7, <1>8, <1>11, <1>12, <1>15, <1>16, <1>17, <1>18, Ahead
  <1> QED
    BY <1>17, <1>18, <1>19, SameEnd DEF Z

\* The alternative of six parsers.
LEMMA AltOfSix ==
    ASSUME NEW a, NEW b, NEW c, NEW d, NEW e, NEW f
    PROVE  Alt(<<a, b, c, d, e, f>>) =
               IF a # Failed THEN a ELSE IF b # Failed THEN b ELSE IF c # Failed THEN c
               ELSE IF d # Failed THEN d ELSE IF e # Failed THEN e ELSE f
  <1> DEFINE results == <<a, b, c, d, e, f>>
             I == {i \in 1 .. Len(results) : results[i] # Failed}
             first == IF I # {} THEN CHOOSE x \in I : \A y \in I : x <= y ELSE 0
  <1>1. Alt(results) = IF first = 0 THEN Failed ELSE results[first]
    BY DEF Alt, SelectInSeq, Min
  <1>2. /\ results[1] = a /\ results[2] = b /\ results[3] = c
        /\ results[4] = d /\ results[5] = e /\ results[6] = f
        /\ 1 .. Len(results) = 1 .. 6
    OBVIOUS
  <1>3. I \subseteq Nat /\ \A i : i \in I <=> i \in 1 .. 6 /\ results[i] # Failed
    BY <1>2
  <1>4. I # {} => first \in I /\ \A y \in I : first <= y
    <2>1. SUFFICES ASSUME I # {} PROVE \E x \in I : \A y \in I : x <= y
      OBVIOUS
    <2> HIDE DEF I
    <2> QED
      BY <1>3, <2>1, LeastNumber
  <1> HIDE DEF I, first, results
  <1>5. \A i \in 1 .. 6 : i = 1 \/ i = 2 \/ i = 3 \/ i = 4 \/ i = 5 \/ i = 6
    OBVIOUS
  <1>6. CASE I = {}
    <2>1. first = 0
      BY <1>6 DEF first
    <2>2. a = Failed /\ b = Failed /\ c = Failed /\ d = Failed /\ e = Failed /\ f = Failed
      BY <1>2, <1>3, <1>6
    <2> QED
      BY <1>1, <2>1, <2>2 DEF results
  <1>7. CASE I # {}
    <2>1. first \in 1 .. 6 /\ results[first] # Failed /\ \A i \in 1 .. 6 : i < first => results[i] = Failed
      BY <1>3, <1>4, <1>7
    <2>2. Alt(results) = results[first]
      BY <1>1, <2>1
    <2>3. Alt(results) = IF a # Failed THEN a ELSE IF b # Failed THEN b ELSE IF c # Failed THEN c
                         ELSE IF d # Failed THEN d ELSE IF e # Failed THEN e ELSE f
      <3>1. CASE first = 1
        BY <1>2, <2>1, <2>2, <3>1
      <3>2. CASE first = 2
        BY <1>2, <2>1, <2>2, <3>2
      <3>3. CASE first = 3
        BY <1>2, <2>1, <2>2, <3>3
      <3>4. CASE first = 4
        BY <1>2, <2>1, <2>2, <3>4
      <3>5. CASE first = 5
        BY <1>2, <2>1, <2>2, <3>5
      <3>6. CASE first = 6
        BY <1>2, <2>1, <2>2, <3>6
      <3> QED
        BY <1>5, <2>1, <3>1, <3>2, <3>3, <3>4, <3>5, <3>6
    <2> QED
      BY <2>3 DEF results
  <1> QED
    BY <1>6, <1>7

\* The parsers of the operations, in their order.
Operation(s) == Alt(<<ParseInfo(s), ParseMsg(s), ParseWord(s, OK, "Ok"), ParseErr(s),
                      ParseWord(s, PING, "Ping"), ParseWord(s, PONG, "Pong")>>)

LEMMA FirstThatFits ==
    \A s : Operation(s) = IF ParseInfo(s) # Failed THEN ParseInfo(s)
                          ELSE IF ParseMsg(s) # Failed THEN ParseMsg(s)
                          ELSE IF ParseWord(s, OK, "Ok") # Failed THEN ParseWord(s, OK, "Ok")
                          ELSE IF ParseErr(s) # Failed THEN ParseErr(s)
                          ELSE IF ParseWord(s, PING, "Ping") # Failed THEN ParseWord(s, PING, "Ping")
                          ELSE ParseWord(s, PONG, "Pong")
  BY AltOfSix DEF Operation

\* Decode never changes its mind: what it returns for the bytes that have
\* arrived, a result or an error, it returns whatever arrives after them, and it
\* consumes no more than what has arrived.
LEMMA DecodeStreams ==
    ASSUME NEW s \in Strings, NEW p \in Strings, Begins(p, s)
    PROVE  Same(p, Decode(p), Decode(s))
  <1> DEFINE A(z) == Operation(z)
             B(z) == ParseNewline(z, A(z).at)
             Z(z) == Parsed(B(z).at, A(z).value)
             X(z) == IF B(z).status = "ok" THEN Z(z) ELSE B(z)
             W(z) == IF A(z).status = "ok" THEN X(z) ELSE A(z)
  <1>1. Decode(p) = W(p) /\ Decode(s) = W(s)
    BY DEF Decode, Then, Operation
  <1>2. Same(p, A(p), A(s))
    <2> DEFINE C(z) == ParseWord(z, OK, "Ok")
               E(z) == ParseWord(z, PING, "Ping")
               F(z) == ParseWord(z, PONG, "Pong")
    <2>1. /\ Same(p, ParseInfo(p), ParseInfo(s)) /\ Same(p, ParseMsg(p), ParseMsg(s))
          /\ Same(p, C(p), C(s)) /\ Same(p, ParseErr(p), ParseErr(s))
          /\ Same(p, E(p), E(s)) /\ Same(p, F(p), F(s))
      BY InfoStreams, MsgStreams, WordStreams, ErrStreams, TagStrings
    <2>2. \A z \in {p, s} :
              A(z) = IF ParseInfo(z) # Failed THEN ParseInfo(z) ELSE IF ParseMsg(z) # Failed THEN ParseMsg(z)
                     ELSE IF C(z) # Failed THEN C(z) ELSE IF ParseErr(z) # Failed THEN ParseErr(z)
                     ELSE IF E(z) # Failed THEN E(z) ELSE F(z)
      BY FirstThatFits
    <2> HIDE DEF A, C, E, F
    <2>3. Streams(A(p), A(s))
      BY <2>1, <2>2, Results DEF Same, Streams
    <2>4. Sound(p, 1, A(p))
      BY <2>1, <2>2 DEF Same
    <2> QED
      BY <2>3, <2>4 DEF Same
  <1> HIDE DEF A, B, W, X, Z
  <1>3. SUFFICES Same(p, W(p), W(s))
    BY <1>1
  <1>4. SUFFICES ASSUME A(p).status = "ok" PROVE Same(p, X(p), X(s))
    BY <1>2, Onward DEF W
  <1>5. Same(p, B(p), B(s))
    BY <1>2, <1>4, NextTag, TagStrings DEF B, ParseNewline
  <1>6. SUFFICES ASSUME B(p).status = "ok" PROVE Same(p, Z(p), Z(s))
    BY <1>5, Onward DEF X
  <1>7. A(p) = A(s)
    BY <1>2, <1>4, SameEnd
  <1> QED
    BY <1>5, <1>6, <1>7, SameEnd DEF Z

-----------------------------------------------------------------------------
(* The decoder, on the bytes of an operation and whatever follows. *)

\* The operations of the server, form by form.
LEMMA ServerForms ==
    ASSUME NEW o \in ServerOperations
    PROVE  \/ \E json \in Texts : json[1] \notin Blanks /\ o = [op |-> "Info", json |-> json]
           \/ \E subject \in Subjects, sid \in Numbers, reply \in Option(Subjects), payload \in Payloads :
                  o = [op |-> "Msg", subject |-> subject, sid |-> sid, reply_to |-> reply, payload |-> payload]
           \/ \E message \in Texts : o = [op |-> "Err", message |-> message]
           \/ o = [op |-> "Ok"] \/ o = [op |-> "Ping"] \/ o = [op |-> "Pong"]
  <1>1. CASE o \in [op : {"Info"}, json : {t \in Texts : t[1] # " "}]
    <2>1. o = [op |-> "Info", json |-> o.json] /\ o.json \in Texts /\ o.json[1] \notin Blanks
      BY <1>1 DEF Blanks
    <2> QED
      BY <2>1
  <1>2. CASE o \in [op : {"Msg"}, subject : Subjects, sid : Numbers, reply_to : Option(Subjects),
                    payload : Payloads]
    <2>1. /\ o = [op |-> "Msg", subject |-> o.subject, sid |-> o.sid, reply_to |-> o.reply_to, payload |-> o.payload]
          /\ o.subject \in Subjects /\ o.sid \in Numbers /\ o.reply_to \in Option(Subjects) /\ o.payload \in Payloads
      BY <1>2
    <2> QED
      BY <2>1
  <1>3. CASE o \in [op : {"Err"}, message : Texts]
    <2>1. o = [op |-> "Err", message |-> o.message] /\ o.message \in Texts
      BY <1>3
    <2> QED
      BY <2>1
  <1>4. CASE o \in [op : {"Ok", "Ping", "Pong"}]
    <2>1. o = [op |-> o.op] /\ o.op \in {"Ok", "Ping", "Pong"}
      BY <1>4
    <2> QED
      BY <2>1
  <1> QED
    BY <1>1, <1>2, <1>3, <1>4, ServerOperationsAssumption

\* An optional value is none or some.
LEMMA OptionForms ==
    /\ \A S : \A t \in Option(S) : t = None \/ \E v \in S : t = Some(v)
    /\ \A S : None \in Option(S)
    /\ \A v : Some(v) # None /\ Some(v)[1] = v
    /\ \A S, v : Some(v) \in Option(S) => v \in S
  <1>1. ASSUME NEW S, NEW t \in Option(S) PROVE t = None \/ \E v \in S : t = Some(v)
    <2>a. t \in Seq(S) /\ Len(t) <= 1
      BY DEF Option
    <2>1. t \in Seq(S) /\ (Len(t) = 0 \/ Len(t) = 1)
      <3> DEFINE n == Len(t)
      <3>1. n \in Nat /\ n <= 1
        BY <2>a
      <3> HIDE DEF n
      <3>2. n = 0 \/ n = 1
        BY <3>1
      <3> QED
        BY <2>a, <3>2 DEF n
    <2>2. Len(t) = 0 => t = <<>>
      BY <2>1
    <2>3. Len(t) = 1 => t[1] \in S /\ t = <<t[1]>>
      BY <2>1
    <2> QED
      BY <2>1, <2>2, <2>3 DEF None, Some
  <1>2. \A S : None \in Option(S)
    BY DEF None, Option
  <1>3. ASSUME NEW v PROVE Some(v) # None /\ Some(v)[1] = v
    <2>1. Len(<<v>>) = 1 /\ Len(<<>>) = 0 /\ <<v>>[1] = v
      OBVIOUS
    <2> QED
      BY <2>1 DEF None, Some
  <1>4. ASSUME NEW S, NEW v, Some(v) \in Option(S) PROVE v \in S
    BY <1>1, <1>3, <1>4
  <1> QED
    BY <1>1, <1>2, <1>3, <1>4

\* Their fields are bytes.
LEMMA Fields ==
    /\ \A t \in Texts : t \in Strings \ {<<>>} /\ \A k \in 1 .. Len(t) : t[k] \in TextSymbols
    /\ \A t \in Subjects : t \in Strings \ {<<>>} /\ \A k \in 1 .. Len(t) : t[k] \in TokenSymbols
    /\ \A t \in Strs : t \in Strings
    /\ \A n \in Numbers : n \in Nat /\ Number[n] \in Strings \ {<<>>} /\ Number[n][1] \in Digits
                          /\ \A k \in 1 .. Len(Number[n]) : Number[n][k] \in Digits
    /\ \A t \in Payloads : t \in Strings /\ Len(t) \in Numbers
  <1>1. ASSUME NEW t \in Texts PROVE t \in Strings \ {<<>>} /\ \A k \in 1 .. Len(t) : t[k] \in TextSymbols
    <2>1. t \in Seq(TextSymbols) /\ t # <<>> /\ TextSymbols \subseteq Symbols
      BY SymbolFacts DEF Texts
    <2> QED
      BY <2>1 DEF Strings
  <1>2. ASSUME NEW t \in Subjects PROVE t \in Strings \ {<<>>} /\ \A k \in 1 .. Len(t) : t[k] \in TokenSymbols
    <2>1. t \in Seq(TokenSymbols) /\ t # <<>> /\ TokenSymbols \subseteq Symbols
      BY SymbolFacts DEF Subjects
    <2> QED
      BY <2>1 DEF Strings
  <1>3. ASSUME NEW t \in Strs PROVE t \in Strings
    <2>1. t \in Seq(Utf8Symbols) /\ Utf8Symbols \subseteq Symbols
      BY SymbolFacts DEF Strs
    <2> QED
      BY <2>1 DEF Strings
  <1>4. ASSUME NEW n \in Numbers
        PROVE  n \in Nat /\ Number[n] \in Strings \ {<<>>} /\ Number[n][1] \in Digits
               /\ \A k \in 1 .. Len(Number[n]) : Number[n][k] \in Digits
    <2>1. n \in Nat
      BY NatsAssumption DEF Numbers
    <2> DEFINE t == Number[n]
    <2>2. t \in Seq(Digits) /\ t # <<>>
      BY <2>1, NumberFacts
    <2> HIDE DEF t
    <2>3. t \in Strings /\ Len(t) \in Nat /\ \A k \in 1 .. Len(t) : t[k] \in Digits
      BY <2>2, DigitStrings
    <2>4. t[1] \in Digits
      BY <2>2
    <2> QED
      BY <2>1, <2>2, <2>3, <2>4 DEF t
  <1>5. ASSUME NEW t \in Payloads PROVE t \in Strings /\ Len(t) \in Numbers
    BY DEF Payloads, Strings
  <1> QED
    BY <1>1, <1>2, <1>3, <1>4, <1>5

\* What sits in front of something else is found.
LEMMA RunFound ==
    ASSUME NEW s \in Strings, NEW i \in 1 .. Len(s) + 1, NEW t \in Strings \ {<<>>}, NEW C, Sits(s, i, t),
           \A k \in 1 .. Len(t) : t[k] \in C,
           NEW u \in Strings \ {<<>>}, Sits(s, i + Len(t), u), u[1] \notin C
    PROVE  TakeWhile1(s, i, C) = Parsed(i + Len(t), t) /\ i + Len(t) \in 1 .. Len(s) + 1
  <1>1. Len(s) \in Nat /\ Len(t) \in Nat /\ Len(u) \in Nat \ {0}
    BY DEF Strings
  <1>2. i + Len(t) <= Len(s) /\ s[i + Len(t)] = u[1]
    <2>1. 1 \in 1 .. Len(u) /\ (i + Len(t)) + 1 - 1 = i + Len(t)
      BY <1>1
    <2> QED
      BY <1>1, <2>1 DEF Sits
  <1> QED
    BY <1>1, <1>2, WhileFound

LEMMA NumberFound ==
    ASSUME NEW s \in Strings, NEW i \in 1 .. Len(s) + 1, NEW n \in Numbers, Sits(s, i, Number[n]),
           NEW u \in Strings \ {<<>>}, Sits(s, i + Len(Number[n]), u), u[1] \notin Digits
    PROVE  U64(s, i) = Parsed(i + Len(Number[n]), n) /\ i + Len(Number[n]) \in 1 .. Len(s) + 1
  <1>1. Number[n] \in Strings
    BY Fields
  <1>2. Len(s) \in Nat /\ Len(Number[n]) \in Nat /\ Len(u) \in Nat \ {0}
    BY <1>1 DEF Strings
  <1>3. i + Len(Number[n]) <= Len(s) /\ s[i + Len(Number[n])] = u[1]
    <2>1. 1 \in 1 .. Len(u) /\ (i + Len(Number[n])) + 1 - 1 = i + Len(Number[n])
      BY <1>2
    <2> QED
      BY <1>2, <2>1 DEF Sits
  <1> QED
    BY <1>2, <1>3, U64Found

LEMMA TagFound ==
    ASSUME NEW s \in Strings, NEW i \in 1 .. Len(s) + 1, NEW tag \in Strings, Sits(s, i, tag)
    PROVE  Tag(s, i, tag) = Parsed(i + Len(tag), tag) /\ i + Len(tag) \in 1 .. Len(s) + 1
  <1>1. Len(s) \in Nat /\ Len(tag) \in Nat
    BY DEF Strings
  <1> QED
    BY <1>1, TagResult DEF Sits

\* The other parsers fail at the first symbol, or at the second one.
LEMMA WrongTag ==
    ASSUME NEW s \in Strings, NEW tag \in Strings, NEW k \in 1 .. Len(tag), k <= Len(s), s[k] # tag[k]
    PROVE  Tag(s, 1, tag) = Failed
  <1>1. Len(s) \in Nat /\ Len(tag) \in Nat
    BY DEF Strings
  <1>2. 1 \in 1 .. Len(s) + 1 /\ 1 + k - 1 = k
    BY <1>1
  <1> QED
    BY <1>2, TagResult

LEMMA Others ==
    ASSUME NEW s \in Strings, Len(s) >= 2
    PROVE  /\ s[1] # "I" => ParseInfo(s) = Failed
           /\ s[1] # "M" => ParseMsg(s) = Failed
           /\ s[1] # "+" => ParseWord(s, OK, "Ok") = Failed
           /\ s[1] # "-" => ParseErr(s) = Failed
           /\ s[2] # "ING" => ParseWord(s, PING, "Ping") = Failed
           /\ s[1] # "P" => ParseWord(s, PING, "Ping") = Failed /\ ParseWord(s, PONG, "Pong") = Failed
  <1>1. Len(s) \in Nat
    BY DEF Strings
  <1>2. ASSUME s[1] # "I" PROVE ParseInfo(s) = Failed
    <2>1. 1 \in 1 .. Len(INFO) /\ 1 <= Len(s) /\ s[1] # INFO[1] /\ INFO \in Strings
      BY <1>1, <1>2, TagStrings
    <2>2. Tag(s, 1, INFO) = Failed
      BY <2>1, WrongTag
    <2> QED
      BY <2>2, Results DEF ParseInfo, Then
  <1>3. ASSUME s[1] # "M" PROVE ParseMsg(s) = Failed
    <2>1. 1 \in 1 .. Len(MSG) /\ 1 <= Len(s) /\ s[1] # MSG[1] /\ MSG \in Strings
      BY <1>1, <1>3, TagStrings
    <2>2. Tag(s, 1, MSG) = Failed
      BY <2>1, WrongTag
    <2> QED
      BY <2>2, Results DEF ParseMsg, Then
  <1>4. ASSUME s[1] # "+" PROVE ParseWord(s, OK, "Ok") = Failed
    <2>1. 1 \in 1 .. Len(OK) /\ 1 <= Len(s) /\ s[1] # OK[1] /\ OK \in Strings
      BY <1>1, <1>4, TagStrings
    <2>2. Tag(s, 1, OK) = Failed
      BY <2>1, WrongTag
    <2> QED
      BY <2>2, Results DEF ParseWord, Then
  <1>5. ASSUME s[1] # "-" PROVE ParseErr(s) = Failed
    <2>1. 1 \in 1 .. Len(ERR) /\ 1 <= Len(s) /\ s[1] # ERR[1] /\ ERR \in Strings
      BY <1>1, <1>5, TagStrings
    <2>2. Tag(s, 1, ERR) = Failed
      BY <2>1, WrongTag
    <2> QED
      BY <2>2, Results DEF ParseErr, Then
  <1>7. ASSUME s[1] # "P" PROVE ParseWord(s, PING, "Ping") = Failed /\ ParseWord(s, PONG, "Pong") = Failed
    <2>1. /\ 1 \in 1 .. Len(PING) /\ 1 \in 1 .. Len(PONG) /\ 1 <= Len(s)
          /\ s[1] # PING[1] /\ s[1] # PONG[1] /\ PING \in Strings /\ PONG \in Strings
      BY <1>1, <1>7, TagStrings
    <2>2. Tag(s, 1, PING) = Failed /\ Tag(s, 1, PONG) = Failed
      BY <2>1, WrongTag
    <2> QED
      BY <2>2, Results DEF ParseWord, Then
  <1>6. ASSUME s[2] # "ING" PROVE ParseWord(s, PING, "Ping") = Failed
    <2>1. 2 \in 1 .. Len(PING) /\ 2 <= Len(s) /\ s[2] # PING[2] /\ PING \in Strings
      BY <1>1, <1>6, TagStrings
    <2>2. Tag(s, 1, PING) = Failed
      BY <2>1, WrongTag
    <2> QED
      BY <2>2, Results DEF ParseWord, Then
  <1> QED
    BY <1>2, <1>3, <1>4, <1>5, <1>6, <1>7

\* What the parser of its tag refuses is refused.
LEMMA Refused ==
    ASSUME NEW s \in Strings, Len(s) >= 2,
           \/ s[1] = "I" /\ ParseInfo(s) = Failed
           \/ s[1] = "M" /\ ParseMsg(s) = Failed
           \/ s[1] = "-" /\ ParseErr(s) = Failed
    PROVE  Decode(s) = Failed
  <1>1. /\ ParseInfo(s) = Failed /\ ParseMsg(s) = Failed /\ ParseWord(s, OK, "Ok") = Failed
        /\ ParseErr(s) = Failed /\ ParseWord(s, PING, "Ping") = Failed /\ ParseWord(s, PONG, "Pong") = Failed
    BY Others
  <1>2. Operation(s) = Failed
    BY <1>1, FirstThatFits
  <1> QED
    BY <1>2, Results DEF Decode, Then, Operation

LEMMA SpaceString == Space \in Strings \ {<<>>}
  <1>1. Space \in Strings /\ Len(Space) = 1
    BY TagStrings
  <1>2. Space # <<>>
    BY <1>1
  <1> QED
    BY <1>1, <1>2

LEMMA BlankFound ==
    ASSUME NEW s \in Strings, NEW i \in 1 .. Len(s) + 1, Sits(s, i, Space),
           NEW u \in Strings \ {<<>>}, Sits(s, i + 1, u), u[1] \notin Blanks
    PROVE  ParseWhitespace(s, i) = Parsed(i + 1, Space) /\ i + 1 \in 1 .. Len(s) + 1
  <1>1. Space \in Strings \ {<<>>} /\ Len(Space) = 1 /\ \A k \in 1 .. Len(Space) : Space[k] \in Blanks
    <2>1. Space \in Strings /\ Len(Space) = 1 /\ Space[1] \in Blanks
      BY TagStrings
    <2>2. Space # <<>>
      BY <2>1
    <2> QED
      BY <2>1, <2>2
  <1>2. Sits(s, i + Len(Space), u)
    BY <1>1
  <1>3. TakeWhile1(s, i, Blanks) = Parsed(i + Len(Space), Space) /\ i + Len(Space) \in 1 .. Len(s) + 1
    BY <1>1, <1>2, RunFound
  <1> QED
    BY <1>1, <1>3, Whitespace

LEMMA SubjectFound ==
    ASSUME NEW s \in Strings, NEW i \in 1 .. Len(s) + 1, NEW t \in Subjects, t \in Seq({"x"}), Sits(s, i, t),
           Sits(s, i + Len(t), Space)
    PROVE  ParseSubject(s, i) = Parsed(i + Len(t), t) /\ i + Len(t) \in 1 .. Len(s) + 1
  <1>1. Space \in Strings \ {<<>>} /\ Space[1] \notin {"x"}
    BY SpaceString, TagStrings, SymbolFacts
  <1>2. t \in Strings \ {<<>>} /\ \A k \in 1 .. Len(t) : t[k] \in {"x"}
    BY Fields
  <1> QED
    BY <1>1, <1>2, RunFound DEF ParseSubject

\* Where a run ends that cannot go beyond position l.
LEMMA StopWithin ==
    ASSUME NEW s \in Strings, NEW i \in 1 .. Len(s), NEW C, NEW l \in i .. Len(s), s[l] \notin C
    PROVE  Stop(s, i, C) \in i .. l /\ s[Stop(s, i, C)] \notin C
  <1>1. Len(s) \in Nat /\ i \in 1 .. Len(s) + 1
    BY DEF Strings
  <1>2. Ends(s, i, C, Stop(s, i, C))
    BY <1>1, StopFacts
  <1>3. Stop(s, i, C) <= l
    <2>1. SUFFICES ASSUME Stop(s, i, C) > l PROVE FALSE
      BY <1>1, <1>2 DEF Ends
    <2>2. l \in i .. Stop(s, i, C) - 1
      BY <1>1, <1>2, <2>1 DEF Ends
    <2> QED
      BY <1>2, <2>2 DEF Ends
  <1> QED
    BY <1>1, <1>2, <1>3 DEF Ends

\* A token that has another symbol than a letter stops the parser of subjects,
\* and is not followed by whitespace there.
LEMMA SubjectRefused ==
    ASSUME NEW s \in Strings, NEW i \in 1 .. Len(s) + 1, NEW t \in Subjects, t \notin Seq({"x"}), Sits(s, i, t)
    PROVE  \/ ParseSubject(s, i) = Failed
           \/ /\ ParseSubject(s, i).status = "ok"
              /\ ParseWhitespace(s, ParseSubject(s, i).at) = Failed
  <1>1. t \in Strings /\ Len(t) \in Nat /\ Len(s) \in Nat /\ \A k \in 1 .. Len(t) : t[k] \in TokenSymbols
    BY Fields DEF Strings
  <1>2. PICK k \in 1 .. Len(t) : t[k] # "x"
    <2>1. SUFFICES ASSUME \A k \in 1 .. Len(t) : t[k] = "x" PROVE FALSE
      OBVIOUS
    <2>2. t \in Seq(Symbols)
      BY <1>1 DEF Strings
    <2>3. t \in Seq({"x"})
      BY <2>1, <2>2
    <2> QED
      BY <2>3
  <1> DEFINE stop == Stop(s, i, {"x"})
             l == i + k - 1
  <1>3. i \in 1 .. Len(s) /\ l \in i .. Len(s) /\ s[l] \notin {"x"}
    BY <1>1, <1>2 DEF Sits
  <1>4. stop \in i .. l /\ s[stop] # "x"
    BY <1>3, StopWithin
  <1>5. TakeWhile1(s, i, {"x"}) = CASE stop > Len(s)                 -> Incomplete
                                    [] stop <= Len(s) /\ stop = i    -> Failed
                                    [] stop <= Len(s) /\ stop # i    -> Parsed(stop, SubSeq(s, i, stop - 1))
    BY DEF TakeWhile1
  <1> HIDE DEF stop
  <1>6. stop \in 1 .. Len(s) /\ s[stop] \notin Blanks
    <2> DEFINE h == stop - i + 1
    <2>1. h \in 1 .. Len(t) /\ i + h - 1 = stop
      BY <1>1, <1>2, <1>3, <1>4
    <2>2. s[stop] = t[h]
      BY <2>1 DEF Sits
    <2> HIDE DEF h
    <2>3. t[h] \in TokenSymbols
      BY <1>1, <2>1
    <2> QED
      BY <1>1, <1>3, <1>4, <2>2, <2>3, SymbolFacts
  <1>7. CASE stop = i
    BY <1>1, <1>5, <1>6, <1>7 DEF ParseSubject
  <1>8. CASE stop # i
    <2>1. ParseSubject(s, i) = Parsed(stop, SubSeq(s, i, stop - 1))
      BY <1>1, <1>5, <1>6, <1>8 DEF ParseSubject
    <2>2. ParseSubject(s, i).status = "ok" /\ ParseSubject(s, i).at = stop
      BY <2>1, Results
    <2>3. TakeWhile1(s, stop, Blanks) = Failed
      BY <1>6, WhileMissed
    <2> QED
      BY <2>2, <2>3, Whitespace
  <1> QED
    BY <1>7, <1>8

\* A token with a space behind it is not a size with a newline behind it.
LEMMA PayloadRefused ==
    ASSUME NEW s \in Strings, NEW i \in 1 .. Len(s) + 1, NEW t \in Subjects, Sits(s, i, t),
           Sits(s, i + Len(t), Space)
    PROVE  ParsePayload(s, i) = Failed
  <1>1. /\ t \in Strings /\ Len(t) \in Nat /\ Len(s) \in Nat /\ \A k \in 1 .. Len(t) : t[k] \in TokenSymbols
        /\ Len(Space) = 1 /\ Space[1] \in Blanks
    BY Fields, TagStrings DEF Strings
  <1> DEFINE l == i + Len(t)
             stop == Stop(s, i, Digits)
             value == Value(SubSeq(s, i, stop - 1))
  <1>2. i \in 1 .. Len(s) /\ l \in i .. Len(s) /\ s[l] \in Blanks
    <2>1. 1 \in 1 .. Len(Space) /\ l + 1 - 1 = l
      BY <1>1
    <2>2. s[l] = Space[1] /\ l <= Len(s)
      BY <1>1, <2>1 DEF Sits
    <2> QED
      BY <1>1, <2>2
  <1>3. stop \in i .. l
    BY <1>2, SymbolFacts, StopWithin
  <1>4. s[stop] # "CR"
    <2>1. CASE stop = l
      BY <1>2, <2>1, SymbolFacts
    <2>2. CASE stop # l
      <3> DEFINE h == stop - i + 1
      <3> HIDE DEF stop
      <3>1. h \in 1 .. Len(t) /\ i + h - 1 = stop
        BY <1>1, <1>2, <1>3, <2>2
      <3>2. s[stop] = t[h]
        BY <3>1 DEF Sits
      <3> HIDE DEF h
      <3> QED
        BY <1>1, <3>1, <3>2, SymbolFacts
    <2> QED
      BY <2>1, <2>2
  <1>5. /\ value \in Nat
        /\ stop <= Len(s) /\ stop = i => U64(s, i) = Failed
        /\ stop > i /\ value > MaxU64 => U64(s, i) = Failed
        /\ stop <= Len(s) /\ stop > i /\ value <= MaxU64 => U64(s, i) = Parsed(stop, value)
    BY U64Cases
  <1> HIDE DEF stop, value, l
  <1>6. MaxU64 \in Nat /\ stop <= Len(s) /\ stop \in 1 .. Len(s) + 1
    BY <1>1, <1>2, <1>3, NatsAssumption
  <1>7. U64(s, i) = Failed \/ U64(s, i) = Parsed(stop, value)
    BY <1>2, <1>3, <1>5, <1>6
  <1>8. ParseNewline(s, stop) = Failed
    <2>1. Newline \in Strings /\ Len(Newline) = 2 /\ Newline[1] = "CR"
      BY TagStrings
    <2>2. 1 \in 1 .. Len(Newline) /\ stop + 1 - 1 = stop
      BY <1>6, <2>1
    <2>3. \E k \in 1 .. Len(Newline) : stop + k - 1 <= Len(s) /\ s[stop + k - 1] # Newline[k]
      BY <1>4, <1>6, <2>1, <2>2
    <2> QED
      BY <1>6, <2>1, <2>3, TagResult DEF ParseNewline
  <1> QED
    BY <1>7, <1>8, Results DEF ParsePayload, Then

\* A line of text is found if it is UTF-8, and refused if it is not.
LEMMA TextFound ==
    ASSUME NEW s \in Strings, NEW i \in 1 .. Len(s) + 1, NEW t \in Texts, Sits(s, i, t),
           Sits(s, i + Len(t), Newline)
    PROVE  /\ ParseText(s, i) = IF t \in Strs THEN Parsed(i + Len(t), t) ELSE Failed
           /\ i + Len(t) \in 1 .. Len(s) + 1
  <1>1. Newline \in Strings \ {<<>>} /\ Newline[1] \notin TextSymbols
    BY TagStrings, SymbolFacts
  <1>2. t \in Strings \ {<<>>} /\ \A k \in 1 .. Len(t) : t[k] \in TextSymbols
    BY Fields
  <1>3. TakeWhile1(s, i, TextSymbols) = Parsed(i + Len(t), t) /\ i + Len(t) \in 1 .. Len(s) + 1
    BY <1>1, <1>2, RunFound
  <1> QED
    BY <1>3, Results DEF ParseText, FromUtf8, Then

LEMMA NewlineFound ==
    ASSUME NEW s \in Strings, NEW i \in 1 .. Len(s) + 1, Sits(s, i, Newline)
    PROVE  ParseNewline(s, i) = Parsed(i + 2, Newline) /\ i + 2 \in 1 .. Len(s) + 1
  <1>1. Newline \in Strings /\ Len(Newline) = 2
    BY TagStrings
  <1> QED
    BY <1>1, TagFound DEF ParseNewline

\* A payload behind its size.
LEMMA SizedIsString ==
    ASSUME NEW payload \in Payloads
    PROVE  Sized(payload) \in Strings \ {<<>>} /\ Sized(payload)[1] \in Digits
  <1> DEFINE z == Sized(payload)
             w == Number[Len(payload)]
             b == w \o Newline
  <1>1. payload \in Strings /\ Len(payload) \in Numbers /\ Newline \in Strings /\ Len(Newline) = 2
    BY Fields, TagStrings
  <1>2. w \in Strings \ {<<>>} /\ w[1] \in Digits
    BY <1>1, Fields
  <1>3. z = b \o payload
    BY DEF Sized
  <1> HIDE DEF w, z
  <1>4. Len(w) \in Nat \ {0} /\ Len(payload) \in Nat
    BY <1>1, <1>2 DEF Strings
  <1>5. b \in Strings /\ Len(b) = Len(w) + Len(Newline) /\ \A k \in 1 .. Len(w) : b[k] = w[k]
    BY <1>1, <1>2, Joined
  <1> HIDE DEF b
  <1>6. z \in Strings /\ Len(z) = Len(b) + Len(payload) /\ \A k \in 1 .. Len(b) : z[k] = b[k]
    BY <1>1, <1>3, <1>5, Joined
  <1>7. 1 \in 1 .. Len(w) /\ 1 \in 1 .. Len(b) /\ Len(z) # 0
    BY <1>1, <1>4, <1>5, <1>6
  <1>8. z # <<>>
    BY <1>7
  <1> QED
    BY <1>2, <1>5, <1>6, <1>7, <1>8 DEF z

LEMMA PayloadFound ==
    ASSUME NEW s \in Strings, NEW i \in 1 .. Len(s) + 1, NEW t \in Payloads, Sits(s, i, Sized(t))
    PROVE  /\ ParsePayload(s, i) = Parsed(i + Len(Sized(t)), t)
           /\ i + Len(Sized(t)) \in 1 .. Len(s) + 1
  <1> DEFINE n == Number[Len(t)]
             a == n \o Newline
  <1>1. /\ t \in Strings /\ Len(t) \in Numbers /\ n \in Strings \ {<<>>} /\ n[1] \in Digits
        /\ Len(s) \in Nat /\ Len(t) \in Nat
    BY Fields DEF Strings
  <1>2. Len(n) \in Nat \ {0}
    <2> HIDE DEF n
    <2> QED
      BY <1>1 DEF Strings
  <1>3. Newline \in Strings \ {<<>>} /\ Len(Newline) = 2 /\ Newline[1] \notin Digits
    BY TagStrings, SymbolFacts
  <1>4. /\ a \in Strings /\ Len(a) = Len(n) + 2 /\ a[1] = n[1]
        /\ a \o t \in Strings /\ Len(a \o t) = Len(n) + 2 + Len(t) /\ (a \o t)[1] = n[1]
    <2> HIDE DEF n
    <2>1. /\ a \in Strings /\ Len(a) = Len(n) + Len(Newline) /\ \A k \in 1 .. Len(n) : a[k] = n[k]
      BY <1>1, <1>3, Joined
    <2> HIDE DEF a
    <2>2. /\ a \o t \in Strings /\ Len(a \o t) = Len(a) + Len(t) /\ \A k \in 1 .. Len(a) : (a \o t)[k] = a[k]
      BY <1>1, <2>1, Joined
    <2>3. 1 \in 1 .. Len(n) /\ 1 \in 1 .. Len(a)
      BY <1>2, <1>3, <2>1
    <2> QED
      BY <1>1, <1>2, <1>3, <2>1, <2>2, <2>3
  <1>5. Sized(t) = a \o t
    BY DEF Sized
  <1> HIDE DEF a
  <1>6. Sits(s, i, a) /\ Sits(s, i + Len(a), t)
    <2>1. i \in Nat \ {0} /\ a \in Strings /\ t \in Strings /\ Sits(s, i, a \o t)
      BY <1>1, <1>4, <1>5
    <2> QED
      BY <2>1, SitsParts
  <1>7. Sits(s, i, n) /\ Sits(s, i + Len(n), Newline)
    <2> HIDE DEF n
    <2> QED
      BY <1>1, <1>3, <1>6, SitsParts DEF a
  <1>8. U64(s, i) = Parsed(i + Len(n), Len(t)) /\ i + Len(n) \in 1 .. Len(s) + 1
    BY <1>1, <1>3, <1>7, NumberFound
  <1> DEFINE A == U64(s, i)
             B == ParseNewline(s, A.at)
             C == Take(s, B.at, A.value)
  <1>9. ParsePayload(s, i) = IF A.status = "ok" THEN IF B.status = "ok" THEN C ELSE B ELSE A
    BY DEF ParsePayload, Then
  <1> HIDE DEF n
  <1>10. A.status = "ok" /\ A.at = i + Len(n) /\ A.value = Len(t)
    BY <1>8, Results
  <1> HIDE DEF A
  <1>11. B = Parsed((i + Len(n)) + 2, Newline) /\ (i + Len(n)) + 2 \in 1 .. Len(s) + 1
    BY <1>7, <1>8, <1>10, NewlineFound
  <1> HIDE DEF B
  <1>12. B.status = "ok" /\ B.at = i + Len(a)
    <2>1. (i + Len(n)) + 2 = i + Len(a)
      BY <1>2, <1>4
    <2> QED
      BY <1>11, <2>1, Results
  <1>13. i + Len(a) \in 1 .. Len(s) + 1
    BY <1>2, <1>4, <1>11
  <1>14. C = Parsed((i + Len(a)) + Len(t), t)
    BY <1>1, <1>6, <1>10, <1>12, <1>13, TakeFound
  <1>15. (i + Len(a)) + Len(t) = i + Len(Sized(t)) /\ i + Len(Sized(t)) \in 1 .. Len(s) + 1
    <2>1. (i + Len(a)) + Len(t) = i + Len(Sized(t))
      <3>1. Len(Sized(t)) = Len(n) + 2 + Len(t)
        BY <1>4, <1>5
      <3>2. Len(a) = Len(n) + 2
        BY <1>4
      <3> QED
        BY <1>1, <1>2, <3>1, <3>2
    <2>2. i + Len(Sized(t)) <= Len(s) + 1 /\ Len(Sized(t)) \in Nat
      BY <1>1, <1>2, <1>4, <1>5 DEF Sits
    <2> QED
      BY <1>1, <2>1, <2>2
  <1>16. ParsePayload(s, i) = C
    BY <1>9, <1>10, <1>12
  <1> QED
    BY <1>14, <1>15, <1>16

\* An optional subject is bytes, and begins with a token if there is one.
LEMMA OptionalIsString ==
    ASSUME NEW t \in Option(Strs) \cup Option(Subjects)
    PROVE  /\ Optional(t) \in Strings
           /\ t = None => Optional(t) = <<>>
           /\ t # None => t[1] \in Strings /\ Optional(t) = t[1] \o Space
  <1>1. Space \in Strings /\ <<>> \in Strings
    BY TagStrings DEF Strings
  <1>2. t # None => t[1] \in Strings
    BY OptionForms, Fields
  <1>3. t # None => t[1] \o Space \in Strings
    BY <1>1, <1>2, Joined
  <1> QED
    BY <1>1, <1>2, <1>3 DEF Optional

\* The subject to reply to, or none: the size behind it does not begin with a letter.
LEMMA ReplyFound ==
    ASSUME NEW s \in Strings, NEW i \in 1 .. Len(s) + 1, NEW t \in Option(Subjects), t \in Option(Seq({"x"})),
           Sits(s, i, Optional(t)),
           NEW u \in Strings \ {<<>>}, Sits(s, i + Len(Optional(t)), u), u[1] \in Digits
    PROVE  Opt(ParseReplyTo(s, i), i) = Parsed(i + Len(Optional(t)), t)
  <1>1. Len(s) \in Nat /\ Len(u) \in Nat \ {0} /\ u[1] \notin Blanks /\ u[1] \notin {"x"}
    BY SymbolFacts DEF Strings
  <1> DEFINE A == ParseSubject(s, i)
             B == ParseWhitespace(s, A.at)
             R == ParseReplyTo(s, i)
  <1>2. R = IF A.status = "ok" THEN IF B.status = "ok" THEN Parsed(B.at, A.value) ELSE B ELSE A
    BY DEF ParseReplyTo, Then
  <1>3. Opt(R, i) = IF R = Failed THEN Parsed(i, None)
                    ELSE IF R.status = "ok" THEN Parsed(R.at, Some(R.value)) ELSE R
    BY DEF Opt, Then
  <1> HIDE DEF R
  <1>4. CASE t = None
    <2>1. Optional(t) = <<>> /\ Len(Optional(t)) = 0
      BY <1>4, OptionalIsString
    <2>2. Sits(s, i, u)
      BY <2>1
    <2>3. i \in 1 .. Len(s) /\ s[i] = u[1]
      <3>1. 1 \in 1 .. Len(u) /\ i + 1 - 1 = i
        BY <1>1
      <3> QED
        BY <1>1, <2>2, <3>1 DEF Sits
    <2>4. A = Failed
      BY <1>1, <2>3, WhileMissed DEF ParseSubject
    <2> HIDE DEF A
    <2>5. R = Failed
      BY <1>2, <2>4, Results
    <2> QED
      BY <1>3, <1>4, <2>1, <2>5 DEF R
  <1>5. CASE t # None
    <2>1. PICK v \in Subjects : t = Some(v)
      BY <1>5, OptionForms
    <2>2. /\ v \in Seq({"x"}) /\ Optional(t) = v \o Space /\ v \in Strings /\ Len(v) \in Nat
          /\ Space \in Strings /\ Len(Space) = 1
      <3>1. v \in Seq({"x"}) /\ t[1] = v
        BY <2>1, OptionForms
      <3>2. Optional(t) = t[1] \o Space
        BY <1>5, OptionalIsString
      <3>3. v \in Strings /\ Len(v) \in Nat
        BY Fields DEF Strings
      <3> QED
        BY <3>1, <3>2, <3>3, TagStrings
    <2>3. Len(Optional(t)) = Len(v) + 1
      <3>1. Len(v \o Space) = Len(v) + Len(Space)
        BY <2>2, Joined
      <3> QED
        BY <2>2, <3>1
    <2>4. Sits(s, i, v) /\ Sits(s, i + Len(v), Space)
      BY <2>2, SitsParts
    <2>5. A = Parsed(i + Len(v), v) /\ i + Len(v) \in 1 .. Len(s) + 1
      BY <2>2, <2>4, SubjectFound
    <2> HIDE DEF A
    <2>6. A.status = "ok" /\ A.at = i + Len(v) /\ A.value = v
      BY <2>5, Results
    <2>7. (i + Len(v)) + 1 = i + Len(Optional(t))
      BY <2>2, <2>3
    <2>8. B = Parsed((i + Len(v)) + 1, Space)
      BY <1>1, <2>4, <2>5, <2>6, <2>7, BlankFound
    <2> HIDE DEF B
    <2>9. B.status = "ok" /\ B.at = i + Len(Optional(t))
      BY <2>7, <2>8, Results
    <2>10. R = Parsed(i + Len(Optional(t)), v)
      BY <1>2, <2>6, <2>9
    <2>11. Opt(R, i) = Parsed(i + Len(Optional(t)), Some(v))
      BY <1>3, <2>10, Results
    <2> QED
      BY <2>1, <2>11 DEF R
  <1> QED
    BY <1>4, <1>5

\* A subject to reply to that the parser does not know is taken for none, and
\* then for the size of the payload, which fails.
LEMMA ReplyRefused ==
    ASSUME NEW s \in Strings, NEW i \in 1 .. Len(s) + 1, NEW t \in Option(Subjects), t \notin Option(Seq({"x"})),
           Sits(s, i, Optional(t))
    PROVE  Opt(ParseReplyTo(s, i), i) = Parsed(i, None) /\ ParsePayload(s, i) = Failed
  <1>1. PICK v \in Subjects : t = Some(v)
    BY OptionForms
  <1>2. v \notin Seq({"x"})
    <2>1. SUFFICES ASSUME v \in Seq({"x"}) PROVE t \in Option(Seq({"x"}))
      OBVIOUS
    <2>2. \A S : v \in S => <<v>> \in Seq(S) /\ Len(<<v>>) = 1
      OBVIOUS
    <2> QED
      BY <1>1, <2>1, <2>2 DEF Option, Some
  <1>3. Optional(t) = v \o Space /\ v \in Strings /\ Space \in Strings
    <2>1. t # None /\ t[1] = v
      BY <1>1, OptionForms
    <2>2. Optional(t) = t[1] \o Space
      BY <2>1, OptionalIsString
    <2> QED
      BY <2>1, <2>2, Fields, TagStrings
  <1>4. Sits(s, i, v) /\ Sits(s, i + Len(v), Space)
    BY <1>3, SitsParts
  <1> DEFINE A == ParseSubject(s, i)
             B == ParseWhitespace(s, A.at)
  <1>5. ParseReplyTo(s, i) = IF A.status = "ok" THEN IF B.status = "ok" THEN Parsed(B.at, A.value) ELSE B ELSE A
    BY DEF ParseReplyTo, Then
  <1>6. A = Failed \/ (A.status = "ok" /\ B = Failed)
    BY <1>2, <1>4, SubjectRefused
  <1> HIDE DEF A, B
  <1>7. ParseReplyTo(s, i) = Failed
    BY <1>5, <1>6, Results
  <1>8. ParsePayload(s, i) = Failed
    BY <1>4, PayloadRefused
  <1> QED
    BY <1>7, <1>8 DEF Opt

\* An operation and the newline behind it.
LEMMA LineFound ==
    ASSUME NEW s \in Strings, NEW j \in 1 .. Len(s) + 1, NEW o,
           Operation(s) = Parsed(j, o), Sits(s, j, Newline)
    PROVE  Decode(s) = Parsed(j + 2, o)
  <1> DEFINE A == Operation(s)
             B == ParseNewline(s, A.at)
  <1>1. Decode(s) = IF A.status = "ok" THEN IF B.status = "ok" THEN Parsed(B.at, A.value) ELSE B ELSE A
    BY DEF Decode, Then, Operation
  <1>2. A = Parsed(j, o)
    OBVIOUS
  <1> HIDE DEF A
  <1>3. A.status = "ok" /\ A.at = j /\ A.value = o
    BY <1>2, Results
  <1>4. B = Parsed(j + 2, Newline)
    BY <1>3, NewlineFound
  <1> HIDE DEF B
  <1>5. B.status = "ok" /\ B.at = j + 2
    BY <1>4, Results
  <1> QED
    BY <1>1, <1>3, <1>5

LEMMA DecodeInfo ==
    ASSUME NEW s \in Strings, NEW json \in Texts, json[1] \notin Blanks,
           Sits(s, 1, ((INFO \o Space) \o json) \o Newline)
    PROVE  Decode(s) = IF json \in Strs THEN Parsed(6 + Len(json), [op |-> "Info", json |-> json]) ELSE Failed
  <1>1. /\ Len(s) \in Nat /\ json \in Strings \ {<<>>} /\ Len(json) \in Nat \ {0}
        /\ (\A k \in 1 .. Len(json) : json[k] \in TextSymbols) /\ Newline[1] \notin TextSymbols
    BY Fields, TagStrings DEF Strings, TextSymbols
  <1> DEFINE a == INFO \o Space
             b == a \o json
  <1>a. /\ INFO \in Strings /\ Len(INFO) = 2 /\ Space \in Strings /\ Len(Space) = 1 /\ Space[1] \in Blanks
        /\ Newline \in Strings /\ Len(Newline) = 2
    BY TagStrings
  <1>2. a \in Strings /\ Len(a) = 3 /\ b \in Strings /\ Len(b) = 3 + Len(json)
    <2>1. a \in Strings /\ Len(a) = Len(INFO) + Len(Space)
      BY <1>a, Joined
    <2> HIDE DEF a
    <2>2. b \in Strings /\ Len(b) = Len(a) + Len(json)
      BY <1>1, <2>1, Joined
    <2> QED
      BY <1>1, <1>a, <2>1, <2>2
  <1>3. Sits(s, 1, b) /\ Sits(s, 4 + Len(json), Newline)
    <2>1. 1 + Len(b) = 4 + Len(json) /\ 1 \in Nat \ {0}
      BY <1>1, <1>2
    <2>2. Sits(s, 1, b \o Newline)
      OBVIOUS
    <2> HIDE DEF b
    <2>3. Sits(s, 1, b) /\ Sits(s, 1 + Len(b), Newline)
      BY <1>a, <1>2, <2>1, <2>2, SitsParts
    <2> QED
      BY <2>1, <2>3
  <1>4. Sits(s, 1, a) /\ Sits(s, 4, json)
    <2>1. 1 + Len(a) = 4 /\ 1 \in Nat \ {0}
      BY <1>2
    <2> HIDE DEF a
    <2>2. Sits(s, 1, a) /\ Sits(s, 1 + Len(a), json)
      BY <1>1, <1>2, <1>3, <2>1, SitsParts
    <2> QED
      BY <2>1, <2>2
  <1>5. Sits(s, 1, INFO) /\ Sits(s, 3, Space)
    <2>1. 1 + Len(INFO) = 3 /\ 1 \in Nat \ {0}
      BY <1>a
    <2>2. Sits(s, 1, INFO) /\ Sits(s, 1 + Len(INFO), Space)
      BY <1>a, <1>4, <2>1, SitsParts
    <2> QED
      BY <2>1, <2>2
  <1> HIDE DEF a, b
  <1>6. /\ 1 \in 1 .. Len(s) + 1 /\ 3 \in 1 .. Len(s) + 1 /\ 4 \in 1 .. Len(s) + 1
        /\ 4 + Len(json) \in 1 .. Len(s) + 1 /\ Len(s) >= 2 /\ s[1] = "I"
    <2>1. Len(s) >= 4 + Len(json) + 1
      BY <1>1, <1>3, TagStrings DEF Sits
    <2>2. s[1] = "I"
      BY <1>5, TagStrings DEF Sits
    <2> QED
      BY <1>1, <2>1, <2>2
  <1> DEFINE A == Tag(s, 1, INFO)
             B == ParseWhitespace(s, A.at)
             C == ParseText(s, B.at)
             o == [op |-> "Info", json |-> json]
  <1>7. ParseInfo(s) = IF A.status = "ok" THEN IF B.status = "ok" THEN IF C.status = "ok"
                           THEN Parsed(C.at, [op |-> "Info", json |-> C.value]) ELSE C ELSE B ELSE A
    BY DEF ParseInfo, Then
  <1>8. A = Parsed(3, INFO)
    <2>1. A = Parsed(1 + Len(INFO), INFO)
      BY <1>a, <1>5, <1>6, TagFound
    <2> QED
      BY <1>a, <2>1
  <1> HIDE DEF A
  <1>9. B = Parsed(4, Space)
    <2>1. A.at = 3
      BY <1>8, Results
    <2> QED
      BY <1>1, <1>4, <1>5, <1>6, <2>1, BlankFound
  <1> HIDE DEF B
  <1>10. C = IF json \in Strs THEN Parsed(4 + Len(json), json) ELSE Failed
    <2>1. B.at = 4
      BY <1>9, Results
    <2> QED
      BY <1>3, <1>4, <1>6, <2>1, TextFound
  <1> HIDE DEF C
  <1>11. ParseInfo(s) = IF json \in Strs THEN Parsed(4 + Len(json), o) ELSE Failed
    BY <1>7, <1>8, <1>9, <1>10, Results
  <1> HIDE DEF o
  <1>12. CASE json \in Strs
    <2>1. ParseInfo(s) = Parsed(4 + Len(json), o) /\ ParseInfo(s) # Failed
      BY <1>11, <1>12, Results
    <2>2. Operation(s) = Parsed(4 + Len(json), o)
      BY <2>1, FirstThatFits
    <2>3. Decode(s) = Parsed((4 + Len(json)) + 2, o)
      BY <1>3, <1>6, <2>2, LineFound
    <2> QED
      BY <1>1, <1>12, <2>3 DEF o
  <1>13. CASE json \notin Strs
    BY <1>6, <1>11, <1>13, Refused
  <1> QED
    BY <1>12, <1>13

LEMMA PartsBehind ==
    ASSUME NEW s \in Strings, NEW a \in Strings, NEW b \in Strings, Sits(s, 1, a \o b)
    PROVE  Sits(s, 1, a) /\ Sits(s, 1 + Len(a), b)
  BY SitsParts

\* A message without its newline.
MsgBody(subject, sid, reply, payload) ==
    ((((((MSG \o Space) \o subject) \o Space) \o Number[sid]) \o Space) \o Optional(reply)) \o Sized(payload)

\* The subject of a message in s is at i and followed by a space at j, its sid is
\* between k and l, the reply at m, the payload between n and e.
MsgPlaces(s, subject, sid, reply, payload, i, j, k, l, m, n, e) ==
    /\ ParseWhitespace(s, 3) = Parsed(i, Space)
    /\ Sits(s, i, subject) /\ j = i + Len(subject) /\ Sits(s, j, Space)
    /\ ParseWhitespace(s, j) = Parsed(k, Space)
    /\ U64(s, k) = Parsed(l, sid)
    /\ ParseWhitespace(s, l) = Parsed(m, Space)
    /\ Sits(s, m, Optional(reply)) /\ n = m + Len(Optional(reply)) /\ Sits(s, n, Sized(payload))
    /\ ParsePayload(s, n) = Parsed(e, payload)
    /\ e = 1 + Len(MsgBody(subject, sid, reply, payload)) /\ Sits(s, e, Newline)

\* Where the parts of a message are found, but for the subjects in it: whatever
\* they are, the parsers around them find their part.
LEMMA MsgParts ==
    ASSUME NEW s \in Strings, NEW subject \in Subjects, NEW sid \in Numbers, NEW reply \in Option(Subjects),
           NEW payload \in Payloads, MsgBody(subject, sid, reply, payload) \in Strings,
           Sits(s, 1, MsgBody(subject, sid, reply, payload) \o Newline)
    PROVE  /\ Len(s) >= 2 /\ s[1] = "M" /\ Tag(s, 1, MSG) = Parsed(3, MSG)
           /\ \E i, j, k, l, m, n, e \in 1 .. Len(s) + 1 :
                 MsgPlaces(s, subject, sid, reply, payload, i, j, k, l, m, n, e)
  <1> DEFINE m == MsgBody(subject, sid, reply, payload)
             n == Number[sid]
             r == Optional(reply)
             z == Sized(payload)
             a1 == MSG \o Space
             a2 == a1 \o subject
             a3 == a2 \o Space
             a4 == a3 \o n
             a5 == a4 \o Space
             a6 == a5 \o r
  <1>1. m = a6 \o z /\ m \in Strings /\ Sits(s, 1, m \o Newline)
    BY DEF MsgBody
  <1> HIDE DEF m, n, r, z, a1, a2, a3, a4, a5, a6
  <1>2. /\ MSG \in Strings /\ Len(MSG) = 2 /\ MSG[1] = "M"
        /\ Space \in Strings /\ Len(Space) = 1 /\ Space[1] \in Blanks
        /\ Newline \in Strings /\ Len(Newline) = 2
    BY TagStrings
  <1>3. Space \in Strings \ {<<>>}
    BY SpaceString
  <1>4. /\ subject \in Strings \ {<<>>} /\ subject[1] \notin Blanks
        /\ n \in Strings \ {<<>>} /\ n[1] \in Digits /\ n[1] \notin Blanks
        /\ r \in Strings
    <2>1. subject \in Strings \ {<<>>} /\ subject[1] \in TokenSymbols
      <3>1. subject \in Strings \ {<<>>} /\ \A k \in 1 .. Len(subject) : subject[k] \in TokenSymbols
        BY Fields
      <3>2. 1 \in 1 .. Len(subject)
        BY <3>1 DEF Strings
      <3> QED
        BY <3>1, <3>2
    <2>2. n \in Strings \ {<<>>} /\ n[1] \in Digits
      BY Fields DEF n
    <2>3. r \in Strings
      BY OptionalIsString DEF r
    <2> QED
      BY <2>1, <2>2, <2>3, SymbolFacts
  <1>5. z \in Strings \ {<<>>} /\ z[1] \in Digits /\ z[1] \notin Blanks
    BY SizedIsString, SymbolFacts DEF z
  <1>6. a1 \in Strings /\ Len(a1) = Len(MSG) + Len(Space)
    BY <1>2, Joined DEF a1
  <1>7. a2 \in Strings /\ Len(a2) = Len(a1) + Len(subject)
    BY <1>4, <1>6, Joined DEF a2
  <1>8. a3 \in Strings /\ Len(a3) = Len(a2) + Len(Space)
    BY <1>2, <1>7, Joined DEF a3
  <1>9. a4 \in Strings /\ Len(a4) = Len(a3) + Len(n)
    BY <1>4, <1>8, Joined DEF a4
  <1>10. a5 \in Strings /\ Len(a5) = Len(a4) + Len(Space)
    BY <1>2, <1>9, Joined DEF a5
  <1>11. a6 \in Strings /\ Len(a6) = Len(a5) + Len(r)
    BY <1>4, <1>10, Joined DEF a6
  <1>12. Len(m) = Len(a6) + Len(z)
    BY <1>1, <1>5, <1>11, Joined
  <1>13. /\ Len(s) \in Nat /\ Len(subject) \in Nat /\ Len(n) \in Nat /\ Len(r) \in Nat /\ Len(z) \in Nat
    BY <1>4, <1>5 DEF Strings
  <1>14. Sits(s, 1, m) /\ Sits(s, 1 + Len(m), Newline)
    BY <1>1, <1>2, PartsBehind
  <1>15. Sits(s, 1, a6) /\ Sits(s, 1 + Len(a6), z)
    BY <1>1, <1>5, <1>11, <1>14, PartsBehind
  <1>16. Sits(s, 1, a5) /\ Sits(s, 1 + Len(a5), r)
    BY <1>4, <1>10, <1>15, PartsBehind DEF a6
  <1>17. Sits(s, 1, a4) /\ Sits(s, 1 + Len(a4), Space)
    BY <1>2, <1>9, <1>16, PartsBehind DEF a5
  <1>18. Sits(s, 1, a3) /\ Sits(s, 1 + Len(a3), n)
    BY <1>4, <1>8, <1>17, PartsBehind DEF a4
  <1>19. Sits(s, 1, a2) /\ Sits(s, 1 + Len(a2), Space)
    BY <1>2, <1>7, <1>18, PartsBehind DEF a3
  <1>20. Sits(s, 1, a1) /\ Sits(s, 1 + Len(a1), subject)
    BY <1>4, <1>6, <1>19, PartsBehind DEF a2
  <1>21. Sits(s, 1, MSG) /\ Sits(s, 1 + Len(MSG), Space)
    BY <1>2, <1>20, PartsBehind DEF a1
  <1>22. /\ (1 + Len(MSG)) + 1 = 1 + Len(a1) /\ (1 + Len(a1)) + Len(subject) = 1 + Len(a2)
         /\ (1 + Len(a2)) + 1 = 1 + Len(a3) /\ (1 + Len(a3)) + Len(n) = 1 + Len(a4)
         /\ (1 + Len(a4)) + 1 = 1 + Len(a5) /\ (1 + Len(a5)) + Len(r) = 1 + Len(a6)
         /\ (1 + Len(a6)) + Len(z) = 1 + Len(m)
    BY <1>2, <1>6, <1>7, <1>8, <1>9, <1>10, <1>11, <1>12, <1>13
  <1> DEFINE p1 == 1 + Len(a1)
             p2 == 1 + Len(a2)
             p3 == 1 + Len(a3)
             p4 == 1 + Len(a4)
             p5 == 1 + Len(a5)
             p6 == 1 + Len(a6)
             p7 == 1 + Len(m)
  <1>24. 1 \in 1 .. Len(s) + 1 /\ 1 + Len(MSG) = 3 /\ 3 \in 1 .. Len(s) + 1 /\ Len(s) >= 2 /\ s[1] = "M"
    <2>1. 1 \in 1 .. Len(MSG) /\ 1 + 1 - 1 = 1 /\ Len(s) >= 2
      BY <1>2, <1>13, <1>21 DEF Sits
    <2>2. s[1] = "M"
      BY <1>2, <1>21, <2>1 DEF Sits
    <2> QED
      BY <1>2, <1>13, <2>1, <2>2
  <1>25. Tag(s, 1, MSG) = Parsed(3, MSG)
    <2>1. Tag(s, 1, MSG) = Parsed(1 + Len(MSG), MSG)
      BY <1>2, <1>21, <1>24, TagFound
    <2> QED
      BY <1>24, <2>1
  <1>26. /\ p1 \in 1 .. Len(s) + 1 /\ p2 \in 1 .. Len(s) + 1 /\ p3 \in 1 .. Len(s) + 1 /\ p4 \in 1 .. Len(s) + 1
         /\ p5 \in 1 .. Len(s) + 1 /\ p6 \in 1 .. Len(s) + 1 /\ p7 \in 1 .. Len(s) + 1
         /\ p5 \in Nat \ {0}
    <2>1. (1 + Len(m)) + 2 - 1 <= Len(s)
      BY <1>2, <1>14 DEF Sits
    <2> QED
      BY <1>2, <1>6, <1>7, <1>8, <1>9, <1>10, <1>11, <1>12, <1>13, <2>1
  <1>27. ParseWhitespace(s, 3) = Parsed(p1, Space) /\ Sits(s, p1, subject) /\ p2 = p1 + Len(subject) /\ Sits(s, p2, Space)
    <2>1. 3 + 1 = p1 /\ Sits(s, 3, Space)
      BY <1>21, <1>22, <1>24
    <2>2. ParseWhitespace(s, 3) = Parsed(3 + 1, Space)
      BY <1>4, <1>20, <1>24, <2>1, BlankFound
    <2> QED
      BY <1>19, <1>20, <1>22, <2>1, <2>2
  <1>28. ParseWhitespace(s, p2) = Parsed(p3, Space)
    <2>1. p2 + 1 = p3
      BY <1>22
    <2>2. n \in Strings \ {<<>>} /\ n[1] \notin Blanks /\ Sits(s, p2 + 1, n) /\ Sits(s, p2, Space)
      BY <1>4, <1>18, <1>19, <2>1
    <2> HIDE DEF p2, p3
    <2> QED
      BY <1>26, <2>1, <2>2, BlankFound
  <1>29. U64(s, p3) = Parsed(p4, sid)
    <2>1. Sits(s, p3, n) /\ Sits(s, p3 + Len(n), Space) /\ Space[1] \notin Digits /\ p3 + Len(n) = p4
      BY <1>2, <1>17, <1>18, <1>22, SymbolFacts
    <2> HIDE DEF p3, p4
    <2>2. U64(s, p3) = Parsed(p3 + Len(n), sid)
      BY <1>3, <1>26, <2>1, NumberFound DEF n
    <2> QED
      BY <2>1, <2>2
  <1>30. ASSUME NEW u \in Strings \ {<<>>}, Sits(s, p5, u), u[1] \notin Blanks
         PROVE  ParseWhitespace(s, p4) = Parsed(p5, Space)
    <2>1. Sits(s, p4, Space) /\ p4 + 1 = p5
      BY <1>17, <1>22
    <2> HIDE DEF p4, p5
    <2> QED
      BY <1>26, <1>30, <2>1, BlankFound
  <1>31. ParseWhitespace(s, p4) = Parsed(p5, Space)
    <2>1. CASE reply = None
      <3>1. r = <<>> /\ Len(r) = 0
        BY <2>1, OptionalIsString DEF r
      <3>2. p5 = p6
        BY <1>11, <1>26, <3>1
      <3> QED
        BY <1>5, <1>15, <1>30, <3>2
    <2>2. CASE reply # None
      <3>1. PICK v \in Subjects : reply = Some(v)
        BY <2>2, OptionForms
      <3>2. r = v \o Space
        <4>1. reply[1] = v /\ Optional(reply) = reply[1] \o Space
          BY <2>2, <3>1, OptionForms, OptionalIsString
        <4> QED
          BY <4>1 DEF r
      <3>3. v \in Strings \ {<<>>} /\ \A h \in 1 .. Len(v) : v[h] \in TokenSymbols
        BY <3>1, Fields
      <3>4. v[1] \notin Blanks
        <4>1. 1 \in 1 .. Len(v)
          BY <3>3 DEF Strings
        <4> QED
          BY <3>3, <4>1, SymbolFacts
      <3>5. Sits(s, p5, v)
        <4>1. Sits(s, p5, v \o Space)
          BY <1>16, <3>2
        <4> HIDE DEF p5
        <4> QED
          BY <1>2, <1>26, <3>3, <4>1, SitsParts
      <3> QED
        BY <1>30, <3>3, <3>4, <3>5
    <2> QED
      BY <2>1, <2>2
  <1>32. Sits(s, p5, r) /\ p6 = p5 + Len(r) /\ Sits(s, p6, z) /\ Sits(s, p7, Newline)
    BY <1>14, <1>15, <1>16, <1>22
  <1>33. ParsePayload(s, p6) = Parsed(p7, payload)
    <2>1. p6 + Len(z) = p7
      BY <1>22
    <2> HIDE DEF p6, p7
    <2>2. ParsePayload(s, p6) = Parsed(p6 + Len(z), payload)
      BY <1>26, <1>32, PayloadFound DEF z
    <2> QED
      BY <2>1, <2>2
  <1>34. MsgPlaces(s, subject, sid, reply, payload, p1, p2, p3, p4, p5, p6, p7)
    <2> HIDE DEF p1, p2, p3, p4, p5, p6
    <2>1. p7 = 1 + Len(MsgBody(subject, sid, reply, payload)) /\ r = Optional(reply) /\ z = Sized(payload)
      BY DEF m, r, z
    <2> HIDE DEF p7
    <2> QED
      BY <1>27, <1>28, <1>29, <1>31, <1>32, <1>33, <2>1 DEF MsgPlaces
  <1> HIDE DEF p1, p2, p3, p4, p5, p6, p7
  <1> QED
    BY <1>24, <1>25, <1>26, <1>34

\* A message is decoded if the parser knows the subjects in it, and refused if
\* there is another symbol in one of them.
LEMMA DecodeMsg ==
    ASSUME NEW s \in Strings, NEW subject \in Subjects, NEW sid \in Numbers, NEW reply \in Option(Subjects),
           NEW payload \in Payloads, MsgBody(subject, sid, reply, payload) \in Strings,
           Sits(s, 1, MsgBody(subject, sid, reply, payload) \o Newline)
    PROVE  Decode(s) = IF subject \in Seq({"x"}) /\ reply \in Option(Seq({"x"}))
                       THEN Parsed((1 + Len(MsgBody(subject, sid, reply, payload))) + 2,
                                   [op |-> "Msg", subject |-> subject, sid |-> sid,
                                    reply_to |-> reply, payload |-> payload])
                       ELSE Failed
  <1> DEFINE A == Tag(s, 1, MSG)
             B == ParseWhitespace(s, A.at)
             C == ParseSubject(s, B.at)
             D == ParseWhitespace(s, C.at)
             E == U64(s, D.at)
             F == ParseWhitespace(s, E.at)
             G == Opt(ParseReplyTo(s, F.at), F.at)
             H == ParsePayload(s, G.at)
             Z == Parsed(H.at, [op |-> "Msg", subject |-> C.value, sid |-> E.value,
                                reply_to |-> G.value, payload |-> H.value])
             T7 == IF H.status = "ok" THEN Z ELSE H
             T6 == IF G.status = "ok" THEN T7 ELSE G
             T5 == IF F.status = "ok" THEN T6 ELSE F
             T4 == IF E.status = "ok" THEN T5 ELSE E
             T3 == IF D.status = "ok" THEN T4 ELSE D
             T2 == IF C.status = "ok" THEN T3 ELSE C
             T1 == IF B.status = "ok" THEN T2 ELSE B
             T  == IF A.status = "ok" THEN T1 ELSE A
             o == [op |-> "Msg", subject |-> subject, sid |-> sid, reply_to |-> reply, payload |-> payload]
  <1>1. ParseMsg(s) = T
    BY DEF ParseMsg, Then
  <1> HIDE DEF A, B, C, D, E, F, G, H, Z, T, T1, T2, T3, T4, T5, T6, T7, o
  <1>2. Len(s) >= 2 /\ s[1] = "M" /\ A = Parsed(3, MSG)
    BY MsgParts DEF A
  <1>3a. PICK i, j, k, l, m, n, e \in 1 .. Len(s) + 1 :
            MsgPlaces(s, subject, sid, reply, payload, i, j, k, l, m, n, e)
    BY MsgParts
  <1>3. /\ ParseWhitespace(s, 3) = Parsed(i, Space)
        /\ Sits(s, i, subject) /\ j = i + Len(subject) /\ Sits(s, j, Space)
        /\ ParseWhitespace(s, j) = Parsed(k, Space)
        /\ U64(s, k) = Parsed(l, sid)
        /\ ParseWhitespace(s, l) = Parsed(m, Space)
        /\ Sits(s, m, Optional(reply)) /\ n = m + Len(Optional(reply)) /\ Sits(s, n, Sized(payload))
        /\ ParsePayload(s, n) = Parsed(e, payload)
        /\ e = 1 + Len(MsgBody(subject, sid, reply, payload)) /\ Sits(s, e, Newline)
    BY <1>3a DEF MsgPlaces
  <1>4. A.status = "ok" /\ B.status = "ok" /\ B.at = i /\ T = T2
    <2>1. A.status = "ok" /\ A.at = 3
      BY <1>2, Results
    <2>2. B.status = "ok" /\ B.at = i
      BY <1>3, <2>1, Results DEF B
    <2> QED
      BY <2>1, <2>2 DEF T, T1
  <1>5. CASE subject \notin Seq({"x"})
    <2>1. \/ ParseSubject(s, i) = Failed
          \/ ParseSubject(s, i).status = "ok" /\ ParseWhitespace(s, ParseSubject(s, i).at) = Failed
      BY <1>3, <1>5, SubjectRefused
    <2>2. C = Failed \/ (C.status = "ok" /\ D = Failed)
      BY <1>4, <2>1 DEF C, D
    <2>3. ParseMsg(s) = Failed
      BY <1>1, <1>4, <2>2, Results DEF T2, T3
    <2> QED
      BY <1>2, <1>5, <2>3, Refused
  <1>6. CASE subject \in Seq({"x"})
    <2>1. C = Parsed(j, subject)
      BY <1>3, <1>4, <1>6, SubjectFound DEF C
    <2>2. C.status = "ok" /\ C.at = j /\ C.value = subject
      BY <2>1, Results
    <2>3. D.status = "ok" /\ D.at = k
      BY <1>3, <2>2, Results DEF D
    <2>4. E.status = "ok" /\ E.at = l /\ E.value = sid
      BY <1>3, <2>3, Results DEF E
    <2>5. F.status = "ok" /\ F.at = m
      BY <1>3, <2>4, Results DEF F
    <2>6. T = T6
      BY <1>4, <2>2, <2>3, <2>4, <2>5 DEF T2, T3, T4, T5
    <2>7. CASE reply \notin Option(Seq({"x"}))
      <3>1. Opt(ParseReplyTo(s, m), m) = Parsed(m, None) /\ ParsePayload(s, m) = Failed
        BY <1>3, <2>7, ReplyRefused
      <3>2. G.status = "ok" /\ G.at = m
        BY <2>5, <3>1, Results DEF G
      <3>3. ParseMsg(s) = Failed
        BY <1>1, <2>6, <3>1, <3>2, Results DEF T6, T7, H
      <3> QED
        BY <1>2, <2>7, <3>3, Refused
    <2>8. CASE reply \in Option(Seq({"x"}))
      <3>1. Sized(payload) \in Strings \ {<<>>} /\ Sized(payload)[1] \in Digits
        BY SizedIsString
      <3>2. G = Parsed(n, reply)
        BY <1>3, <2>5, <2>8, <3>1, ReplyFound DEF G
      <3>3. G.status = "ok" /\ G.at = n /\ G.value = reply
        BY <3>2, Results
      <3>4. H.status = "ok" /\ H.at = e /\ H.value = payload
        BY <1>3, <3>3, Results DEF H
      <3>5. ParseMsg(s) = Parsed(e, o)
        BY <1>1, <2>2, <2>4, <2>6, <3>3, <3>4 DEF T6, T7, Z, o
      <3>6. ParseInfo(s) = Failed /\ ParseMsg(s) # Failed
        <4>1. s[1] # "I"
          BY <1>2
        <4> QED
          BY <1>2, <3>5, <4>1, Others, Results
      <3>7. Operation(s) = Parsed(e, o)
        BY <3>5, <3>6, FirstThatFits
      <3>8. Decode(s) = Parsed(e + 2, o)
        BY <1>3, <3>7, LineFound
      <3> QED
        BY <1>3, <1>6, <2>8, <3>8 DEF o
    <2> QED
      BY <2>7, <2>8
  <1> QED
    BY <1>5, <1>6

LEMMA DecodeErr ==
    ASSUME NEW s \in Strings, NEW message \in Texts, Sits(s, 1, (ERR \o message) \o Newline)
    PROVE  Decode(s) = IF message \in Strs THEN Parsed((1 + Len(ERR \o message)) + 2, [op |-> "Err", message |-> message])
                       ELSE Failed
  <1> DEFINE m == ERR \o message
             o == [op |-> "Err", message |-> message]
  <1>1. /\ ERR \in Strings /\ Len(ERR) = 3 /\ ERR[1] = "-"
        /\ Newline \in Strings /\ Len(Newline) = 2
    BY TagStrings
  <1>2. message \in Strings /\ Len(message) \in Nat /\ Len(s) \in Nat
    BY Fields DEF Strings
  <1>3. m \in Strings /\ Len(m) = Len(ERR) + Len(message)
    BY <1>1, <1>2, Joined
  <1>4. Sits(s, 1, m) /\ Sits(s, 1 + Len(m), Newline)
    <2>1. Sits(s, 1, m \o Newline)
      OBVIOUS
    <2> HIDE DEF m
    <2> QED
      BY <1>1, <1>3, <2>1, PartsBehind
  <1>5. Sits(s, 1, ERR) /\ Sits(s, 1 + Len(ERR), message)
    BY <1>1, <1>2, <1>4, PartsBehind
  <1> HIDE DEF m
  <1>6. (1 + Len(ERR)) + Len(message) = 1 + Len(m)
    BY <1>1, <1>2, <1>3
  <1>7. 1 \in 1 .. Len(s) + 1 /\ Len(s) >= 2 /\ s[1] = "-"
    <2>1. 1 \in 1 .. Len(ERR) /\ 1 + 1 - 1 = 1 /\ Len(s) >= 2
      BY <1>1, <1>2, <1>5 DEF Sits
    <2> QED
      BY <1>1, <1>2, <1>5, <2>1 DEF Sits
  <1> DEFINE A == Tag(s, 1, ERR)
             B == ParseText(s, A.at)
  <1>8. ParseErr(s) = IF A.status = "ok" THEN IF B.status = "ok"
                          THEN Parsed(B.at, [op |-> "Err", message |-> B.value]) ELSE B ELSE A
    BY DEF ParseErr, Then
  <1>9. A = Parsed(1 + Len(ERR), ERR) /\ 1 + Len(ERR) \in 1 .. Len(s) + 1
    BY <1>1, <1>5, <1>7, TagFound
  <1> HIDE DEF A
  <1>10. A.status = "ok" /\ A.at = 1 + Len(ERR)
    BY <1>9, Results
  <1>11. B = (IF message \in Strs THEN Parsed(1 + Len(m), message) ELSE Failed) /\ 1 + Len(m) \in 1 .. Len(s) + 1
    <2>1. /\ ParseText(s, 1 + Len(ERR)) =
                 IF message \in Strs THEN Parsed((1 + Len(ERR)) + Len(message), message) ELSE Failed
          /\ (1 + Len(ERR)) + Len(message) \in 1 .. Len(s) + 1
      BY <1>4, <1>5, <1>6, <1>9, TextFound
    <2> QED
      BY <1>6, <1>10, <2>1
  <1> HIDE DEF B
  <1>12. ParseErr(s) = IF message \in Strs THEN Parsed(1 + Len(m), o) ELSE Failed
    BY <1>8, <1>10, <1>11, Results
  <1> HIDE DEF o
  <1>13. CASE message \in Strs
    <2>1. s[1] # "I" /\ s[1] # "M" /\ s[1] # "+"
      BY <1>7
    <2>2. ParseErr(s) = Parsed(1 + Len(m), o) /\ ParseErr(s) # Failed
      BY <1>12, <1>13, Results
    <2>3. Operation(s) = Parsed(1 + Len(m), o)
      BY <1>7, <2>1, <2>2, Others, FirstThatFits
    <2>4. Decode(s) = Parsed((1 + Len(m)) + 2, o)
      BY <1>4, <1>11, <2>3, LineFound
    <2> QED
      BY <1>13, <2>4 DEF o, m
  <1>14. CASE message \notin Strs
    BY <1>7, <1>12, <1>14, Refused
  <1> QED
    BY <1>13, <1>14

\* The operations of one word.
LEMMA WordFound ==
    ASSUME NEW s \in Strings, NEW word \in Strings, NEW name, Sits(s, 1, word \o Newline), Len(word) = 2
    PROVE  /\ ParseWord(s, word, name) = Parsed(3, [op |-> name])
           /\ Sits(s, 3, Newline) /\ 3 \in 1 .. Len(s) + 1
           /\ Len(s) >= 2 /\ s[1] = word[1] /\ s[2] = word[2]
  <1>1. Newline \in Strings /\ Len(Newline) = 2 /\ Len(s) \in Nat
    BY TagStrings DEF Strings
  <1>2. Sits(s, 1, word) /\ Sits(s, 1 + Len(word), Newline)
    BY <1>1, PartsBehind
  <1>3. 1 + Len(word) = 3 /\ Sits(s, 3, Newline)
    BY <1>2
  <1>4. Len(s) >= 2 /\ s[1] = word[1] /\ s[2] = word[2]
    <2>1. /\ 1 \in 1 .. Len(word) /\ 2 \in 1 .. Len(word)
          /\ 1 + 1 - 1 = 1 /\ 1 + 2 - 1 = 2
      OBVIOUS
    <2> QED
      BY <1>1, <1>2, <2>1 DEF Sits
  <1> DEFINE A == Tag(s, 1, word)
  <1>5. ParseWord(s, word, name) = IF A.status = "ok" THEN Parsed(A.at, [op |-> name]) ELSE A
    BY DEF ParseWord, Then
  <1>6. A = Parsed(3, word) /\ 3 \in 1 .. Len(s) + 1
    <2>1. 1 \in 1 .. Len(s) + 1
      BY <1>1
    <2>2. A = Parsed(1 + Len(word), word) /\ 1 + Len(word) \in 1 .. Len(s) + 1
      BY <1>2, <2>1, TagFound
    <2> QED
      BY <1>3, <2>2
  <1> HIDE DEF A
  <1> QED
    BY <1>3, <1>4, <1>5, <1>6, Results

LEMMA DecodeOk ==
    ASSUME NEW s \in Strings, Sits(s, 1, OK \o Newline)
    PROVE  Decode(s) = Parsed(5, [op |-> "Ok"])
  <1> DEFINE o == [op |-> "Ok"]
  <1>1. OK \in Strings /\ Len(OK) = 2 /\ OK[1] = "+"
    BY TagStrings
  <1>2. /\ ParseWord(s, OK, "Ok") = Parsed(3, o) /\ Sits(s, 3, Newline) /\ 3 \in 1 .. Len(s) + 1
        /\ Len(s) >= 2 /\ s[1] = "+"
    BY <1>1, WordFound
  <1> HIDE DEF o
  <1>3. ParseInfo(s) = Failed /\ ParseMsg(s) = Failed /\ ParseWord(s, OK, "Ok") # Failed
    <2>1. s[1] # "I" /\ s[1] # "M"
      BY <1>2
    <2> QED
      BY <1>2, <2>1, Others, Results
  <1>4. Operation(s) = Parsed(3, o)
    BY <1>2, <1>3, FirstThatFits
  <1>5. Decode(s) = Parsed(3 + 2, o)
    BY <1>2, <1>4, LineFound
  <1> QED
    BY <1>5 DEF o

LEMMA DecodePing ==
    ASSUME NEW s \in Strings, Sits(s, 1, PING \o Newline)
    PROVE  Decode(s) = Parsed(5, [op |-> "Ping"])
  <1> DEFINE o == [op |-> "Ping"]
  <1>1. PING \in Strings /\ Len(PING) = 2 /\ PING[1] = "P"
    BY TagStrings
  <1>2. /\ ParseWord(s, PING, "Ping") = Parsed(3, o) /\ Sits(s, 3, Newline) /\ 3 \in 1 .. Len(s) + 1
        /\ Len(s) >= 2 /\ s[1] = "P"
    BY <1>1, WordFound
  <1> HIDE DEF o
  <1>3. /\ ParseInfo(s) = Failed /\ ParseMsg(s) = Failed /\ ParseWord(s, OK, "Ok") = Failed
        /\ ParseErr(s) = Failed /\ ParseWord(s, PING, "Ping") # Failed
    <2>1. s[1] # "I" /\ s[1] # "M" /\ s[1] # "+" /\ s[1] # "-"
      BY <1>2
    <2> QED
      BY <1>2, <2>1, Others, Results
  <1>4. Operation(s) = Parsed(3, o)
    BY <1>2, <1>3, FirstThatFits
  <1>5. Decode(s) = Parsed(3 + 2, o)
    BY <1>2, <1>4, LineFound
  <1> QED
    BY <1>5 DEF o

LEMMA DecodePong ==
    ASSUME NEW s \in Strings, Sits(s, 1, PONG \o Newline)
    PROVE  Decode(s) = Parsed(5, [op |-> "Pong"])
  <1> DEFINE o == [op |-> "Pong"]
  <1>1. PONG \in Strings /\ Len(PONG) = 2 /\ PONG[1] = "P" /\ PONG[2] = "ONG"
    BY TagStrings
  <1>2. /\ ParseWord(s, PONG, "Pong") = Parsed(3, o) /\ Sits(s, 3, Newline) /\ 3 \in 1 .. Len(s) + 1
        /\ Len(s) >= 2 /\ s[1] = "P" /\ s[2] = "ONG"
    BY <1>1, WordFound
  <1> HIDE DEF o
  <1>3. /\ ParseInfo(s) = Failed /\ ParseMsg(s) = Failed /\ ParseWord(s, OK, "Ok") = Failed
        /\ ParseErr(s) = Failed /\ ParseWord(s, PING, "Ping") = Failed
    <2>1. s[1] # "I" /\ s[1] # "M" /\ s[1] # "+" /\ s[1] # "-" /\ s[2] # "ING"
      BY <1>2
    <2> QED
      BY <1>2, <2>1, Others
  <1>4. Operation(s) = Parsed(3, o)
    BY <1>2, <1>3, FirstThatFits
  <1>5. Decode(s) = Parsed(3 + 2, o)
    BY <1>2, <1>4, LineFound
  <1> QED
    BY <1>5 DEF o

\* What the server writes, form by form.
LEMMA Encodings ==
    /\ \A json : ServerEncode([op |-> "Info", json |-> json]) = ((INFO \o Space) \o json) \o Newline
    /\ \A message : ServerEncode([op |-> "Err", message |-> message]) = (ERR \o message) \o Newline
    /\ ServerEncode([op |-> "Ok"]) = OK \o Newline
    /\ ServerEncode([op |-> "Ping"]) = PING \o Newline
    /\ ServerEncode([op |-> "Pong"]) = PONG \o Newline
  <1>1. \A json : ServerEncode([op |-> "Info", json |-> json]) = ((INFO \o Space) \o json) \o Newline
    BY DEF ServerEncode
  <1>2. \A message : ServerEncode([op |-> "Err", message |-> message]) = (ERR \o message) \o Newline
    BY DEF ServerEncode
  <1>3. ServerEncode([op |-> "Ok"]) = OK \o Newline
    BY DEF ServerEncode
  <1>4. ServerEncode([op |-> "Ping"]) = PING \o Newline
    BY DEF ServerEncode
  <1>5. ServerEncode([op |-> "Pong"]) = PONG \o Newline
    BY DEF ServerEncode
  <1> QED
    BY <1>1, <1>2, <1>3, <1>4, <1>5

LEMMA MsgEncoding ==
    ASSUME NEW o, o.op = "Msg"
    PROVE  ServerEncode(o) = MsgBody(o.subject, o.sid, o.reply_to, o.payload) \o Newline
  BY DEF ServerEncode, MsgBody

\* Decode returns the operation that was written, whatever follows it, and
\* consumes its bytes; or it refuses one with a field that it does not know.
LEMMA DecodeOfEncode ==
    ASSUME NEW o \in ServerOperations, NEW s \in Strings
    PROVE  /\ ServerEncode(o) \in Strings \ {<<>>}
           /\ Sits(s, 1, ServerEncode(o)) =>
                  Decode(s) = IF Legible(o) THEN Parsed(Len(ServerEncode(o)) + 1, o) ELSE Failed
  <1> DEFINE Claim == /\ ServerEncode(o) \in Strings \ {<<>>}
                      /\ Sits(s, 1, ServerEncode(o)) =>
                             Decode(s) = IF Legible(o) THEN Parsed(Len(ServerEncode(o)) + 1, o) ELSE Failed
  <1>1. /\ INFO \in Strings /\ Len(INFO) = 2 /\ MSG \in Strings /\ OK \in Strings /\ Len(OK) = 2
        /\ ERR \in Strings /\ PING \in Strings /\ Len(PING) = 2 /\ PONG \in Strings /\ Len(PONG) = 2
        /\ Newline \in Strings /\ Len(Newline) = 2 /\ Space \in Strings /\ Len(Space) = 1
    BY TagStrings
  <1>2. ASSUME NEW m \in Strings, ServerEncode(o) = m \o Newline,
               Sits(s, 1, m \o Newline) =>
                   Decode(s) = IF Legible(o) THEN Parsed((1 + Len(m)) + 2, o) ELSE Failed
        PROVE  Claim
    <2>1. m \o Newline \in Strings /\ Len(m \o Newline) = Len(m) + Len(Newline) /\ Len(m) \in Nat
      <3>1. Len(m) \in Nat
        BY DEF Strings
      <3> QED
        BY <1>1, <3>1, Joined
    <2>2. (1 + Len(m)) + 2 = Len(m \o Newline) + 1 /\ Len(m \o Newline) # 0
      BY <1>1, <2>1
    <2>3. m \o Newline # <<>>
      BY <2>2
    <2> QED
      BY <1>2, <2>1, <2>2, <2>3
  <1> HIDE DEF Claim
  <1>3. ASSUME NEW json \in Texts, json[1] \notin Blanks, o = [op |-> "Info", json |-> json] PROVE Claim
    <2> DEFINE m == (INFO \o Space) \o json
    <2>1. json \in Strings /\ Len(json) \in Nat
      BY Fields DEF Strings
    <2>2. INFO \o Space \in Strings /\ Len(INFO \o Space) = Len(INFO) + Len(Space)
      BY <1>1, Joined
    <2>3. m \in Strings /\ Len(m) = Len(INFO \o Space) + Len(json)
      BY <2>1, <2>2, Joined
    <2>4. Sits(s, 1, m \o Newline) =>
              Decode(s) = IF Legible(o) THEN Parsed(6 + Len(json), o) ELSE Failed
      <3>1. Legible(o) <=> json \in Strs
        BY <1>3 DEF Legible
      <3> HIDE DEF m
      <3>2. Sits(s, 1, m \o Newline) =>
                Decode(s) = IF json \in Strs THEN Parsed(6 + Len(json), o) ELSE Failed
        BY <1>3, DecodeInfo DEF m
      <3> QED
        BY <3>1, <3>2
    <2>5. ServerEncode(o) = m \o Newline
      BY <1>3, Encodings
    <2> HIDE DEF m
    <2>6. (1 + Len(m)) + 2 = 6 + Len(json)
      BY <1>1, <2>1, <2>2, <2>3
    <2> QED
      BY <1>2, <2>3, <2>4, <2>5, <2>6
  <1>4. ASSUME NEW subject \in Subjects, NEW sid \in Numbers, NEW reply \in Option(Subjects), NEW payload \in Payloads,
               o = [op |-> "Msg", subject |-> subject, sid |-> sid, reply_to |-> reply, payload |-> payload]
        PROVE  Claim
    <2> DEFINE n == Number[sid]
               r == Optional(reply)
               z == Sized(payload)
               m == ((((((MSG \o Space) \o subject) \o Space) \o n) \o Space) \o r) \o z
    <2>1. subject \in Strings /\ n \in Strings /\ r \in Strings /\ z \in Strings
      BY Fields, OptionalIsString, SizedIsString
    <2> HIDE DEF n, r, z
    <2>2. MSG \o Space \in Strings
      BY <1>1, Joined
    <2>3. (MSG \o Space) \o subject \in Strings
      BY <2>1, <2>2, Joined
    <2>4. ((MSG \o Space) \o subject) \o Space \in Strings
      BY <1>1, <2>3, Joined
    <2>5. (((MSG \o Space) \o subject) \o Space) \o n \in Strings
      BY <2>1, <2>4, Joined
    <2>6. ((((MSG \o Space) \o subject) \o Space) \o n) \o Space \in Strings
      BY <1>1, <2>5, Joined
    <2>7. (((((MSG \o Space) \o subject) \o Space) \o n) \o Space) \o r \in Strings
      BY <2>1, <2>6, Joined
    <2>8. m \in Strings
      BY <2>1, <2>7, Joined
    <2>9. m = MsgBody(subject, sid, reply, payload)
      BY DEF n, r, z, MsgBody
    <2> HIDE DEF m
    <2>10. ServerEncode(o) = m \o Newline
      <3>1. ServerEncode(o) = MsgBody(subject, sid, reply, payload) \o Newline
        <4>1. o.op = "Msg" /\ o.subject = subject /\ o.sid = sid /\ o.reply_to = reply /\ o.payload = payload
          BY <1>4
        <4> QED
          BY <4>1, MsgEncoding
      <3> QED
        BY <2>9, <3>1
    <2>11. Sits(s, 1, m \o Newline) =>
               Decode(s) = IF Legible(o) THEN Parsed((1 + Len(m)) + 2, o) ELSE Failed
      <3>1. Legible(o) <=> subject \in Seq({"x"}) /\ reply \in Option(Seq({"x"}))
        <4>1. o.op = "Msg" /\ o.subject = subject /\ o.reply_to = reply
          BY <1>4
        <4> QED
          BY <4>1 DEF Legible
      <3> QED
        BY <1>4, <2>8, <2>9, <3>1, DecodeMsg
    <2> QED
      BY <1>2, <2>8, <2>10, <2>11
  <1>5. ASSUME NEW message \in Texts, o = [op |-> "Err", message |-> message] PROVE Claim
    <2> DEFINE m == ERR \o message
    <2>1. m \in Strings
      BY <1>1, Fields, Joined
    <2>2. Sits(s, 1, m \o Newline) =>
              Decode(s) = IF Legible(o) THEN Parsed((1 + Len(m)) + 2, o) ELSE Failed
      <3>1. Legible(o) <=> message \in Strs
        BY <1>5 DEF Legible
      <3> QED
        BY <1>5, <3>1, DecodeErr
    <2>3. ServerEncode(o) = m \o Newline
      BY <1>5, Encodings
    <2> HIDE DEF m
    <2> QED
      BY <1>2, <2>1, <2>2, <2>3
  <1>6. ASSUME o = [op |-> "Ok"] PROVE Claim
    <2>1. Sits(s, 1, OK \o Newline) => Decode(s) = Parsed((1 + Len(OK)) + 2, o)
      <3>1. (1 + Len(OK)) + 2 = 5
        BY <1>1
      <3> QED
        BY <1>6, <3>1, DecodeOk
    <2>2. ServerEncode(o) = OK \o Newline /\ Legible(o)
      BY <1>6, Encodings DEF Legible
    <2> QED
      BY <1>1, <1>2, <2>1, <2>2
  <1>7. ASSUME o = [op |-> "Ping"] PROVE Claim
    <2>1. Sits(s, 1, PING \o Newline) => Decode(s) = Parsed((1 + Len(PING)) + 2, o)
      <3>1. (1 + Len(PING)) + 2 = 5
        BY <1>1
      <3> QED
        BY <1>7, <3>1, DecodePing
    <2>2. ServerEncode(o) = PING \o Newline /\ Legible(o)
      BY <1>7, Encodings DEF Legible
    <2> QED
      BY <1>1, <1>2, <2>1, <2>2
  <1>8. ASSUME o = [op |-> "Pong"] PROVE Claim
    <2>1. Sits(s, 1, PONG \o Newline) => Decode(s) = Parsed((1 + Len(PONG)) + 2, o)
      <3>1. (1 + Len(PONG)) + 2 = 5
        BY <1>1
      <3> QED
        BY <1>8, <3>1, DecodePong
    <2>2. ServerEncode(o) = PONG \o Newline /\ Legible(o)
      BY <1>8, Encodings DEF Legible
    <2> QED
      BY <1>1, <1>2, <2>1, <2>2
  <1>9. Claim
    <2>1. CASE \E json \in Texts : json[1] \notin Blanks /\ o = [op |-> "Info", json |-> json]
      BY <1>3, <2>1
    <2>2. CASE \E subject \in Subjects, sid \in Numbers, reply \in Option(Subjects), payload \in Payloads :
                   o = [op |-> "Msg", subject |-> subject, sid |-> sid, reply_to |-> reply, payload |-> payload]
      BY <1>4, <2>2
    <2>3. CASE \E message \in Texts : o = [op |-> "Err", message |-> message]
      BY <1>5, <2>3
    <2> QED
      BY <1>6, <1>7, <1>8, <2>1, <2>2, <2>3, ServerForms
  <1> QED
    BY <1>9 DEF Claim

-----------------------------------------------------------------------------
(* The bytes of several operations. *)

BytesSteps(q, f) == /\ f \in [0 .. Len(q) -> Strings] /\ f[0] = <<>>
                    /\ \A k \in 1 .. Len(q) : f[k] = f[k - 1] \o ServerEncode(q[k])

LEMMA EncodeType == \A o \in ServerOperations : ServerEncode(o) \in Strings \ {<<>>}
  <1>1. <<>> \in Strings
    BY DEF Strings
  <1> QED
    BY <1>1, DecodeOfEncode

LEMMA BytesDefined ==
    ASSUME NEW q \in Seq(ServerOperations)
    PROVE  \E f : BytesSteps(q, f) /\ Bytes(q) = f[Len(q)]
  <1> DEFINE n == Len(q)
             Law(f) == f = [k \in 0 .. n |-> IF k = 0 THEN <<>> ELSE f[k - 1] \o ServerEncode(q[k])]
             upto == CHOOSE f : Law(f)
             step == [p \in (1 .. n) \X Strings |-> p[2] \o ServerEncode(q[p[1]])]
  <1>1. n \in Nat /\ \A k \in 1 .. n : ServerEncode(q[k]) \in Strings
    <2>1. n \in Nat /\ \A k \in 1 .. n : q[k] \in ServerOperations
      OBVIOUS
    <2> QED
      BY <2>1, EncodeType
  <1>2. step \in [(1 .. n) \X Strings -> Strings]
    <2>1. ASSUME NEW p \in (1 .. n) \X Strings PROVE p[2] \o ServerEncode(q[p[1]]) \in Strings
      <3>1. p[1] \in 1 .. n /\ p[2] \in Strings
        OBVIOUS
      <3>2. ServerEncode(q[p[1]]) \in Strings
        BY <1>1, <3>1
      <3> QED
        BY <3>1, <3>2, Joined
    <2> QED
      BY <2>1
  <1>3. \A k \in 1 .. n, v \in Strings : step[<<k, v>>] = v \o ServerEncode(q[k])
    OBVIOUS
  <1>4. PICK f \in [0 .. n -> Strings] : f[0] = <<>> /\ \A k \in 1 .. n : f[k] = step[<<k, f[k - 1]>>]
    <2>1. n \in Nat /\ <<>> \in Strings
      BY DEF Strings
    <2> HIDE DEF step, n
    <2>2. PICK f : Recursive(n, Strings, <<>>, step, f)
      BY <1>2, <2>1, Recursion
    <2> QED
      BY <2>2 DEF Recursive
  <1>5. Law(f)
    <2>1. ASSUME NEW k \in 1 .. n PROVE f[k] = f[k - 1] \o ServerEncode(q[k])
      <3>1. k - 1 \in 0 .. n
        OBVIOUS
      <3> HIDE DEF step
      <3> QED
        BY <1>3, <1>4, <3>1
    <2> HIDE DEF step
    <2> QED
      BY <1>4, <2>1
  <1>6. Law(upto)
    BY <1>5
  <1>7. Bytes(q) = upto[n]
    BY DEF Bytes
  <1> HIDE DEF upto
  <1>8. upto[0] = <<>> /\ \A k \in 1 .. n : upto[k] = upto[k - 1] \o ServerEncode(q[k])
    BY <1>1, <1>6
  <1>9. \A k \in 0 .. n : upto[k] \in Strings
    <2> DEFINE S == {k \in Nat : upto[k] \in Strings}
    <2>1. 0 \in S
      BY <1>8 DEF Strings
    <2>2. ASSUME NEW k \in 0 .. n - 1, k \in S PROVE k + 1 \in S
      <3>1. upto[k + 1] = upto[k] \o ServerEncode(q[k + 1]) /\ ServerEncode(q[k + 1]) \in Strings /\ upto[k] \in Strings
        <4>1. k + 1 \in 1 .. n /\ (k + 1) - 1 = k
          BY <1>1
        <4> QED
          BY <1>1, <1>8, <2>2, <4>1
      <3>2. upto[k] \o ServerEncode(q[k + 1]) \in Strings
        BY <3>1, Joined
      <3>3. upto[k + 1] \in Strings /\ k + 1 \in Nat
        BY <3>1, <3>2
      <3> QED
        BY <3>3
    <2> HIDE DEF S
    <2>3. 0 .. n \subseteq S
      BY <1>1, <2>1, <2>2, StepByStep
    <2> QED
      BY <2>3 DEF S
  <1>10. upto \in [0 .. n -> Strings]
    <2>1. upto = [k \in 0 .. n |-> upto[k]]
      BY <1>6
    <2> QED
      BY <1>9, <2>1
  <1> QED
    BY <1>7, <1>8, <1>10 DEF BytesSteps

LEMMA BytesType ==
    ASSUME NEW q \in Seq(ServerOperations)
    PROVE  Bytes(q) \in Strings
  <1>1. Len(q) \in 0 .. Len(q)
    OBVIOUS
  <1> QED
    BY <1>1, BytesDefined DEF BytesSteps

LEMMA BytesEmpty == Bytes(<<>>) = <<>>
  <1>1. <<>> \in Seq(ServerOperations) /\ Len(<<>>) = 0
    OBVIOUS
  <1>2. PICK f : BytesSteps(<<>>, f) /\ Bytes(<<>>) = f[Len(<<>>)]
    BY <1>1, BytesDefined
  <1> QED
    BY <1>1, <1>2 DEF BytesSteps

LEMMA BytesAppend ==
    ASSUME NEW q \in Seq(ServerOperations), NEW o \in ServerOperations
    PROVE  Bytes(Append(q, o)) = Bytes(q) \o ServerEncode(o)
  <1> DEFINE t == Append(q, o)
  <1>1. /\ t \in Seq(ServerOperations) /\ Len(t) = Len(q) + 1 /\ t[Len(q) + 1] = o
        /\ \A k \in 1 .. Len(q) : t[k] = q[k]
    OBVIOUS
  <1>2. Len(q) \in Nat
    OBVIOUS
  <1> HIDE DEF t
  <1>3. PICK f : BytesSteps(q, f) /\ Bytes(q) = f[Len(q)]
    BY BytesDefined
  <1>4. PICK g : BytesSteps(t, g) /\ Bytes(t) = g[Len(t)]
    BY <1>1, BytesDefined
  <1>5. 0 .. Len(q) \subseteq {k \in Nat : f[k] = g[k]}
    <2> DEFINE S == {k \in Nat : f[k] = g[k]}
    <2>1. 0 \in S
      BY <1>3, <1>4 DEF BytesSteps
    <2>2. ASSUME NEW k \in 0 .. Len(q) - 1, k \in S PROVE k + 1 \in S
      <3>1. k + 1 \in 1 .. Len(q) /\ k + 1 \in 1 .. Len(t) /\ (k + 1) - 1 = k /\ k + 1 \in Nat
        BY <1>1, <1>2
      <3>2. f[k + 1] = f[k] \o ServerEncode(q[k + 1]) /\ g[k + 1] = g[k] \o ServerEncode(t[k + 1])
        BY <1>3, <1>4, <3>1 DEF BytesSteps
      <3> QED
        BY <1>1, <2>2, <3>1, <3>2
    <2> HIDE DEF S
    <2> QED
      BY <1>2, <2>1, <2>2, StepByStep DEF S
  <1>6. g[Len(q)] = Bytes(q)
    <2>1. Len(q) \in 0 .. Len(q)
      BY <1>2
    <2> QED
      BY <1>3, <1>5, <2>1
  <1>7. g[Len(t)] = g[Len(q)] \o ServerEncode(o)
    <2>1. Len(t) \in 1 .. Len(t) /\ Len(t) - 1 = Len(q)
      BY <1>1, <1>2
    <2>2. g[Len(t)] = g[Len(t) - 1] \o ServerEncode(t[Len(t)])
      BY <1>4, <2>1 DEF BytesSteps
    <2> QED
      BY <1>1, <2>1, <2>2
  <1> QED
    BY <1>4, <1>6, <1>7 DEF t

\* The bytes of the first operation come first.
LEMMA BytesHead ==
    ASSUME NEW q \in Seq(ServerOperations), q # <<>>
    PROVE  /\ Head(q) \in ServerOperations /\ Tail(q) \in Seq(ServerOperations)
           /\ Bytes(q) = ServerEncode(Head(q)) \o Bytes(Tail(q))
  <1> DEFINE t == Tail(q)
             e == ServerEncode(Head(q))
  <1>1. /\ Head(q) \in ServerOperations /\ Head(q) = q[1] /\ t \in Seq(ServerOperations)
        /\ Len(t) = Len(q) - 1 /\ \A k \in 1 .. Len(t) : t[k] = q[k + 1]
    OBVIOUS
  <1>2. Len(q) \in Nat \ {0} /\ Len(t) \in Nat /\ Len(q) = Len(t) + 1
    <2>1. Len(q) \in Nat \ {0}
      OBVIOUS
    <2> QED
      BY <1>1, <2>1
  <1>3. e \in Strings
    BY <1>1, EncodeType
  <1> HIDE DEF t, e
  <1>4. PICK f : BytesSteps(q, f) /\ Bytes(q) = f[Len(q)]
    BY BytesDefined
  <1>5. PICK g : BytesSteps(t, g) /\ Bytes(t) = g[Len(t)]
    BY <1>1, BytesDefined
  <1>6. 0 .. Len(t) \subseteq {k \in Nat : f[k + 1] = e \o g[k]}
    <2> DEFINE S == {k \in Nat : f[k + 1] = e \o g[k]}
    <2>1. 0 \in S
      <3>1. 1 \in 1 .. Len(q)
        BY <1>2
      <3>2. f[1] = f[1 - 1] \o ServerEncode(q[1])
        BY <1>4, <3>1 DEF BytesSteps
      <3>3. f[1 - 1] = <<>> /\ g[0] = <<>> /\ ServerEncode(q[1]) = e /\ 1 - 1 = 0
        BY <1>1, <1>4, <1>5 DEF BytesSteps, e
      <3>4. <<>> \o e = e /\ e \o <<>> = e
        BY <1>3, JoinedEmpty
      <3>5. f[0 + 1] = e \o g[0]
        BY <3>2, <3>3, <3>4
      <3> QED
        BY <3>5
    <2>2. ASSUME NEW k \in 0 .. Len(t) - 1, k \in S PROVE k + 1 \in S
      <3>1. /\ k + 1 \in 1 .. Len(t) /\ (k + 1) - 1 = k /\ k + 1 \in Nat /\ k \in 0 .. Len(t)
            /\ (k + 1) + 1 \in 1 .. Len(q) /\ ((k + 1) + 1) - 1 = k + 1
        BY <1>2
      <3>2. f[(k + 1) + 1] = f[k + 1] \o ServerEncode(q[(k + 1) + 1]) /\ g[k + 1] = g[k] \o ServerEncode(t[k + 1])
        BY <1>4, <1>5, <3>1 DEF BytesSteps
      <3>3. t[k + 1] = q[(k + 1) + 1] /\ t[k + 1] \in ServerOperations
        BY <1>1, <3>1
      <3>4. g[k] \in Strings /\ ServerEncode(t[k + 1]) \in Strings
        BY <1>5, <3>1, <3>3, EncodeType DEF BytesSteps
      <3>5. (e \o g[k]) \o ServerEncode(t[k + 1]) = e \o (g[k] \o ServerEncode(t[k + 1]))
        BY <1>3, <3>4, JoinedTwice
      <3>6. f[k + 1] = e \o g[k]
        BY <2>2
      <3> QED
        BY <3>1, <3>2, <3>3, <3>5, <3>6
    <2> HIDE DEF S
    <2> QED
      BY <1>2, <2>1, <2>2, StepByStep DEF S
  <1>7. Bytes(q) = e \o Bytes(t)
    <2>1. Len(t) \in 0 .. Len(t)
      BY <1>2
    <2> QED
      BY <1>2, <1>4, <1>5, <1>6, <2>1
  <1> QED
    BY <1>1, <1>7 DEF t, e

-----------------------------------------------------------------------------
(* The stream. *)

\* What is left of a sequence when its beginning is taken away.
LEMMA CutOff ==
    ASSUME NEW a \in Strings, NEW b \in Strings, NEW e \in Strings, NEW t \in Strings,
           a \o b = e \o t, Len(e) <= Len(a)
    PROVE  /\ SubSeq(a, Len(e) + 1, Len(a)) \in Strings
           /\ SubSeq(a, Len(e) + 1, Len(a)) \o b = t
  <1> DEFINE r == SubSeq(a, Len(e) + 1, Len(a))
  <1>1. Len(a) \in Nat /\ Len(b) \in Nat /\ Len(e) \in Nat /\ Len(t) \in Nat
    BY DEF Strings
  <1>2. /\ r \in Strings /\ Len(r) = Len(a) - Len(e)
        /\ \A k \in 1 .. Len(r) : r[k] = a[Len(e) + k]
    <2>1. Len(e) + 1 \in 1 .. Len(a) + 1 /\ Len(a) \in (Len(e) + 1) - 1 .. Len(a)
      BY <1>1
    <2>2. /\ r \in Strings /\ Len(r) = Len(a) - (Len(e) + 1) + 1
          /\ \A k \in 1 .. Len(a) - (Len(e) + 1) + 1 : r[k] = a[(Len(e) + 1) + k - 1]
      BY <2>1, Piece
    <2>3. Len(a) - (Len(e) + 1) + 1 = Len(a) - Len(e) /\ \A k \in Nat : (Len(e) + 1) + k - 1 = Len(e) + k
      BY <1>1
    <2> HIDE DEF r
    <2> QED
      BY <1>1, <2>2, <2>3
  <1> HIDE DEF r
  <1>3. /\ a \o b \in Strings /\ Len(a \o b) = Len(a) + Len(b)
        /\ \A k \in 1 .. Len(a) : (a \o b)[k] = a[k]
        /\ \A k \in 1 .. Len(b) : (a \o b)[Len(a) + k] = b[k]
    BY Joined
  <1>4. /\ Len(e \o t) = Len(e) + Len(t)
        /\ \A k \in 1 .. Len(t) : (e \o t)[Len(e) + k] = t[k]
    BY Joined
  <1>5. /\ r \o b \in Strings /\ Len(r \o b) = Len(r) + Len(b)
        /\ \A k \in 1 .. Len(r) : (r \o b)[k] = r[k]
        /\ \A k \in 1 .. Len(b) : (r \o b)[Len(r) + k] = b[k]
    BY <1>2, Joined
  <1>6. Len(r \o b) = Len(t)
    BY <1>1, <1>2, <1>3, <1>4, <1>5
  <1>7. ASSUME NEW k \in 1 .. Len(r \o b) PROVE (r \o b)[k] = t[k]
    <2>1. t[k] = (a \o b)[Len(e) + k]
      BY <1>4, <1>6
    <2>2. CASE k <= Len(r)
      <3>1. k \in 1 .. Len(r) /\ Len(e) + k \in 1 .. Len(a)
        BY <1>1, <1>2, <2>2
      <3> QED
        BY <1>2, <1>3, <1>5, <2>1, <3>1
    <2>3. CASE k > Len(r)
      <3> DEFINE l == k - Len(r)
      <3>1. l \in 1 .. Len(b) /\ Len(r) + l = k /\ Len(e) + k = Len(a) + l
        BY <1>1, <1>2, <1>5, <2>3
      <3> HIDE DEF l
      <3>2. (r \o b)[Len(r) + l] = b[l] /\ (a \o b)[Len(a) + l] = b[l]
        BY <1>3, <1>5, <3>1
      <3> QED
        BY <2>1, <3>1, <3>2
    <2> QED
      BY <1>1, <1>2, <2>2, <2>3
  <1> QED
    BY <1>2, <1>5, <1>6, <1>7, SameElements DEF r

LEMMA Alike ==
    ASSUME NEW S, NEW s \in Seq(S), NEW t \in Seq(S), Len(s) = Len(t), \A k \in 1 .. Len(s) : s[k] = t[k]
    PROVE  s = t
  OBVIOUS

\* A byte that arrives.
LEMMA ByteMoves ==
    ASSUME NEW b \in Strings, NEW w \in Strings, w # <<>>
    PROVE  /\ Append(b, Head(w)) \in Strings /\ Tail(w) \in Strings
           /\ Append(b, Head(w)) \o Tail(w) = b \o w
  <1> DEFINE x == Append(b, Head(w))
             y == Tail(w)
  <1>1. /\ Len(b) \in Nat /\ Len(w) \in Nat \ {0} /\ Head(w) \in Symbols /\ Head(w) = w[1]
        /\ y \in Seq(Symbols) /\ Len(y) = Len(w) - 1 /\ \A k \in 1 .. Len(w) - 1 : y[k] = w[k + 1]
    BY DEF Strings
  <1>2. /\ x \in Seq(Symbols) /\ Len(x) = Len(b) + 1 /\ x[Len(b) + 1] = w[1]
        /\ \A k \in 1 .. Len(b) : x[k] = b[k]
    BY <1>1 DEF Strings
  <1>3. x \in Strings /\ y \in Strings
    BY <1>1, <1>2 DEF Strings
  <1> HIDE DEF x, y
  <1>4. /\ x \o y \in Strings /\ Len(x \o y) = Len(x) + Len(y)
        /\ \A k \in 1 .. Len(x) : (x \o y)[k] = x[k]
        /\ \A k \in 1 .. Len(y) : (x \o y)[Len(x) + k] = y[k]
    BY <1>3, Joined
  <1>5. /\ b \o w \in Strings /\ Len(b \o w) = Len(b) + Len(w)
        /\ \A k \in 1 .. Len(b) : (b \o w)[k] = b[k]
        /\ \A k \in 1 .. Len(w) : (b \o w)[Len(b) + k] = w[k]
    BY Joined
  <1>6. Len(x \o y) = Len(b \o w)
    BY <1>1, <1>2, <1>4, <1>5
  <1>7. ASSUME NEW k \in 1 .. Len(x \o y) PROVE (x \o y)[k] = (b \o w)[k]
    <2>1. CASE k <= Len(b)
      <3>1. k \in 1 .. Len(b) /\ k \in 1 .. Len(x)
        BY <1>1, <1>2, <2>1
      <3> QED
        BY <1>2, <1>4, <1>5, <3>1
    <2>2. CASE k = Len(b) + 1
      <3>1. 1 \in 1 .. Len(w) /\ k \in 1 .. Len(x)
        BY <1>1, <1>2, <2>2
      <3> QED
        BY <1>2, <1>4, <1>5, <2>2, <3>1
    <2>3. CASE k > Len(b) + 1
      <3> DEFINE l == k - Len(x)
      <3>1. /\ l \in 1 .. Len(y) /\ l \in 1 .. Len(w) - 1 /\ k = Len(x) + l
            /\ l + 1 \in 1 .. Len(w) /\ k = Len(b) + (l + 1)
        BY <1>1, <1>2, <1>4, <2>3
      <3> HIDE DEF l
      <3>2. (x \o y)[k] = y[l] /\ (b \o w)[k] = w[l + 1]
        BY <1>4, <1>5, <3>1
      <3> QED
        BY <1>1, <3>1, <3>2
    <2>4. k <= Len(b) \/ k = Len(b) + 1 \/ k > Len(b) + 1
      BY <1>1
    <2> QED
      BY <2>1, <2>2, <2>3, <2>4
  <1>8. x \o y = b \o w
    BY <1>4, <1>5, <1>6, <1>7, SameElements
  <1> QED
    BY <1>3, <1>8 DEF x, y

\* A beginning of a sequence.
LEMMA PrefixOf ==
    ASSUME NEW S, NEW g \in Seq(S), NEW q \in Seq(S), IsPrefix(g, q)
    PROVE  /\ Len(g) \in Nat /\ Len(q) \in Nat /\ Len(g) <= Len(q)
           /\ \A k \in 1 .. Len(g) : g[k] = q[k]
  <1>1. Len(g) <= Len(q) /\ SubSeq(g, 1, Len(g)) = SubSeq(q, 1, Len(g))
    BY DEF IsPrefix
  <1>2. \A k \in 1 .. Len(g) : SubSeq(g, 1, Len(g))[k] = g[k] /\ SubSeq(q, 1, Len(g))[k] = q[k]
    BY <1>1
  <1> QED
    BY <1>1, <1>2

\* What is left of a sequence behind a beginning, when something is added.
LEMMA RestAppend ==
    ASSUME NEW S, NEW g \in Seq(S), NEW q \in Seq(S), IsPrefix(g, q), NEW o \in S
    PROVE  /\ IsPrefix(g, Append(q, o))
           /\ SubSeq(Append(q, o), Len(g) + 1, Len(q) + 1) = Append(SubSeq(q, Len(g) + 1, Len(q)), o)
  <1> DEFINE r == SubSeq(q, Len(g) + 1, Len(q))
  <1>1. /\ Len(g) \in Nat /\ Len(q) \in Nat /\ Len(g) <= Len(q)
        /\ \A k \in 1 .. Len(g) : g[k] = q[k]
    BY PrefixOf
  <1>2. r \in Seq(S) /\ Len(r) = Len(q) - Len(g) /\ \A k \in 1 .. Len(q) - Len(g) : r[k] = q[Len(g) + k]
    BY <1>1
  <1> DEFINE t == Append(q, o)
  <1>3. t \in Seq(S) /\ Len(t) = Len(q) + 1 /\ t[Len(q) + 1] = o /\ \A k \in 1 .. Len(q) : t[k] = q[k]
    OBVIOUS
  <1> HIDE DEF t
  <1>4. SubSeq(g, 1, Len(g)) = SubSeq(t, 1, Len(g)) /\ Len(g) <= Len(t)
    BY <1>1, <1>3
  <1>5. SubSeq(t, Len(g) + 1, Len(q) + 1) = Append(r, o)
    <2> DEFINE u == SubSeq(t, Len(g) + 1, Len(q) + 1)
               v == Append(r, o)
    <2>1. /\ u \in Seq(S) /\ Len(u) = Len(q) + 1 - Len(g)
          /\ \A k \in 1 .. Len(q) + 1 - Len(g) : u[k] = t[Len(g) + k]
      BY <1>1, <1>3
    <2> HIDE DEF r
    <2>2. v \in Seq(S) /\ Len(v) = Len(r) + 1 /\ v[Len(r) + 1] = o /\ \A k \in 1 .. Len(r) : v[k] = r[k]
      BY <1>2
    <2> HIDE DEF u, v
    <2>3. Len(r) \in Nat /\ Len(g) + (Len(r) + 1) = Len(q) + 1 /\ Len(u) = Len(r) + 1
      BY <1>1, <1>2, <2>1
    <2>4. ASSUME NEW k \in 1 .. Len(r) PROVE u[k] = v[k]
      <3>1. k \in 1 .. Len(q) - Len(g) /\ k \in 1 .. Len(q) + 1 - Len(g) /\ Len(g) + k \in 1 .. Len(q)
        BY <1>1, <1>2
      <3> QED
        BY <1>2, <1>3, <2>1, <2>2, <3>1
    <2>5. u[Len(r) + 1] = v[Len(r) + 1]
      <3>1. Len(r) + 1 \in 1 .. Len(q) + 1 - Len(g)
        BY <1>1, <2>3
      <3> QED
        BY <1>3, <2>1, <2>2, <2>3, <3>1
    <2>6. \A k \in 1 .. Len(u) : k \in 1 .. Len(r) \/ k = Len(r) + 1
      BY <2>3
    <2>7. u = v
      BY <2>1, <2>2, <2>3, <2>4, <2>5, <2>6, Alike
    <2> QED
      BY <2>7 DEF u, v
  <1>6. IsPrefix(g, t)
    BY <1>4 DEF IsPrefix
  <1>7. IsPrefix(g, Append(q, o))
    BY <1>6 DEF t
  <1>8. SubSeq(Append(q, o), Len(g) + 1, Len(q) + 1) = Append(SubSeq(q, Len(g) + 1, Len(q)), o)
    BY <1>5 DEF t
  <1> QED
    BY <1>7, <1>8

\* And when its first element joins the beginning.
LEMMA RestFacts ==
    ASSUME NEW S, NEW g \in Seq(S), NEW q \in Seq(S), IsPrefix(g, q)
    PROVE  /\ SubSeq(q, Len(g) + 1, Len(q)) \in Seq(S)
           /\ SubSeq(q, Len(g) + 1, Len(q)) # <<>> =>
                  LET o == Head(SubSeq(q, Len(g) + 1, Len(q)))
                  IN  /\ o \in S /\ IsPrefix(Append(g, o), q)
                      /\ SubSeq(q, Len(Append(g, o)) + 1, Len(q)) = Tail(SubSeq(q, Len(g) + 1, Len(q)))
  <1> DEFINE r == SubSeq(q, Len(g) + 1, Len(q))
  <1>1. /\ Len(g) \in Nat /\ Len(q) \in Nat /\ Len(g) <= Len(q)
        /\ \A k \in 1 .. Len(g) : g[k] = q[k]
    BY PrefixOf
  <1>2. r \in Seq(S) /\ Len(r) = Len(q) - Len(g) /\ \A k \in 1 .. Len(q) - Len(g) : r[k] = q[Len(g) + k]
    BY <1>1
  <1>3. ASSUME r # <<>>
        PROVE  /\ Head(r) \in S /\ IsPrefix(Append(g, Head(r)), q)
               /\ SubSeq(q, Len(Append(g, Head(r))) + 1, Len(q)) = Tail(r)
    <2>1. Head(r) \in S /\ Head(r) = r[1] /\ Len(r) \in Nat \ {0} /\ Tail(r) \in Seq(S)
      <3> HIDE DEF r
      <3> QED
        BY <1>2, <1>3
    <2>2. Len(Tail(r)) = Len(r) - 1 /\ \A k \in 1 .. Len(r) - 1 : Tail(r)[k] = r[k + 1]
      <3> HIDE DEF r
      <3> QED
        BY <1>2, <1>3
    <2> DEFINE t == Append(g, Head(r))
    <2> HIDE DEF r
    <2>3. t \in Seq(S) /\ Len(t) = Len(g) + 1 /\ t[Len(g) + 1] = Head(r) /\ \A k \in 1 .. Len(g) : t[k] = g[k]
      BY <2>1
    <2> HIDE DEF t
    <2>4. Len(t) <= Len(q) /\ \A k \in 1 .. Len(t) : t[k] = q[k]
      <3>1. Len(t) <= Len(q)
        BY <1>1, <1>2, <2>1, <2>3
      <3>2. t[Len(g) + 1] = q[Len(g) + 1]
        <4>1. 1 \in 1 .. Len(q) - Len(g)
          BY <1>1, <1>2, <2>1
        <4> QED
          BY <1>2, <2>1, <2>3, <4>1
      <3>3. \A k \in 1 .. Len(t) : k \in 1 .. Len(g) \/ k = Len(g) + 1
        BY <1>1, <2>3
      <3> QED
        BY <1>1, <2>3, <3>1, <3>2, <3>3
    <2>5. SubSeq(t, 1, Len(t)) = SubSeq(q, 1, Len(t))
      BY <1>1, <2>3, <2>4
    <2>6. SubSeq(q, Len(t) + 1, Len(q)) = Tail(r)
      <3> DEFINE u == SubSeq(q, Len(t) + 1, Len(q))
                 v == Tail(r)
      <3>1. /\ u \in Seq(S) /\ Len(u) = Len(q) - Len(t)
            /\ \A k \in 1 .. Len(q) - Len(t) : u[k] = q[Len(t) + k]
        BY <1>1, <2>3, <2>4
      <3>2. v \in Seq(S) /\ Len(v) = Len(r) - 1 /\ \A k \in 1 .. Len(r) - 1 : v[k] = r[k + 1]
        BY <2>1, <2>2
      <3> HIDE DEF u, v
      <3>3. Len(u) = Len(v)
        BY <1>1, <1>2, <2>3, <3>1, <3>2
      <3>4. ASSUME NEW k \in 1 .. Len(u) PROVE u[k] = v[k]
        <4>1. /\ k \in 1 .. Len(q) - Len(t) /\ k \in 1 .. Len(r) - 1 /\ k + 1 \in 1 .. Len(q) - Len(g)
              /\ Len(t) + k = Len(g) + (k + 1)
          BY <1>1, <1>2, <2>1, <2>3, <3>1, <3>2, <3>3
        <4> QED
          BY <1>2, <3>1, <3>2, <4>1
      <3>5. u = v
        BY <3>1, <3>2, <3>3, <3>4, Alike
      <3> QED
        BY <3>5 DEF u, v
    <2> QED
      BY <2>1, <2>4, <2>5, <2>6 DEF IsPrefix, t
  <1> HIDE DEF r
  <1>4. r \in Seq(S) /\ (r # <<>> => LET o == Head(r)
                                     IN  /\ o \in S /\ IsPrefix(Append(g, o), q)
                                         /\ SubSeq(q, Len(Append(g, o)) + 1, Len(q)) = Tail(r))
    BY <1>2, <1>3
  <1> QED
    BY <1>4 DEF r

\* What the decoder says of what has arrived.
LEMMA Arrived ==
    ASSUME NEW q \in Seq(ServerOperations), NEW b \in Strings, NEW w \in Strings, b \o w = Bytes(q)
    PROVE  /\ q = <<>> => Decode(b) = Incomplete
           /\ q # <<>> => LET e == ServerEncode(Head(q))
                              fits == Legible(Head(q))
                          IN  /\ Len(b) >= Len(e) =>
                                     Decode(b) = IF fits THEN Parsed(Len(e) + 1, Head(q)) ELSE Failed
                              /\ Len(b) < Len(e) =>
                                     Decode(b) = Incomplete \/ (~fits /\ Decode(b) = Failed)
  <1>1. Len(b) \in Nat /\ Len(w) \in Nat
    BY DEF Strings
  <1>2. /\ b \o w \in Strings /\ Len(b \o w) = Len(b) + Len(w)
        /\ \A k \in 1 .. Len(b) : (b \o w)[k] = b[k]
    BY Joined
  <1>3. ASSUME q = <<>> PROVE Decode(b) = Incomplete
    <2>1. Len(b) = 0
      <3>1. Len(b \o w) = 0
        BY <1>3, BytesEmpty
      <3> QED
        BY <1>1, <1>2, <3>1
    <2> DEFINE s == OK \o Newline
    <2>2. s \in Strings /\ Len(s) \in Nat /\ Sits(s, 1, s)
      <3>1. OK \in Strings /\ Newline \in Strings
        BY TagStrings
      <3>2. s \in Strings
        BY <3>1, Joined
      <3> HIDE DEF s
      <3>3. s \o <<>> = s /\ <<>> \in Strings
        BY <3>2, JoinedEmpty
      <3>4. Sits(s \o <<>>, 1, s)
        BY <3>2, <3>3, SitsFirst
      <3> QED
        BY <3>2, <3>3, <3>4 DEF Strings
    <2>3. Decode(s) = Parsed(5, [op |-> "Ok"])
      BY <2>2, DecodeOk
    <2> HIDE DEF s
    <2>4. Begins(b, s)
      BY <2>1, <2>2 DEF Begins
    <2>5. Same(b, Decode(b), Decode(s))
      BY <2>2, <2>4, DecodeStreams
    <2> DEFINE r == [op |-> "Ok"]
    <2> HIDE DEF r
    <2>6. Decode(s) = Parsed(5, r)
      BY <2>3 DEF r
    <2>7. Decode(s).status = "ok" /\ Decode(s).at = 5 /\ Decode(s) # Failed /\ Decode(s) # Incomplete
      BY <2>6, Results
    <2>8. ~(5 \in 1 .. Len(b) + 1)
      BY <2>1
    <2> QED
      BY <2>5, <2>7, <2>8 DEF Same, Streams, Sound
  <1>4. ASSUME q # <<>>
        PROVE  LET e == ServerEncode(Head(q))
                   fits == Legible(Head(q))
               IN  /\ Len(b) >= Len(e) =>
                          Decode(b) = IF fits THEN Parsed(Len(e) + 1, Head(q)) ELSE Failed
                   /\ Len(b) < Len(e) =>
                          Decode(b) = Incomplete \/ (~fits /\ Decode(b) = Failed)
    <2> DEFINE o == Head(q)
               e == ServerEncode(o)
               t == Bytes(Tail(q))
               s == b \o w
    <2>1. o \in ServerOperations /\ s = e \o t /\ t \in Strings
      BY <1>4, BytesHead, BytesType
    <2>2. s \in Strings /\ Len(s) = Len(b) + Len(w) /\ Begins(b, s)
      BY <1>1, <1>2 DEF Begins
    <2> HIDE DEF o, t, s
    <2>3. e \in Strings
      BY <2>1, EncodeType
    <2> HIDE DEF e
    <2>4. Sits(s, 1, e)
      BY <2>1, <2>3, SitsFirst
    <2>5. Decode(s) = IF Legible(o) THEN Parsed(Len(e) + 1, o) ELSE Failed
      BY <2>1, <2>2, <2>4, DecodeOfEncode DEF e
    <2>6. Same(b, Decode(b), Decode(s))
      BY <2>2, DecodeStreams
    <2>7. Len(e) \in Nat
      BY <2>3 DEF Strings
    <2>8. ASSUME Len(b) >= Len(e) PROVE Decode(b) = IF Legible(o) THEN Parsed(Len(e) + 1, o) ELSE Failed
      <3>1. \A k \in 1 .. Len(e) : 1 + k - 1 = k /\ k \in 1 .. Len(b)
        BY <1>1, <2>7, <2>8
      <3>2. Sits(b, 1, e)
        BY <1>1, <2>2, <2>4, <2>7, <2>8, <3>1 DEF Sits, Begins
      <3> QED
        BY <2>1, <3>2, DecodeOfEncode DEF e
    <2>9. ASSUME Len(b) < Len(e) PROVE Decode(b) = Incomplete \/ (~Legible(o) /\ Decode(b) = Failed)
      <3>1. SUFFICES ASSUME Decode(b) = Decode(s), Legible(o) PROVE FALSE
        BY <2>5, <2>6 DEF Same, Streams
      <3>2. Decode(b).status = "ok" /\ Decode(b).at = Len(e) + 1 /\ Decode(b) # Failed /\ Decode(b) # Incomplete
        BY <2>5, <3>1, Results
      <3>3. Len(e) + 1 \in 1 .. Len(b) + 1
        BY <2>6, <3>2 DEF Same, Sound
      <3> QED
        BY <1>1, <2>7, <2>9, <3>3
    <2> QED
      BY <2>8, <2>9 DEF e, o
  <1> QED
    BY <1>3, <1>4

\* The operations and the bytes, and what the client makes of them.
NatsType == /\ sent \in Seq(ServerOperations) /\ got \in Seq(ServerOperations)
            /\ wire \in Strings /\ buffer \in Strings

NatsInv == NatsType /\ StreamIsDecoded

LEMMA NatsInvInit == NatsInit => NatsInv
  <1> SUFFICES ASSUME NatsInit PROVE NatsInv
    OBVIOUS
  <1> USE DEF NatsInit
  <1>1. <<>> \in Strings /\ <<>> \in Seq(ServerOperations)
    BY DEF Strings
  <1>2. SubSeq(<<>>, Len(<<>>) + 1, Len(<<>>)) = <<>> /\ IsPrefix(<<>>, <<>>)
    BY DEF IsPrefix
  <1>3. <<>> \o <<>> = <<>>
    BY <1>1, JoinedEmpty
  <1> QED
    BY <1>1, <1>2, <1>3, BytesEmpty DEF NatsInv, NatsType, StreamIsDecoded, Remaining

LEMMA NatsInvNext == NatsInv /\ [NatsNext]_vars => NatsInv'
  <1> SUFFICES ASSUME NatsInv, [NatsNext]_vars PROVE NatsInv'
    OBVIOUS
  <1>1. /\ sent \in Seq(ServerOperations) /\ got \in Seq(ServerOperations)
        /\ wire \in Strings /\ buffer \in Strings
        /\ IsPrefix(got, sent) /\ buffer \o wire = Bytes(Remaining)
        /\ rejected => Remaining # <<>> /\ ~Legible(Head(Remaining))
        /\ Remaining = SubSeq(sent, Len(got) + 1, Len(sent))
    BY DEF NatsInv, NatsType, StreamIsDecoded, Remaining
  <1>2. Remaining \in Seq(ServerOperations)
    BY <1>1, RestFacts
  <1>3. ASSUME NEW o \in ServerOperations, ServerSends(o) PROVE NatsInv'
    <2>1. /\ sent' = Append(sent, o) /\ wire' = wire \o ServerEncode(o)
          /\ UNCHANGED <<buffer, got, rejected>>
      BY <1>3 DEF ServerSends
    <2>2. sent' \in Seq(ServerOperations) /\ Len(sent') = Len(sent) + 1
      BY <1>1, <2>1
    <2>3. ServerEncode(o) \in Strings
      BY EncodeType
    <2>4. wire' \in Strings
      BY <1>1, <2>1, <2>3, Joined
    <2>5. IsPrefix(got', sent') /\ Remaining' = Append(Remaining, o)
      <3>1. IsPrefix(got, Append(sent, o)) /\ SubSeq(Append(sent, o), Len(got) + 1, Len(sent) + 1) = Append(Remaining, o)
        <4>1. /\ IsPrefix(got, Append(sent, o))
              /\ SubSeq(Append(sent, o), Len(got) + 1, Len(sent) + 1) =
                     Append(SubSeq(sent, Len(got) + 1, Len(sent)), o)
          BY <1>1, RestAppend
        <4> QED
          BY <1>1, <4>1
      <3> QED
        BY <2>1, <2>2, <3>1 DEF Remaining
    <2>6. buffer' \o wire' = Bytes(Remaining')
      <3>1. (buffer \o wire) \o ServerEncode(o) = buffer \o (wire \o ServerEncode(o))
        BY <1>1, <2>3, JoinedTwice
      <3>2. Bytes(Append(Remaining, o)) = Bytes(Remaining) \o ServerEncode(o)
        BY <1>2, BytesAppend
      <3> QED
        BY <1>1, <2>1, <2>5, <3>1, <3>2
    <2>7. rejected' => Remaining' # <<>> /\ ~Legible(Head(Remaining'))
      <3>1. Remaining # <<>> => Append(Remaining, o) # <<>> /\ Head(Append(Remaining, o)) = Head(Remaining)
        <4> DEFINE q == Remaining
        <4>1. q \in Seq(ServerOperations)
          BY <1>2
        <4> HIDE DEF q
        <4>2. q # <<>> => Append(q, o) # <<>> /\ Head(Append(q, o)) = Head(q)
          BY <4>1
        <4> QED
          BY <4>2 DEF q
      <3> QED
        BY <1>1, <2>1, <2>5, <3>1
    <2> QED
      BY <1>1, <2>1, <2>2, <2>4, <2>5, <2>6, <2>7 DEF NatsInv, NatsType, StreamIsDecoded
  <1>4. CASE Arrive
    <2>1. /\ wire # <<>> /\ buffer' = Append(buffer, Head(wire)) /\ wire' = Tail(wire)
          /\ UNCHANGED <<sent, got, rejected>>
      BY <1>4 DEF Arrive
    <2>2. buffer' \in Strings /\ wire' \in Strings /\ buffer' \o wire' = buffer \o wire
      BY <1>1, <2>1, ByteMoves
    <2>3. Remaining' = Remaining
      BY <2>1 DEF Remaining
    <2> QED
      BY <1>1, <2>1, <2>2, <2>3 DEF NatsInv, NatsType, StreamIsDecoded
  <1>5. CASE Receive
    <2> DEFINE r == Decode(buffer)
    <2>1. /\ r # Incomplete
          /\ rejected' = (r = Failed)
          /\ got' = IF r = Failed THEN got ELSE Append(got, r.value)
          /\ buffer' = IF r = Failed THEN buffer ELSE SubSeq(buffer, r.at, Len(buffer))
          /\ UNCHANGED <<sent, wire>>
      BY <1>5 DEF Receive
    <2> DEFINE o == Head(Remaining)
               e == ServerEncode(o)
               t == Bytes(Tail(Remaining))
    <2>2. Remaining # <<>>
      BY <1>1, <1>2, <2>1, Arrived
    <2>3. Len(buffer) >= Len(e) => r = IF Legible(o) THEN Parsed(Len(e) + 1, o) ELSE Failed
      BY <1>1, <1>2, <2>2, Arrived
    <2>4. Len(buffer) < Len(e) => r = Incomplete \/ (~Legible(o) /\ r = Failed)
      BY <1>1, <1>2, <2>2, Arrived
    <2>5. o \in ServerOperations /\ Bytes(Remaining) = e \o t /\ t \in Strings
      BY <1>2, <2>2, BytesHead, BytesType
    <2>6. e \in Strings /\ Len(e) \in Nat /\ Len(buffer) \in Nat
      <3>1. e \in Strings
        BY <2>5, EncodeType
      <3>2. \A z \in Strings : Len(z) \in Nat
        BY DEF Strings
      <3> QED
        BY <1>1, <3>1, <3>2
    <2>7. IsPrefix(Append(got, o), sent) /\ SubSeq(sent, Len(Append(got, o)) + 1, Len(sent)) = Tail(Remaining)
      BY <1>1, <2>2, RestFacts
    <2>8. (Legible(o) /\ Len(buffer) >= Len(e) /\ r = Parsed(Len(e) + 1, o)) \/ (~Legible(o) /\ r = Failed)
      <3> HIDE DEF r, o, e, t
      <3> QED
        BY <2>1, <2>3, <2>4, <2>6
    <2>9. CASE Legible(o)
      <3> HIDE DEF r, e, t
      <3>1. Len(buffer) >= Len(e) /\ r # Failed /\ r.value = o /\ r.at = Len(e) + 1
        <4> HIDE DEF o
        <4> QED
          BY <2>8, <2>9, Results
      <3>2. ~rejected' /\ got' = Append(got, o) /\ buffer' = SubSeq(buffer, Len(e) + 1, Len(buffer))
            /\ sent' = sent /\ wire' = wire
        BY <2>1, <3>1
      <3>3. buffer' \in Strings /\ buffer' \o wire' = t
        <4> HIDE DEF o
        <4>1. buffer \o wire = e \o t /\ Len(e) <= Len(buffer)
          BY <1>1, <2>5, <2>6, <3>1
        <4>2. /\ SubSeq(buffer, Len(e) + 1, Len(buffer)) \in Strings
              /\ SubSeq(buffer, Len(e) + 1, Len(buffer)) \o wire = t
          BY <1>1, <2>5, <2>6, <4>1, CutOff
        <4> QED
          BY <3>2, <4>2
      <3>4. Remaining' = Tail(Remaining)
        BY <2>7, <3>2 DEF Remaining
      <3>5. got' \in Seq(ServerOperations)
        <4> HIDE DEF o
        <4> QED
          BY <1>1, <2>5, <3>2
      <3>6. buffer' \o wire' = Bytes(Remaining')
        BY <3>3, <3>4 DEF t
      <3> HIDE DEF o
      <3> QED
        BY <1>1, <2>7, <3>2, <3>3, <3>5, <3>6 DEF NatsInv, NatsType, StreamIsDecoded
    <2>10. CASE ~Legible(o)
      <3>1. rejected' /\ UNCHANGED <<sent, wire, got, buffer>>
        <4> HIDE DEF r, o
        <4> QED
          BY <2>1, <2>8, <2>10
      <3>2. Remaining' = Remaining
        BY <3>1 DEF Remaining
      <3> HIDE DEF r, e, t
      <3> QED
        BY <1>1, <2>2, <2>10, <3>1, <3>2 DEF NatsInv, NatsType, StreamIsDecoded
    <2> QED
      BY <2>9, <2>10
  <1>6. ASSUME NEW o \in ClientOperations, ClientSends(o) PROVE NatsInv'
    <2>1. UNCHANGED <<sent, wire, buffer, got, rejected>>
      BY <1>6 DEF ClientSends
    <2> QED
      BY <2>1 DEF NatsInv, NatsType, StreamIsDecoded, Remaining
  <1>7. CASE UNCHANGED vars
    BY <1>7 DEF vars, NatsInv, NatsType, StreamIsDecoded, Remaining
  <1> QED
    BY <1>3, <1>4, <1>5, <1>6, <1>7 DEF NatsNext

\* However the stream of the server is cut into reads, decode returns its
\* operations in order and consumes exactly their bytes, and what it refuses
\* has a field that its parsers do not know, however they come to look at it.
THEOREM OperationsAreDecodedOrRefused == NatsSpec => []StreamIsDecoded
  <1>1. NatsInv => StreamIsDecoded
    BY DEF NatsInv
  <1> QED
    BY <1>1, NatsInvInit, NatsInvNext, PTL DEF NatsSpec

\* Decode never asks for more once the last byte of an operation has arrived:
\* it returns the operation, or refuses it for a field that it does not know.
THEOREM NeverWaitsInVain == NatsSpec => []NoNeedlessWait
  <1>1. NatsInv => NoNeedlessWait
    <2> DEFINE o == Head(Remaining)
               e == ServerEncode(o)
    <2> SUFFICES ASSUME NatsInv, Remaining # <<>>, Len(buffer) >= Len(e)
                 PROVE  Decode(buffer).status = IF Legible(o) THEN "ok" ELSE "error"
      BY DEF NoNeedlessWait
    <2>1. /\ sent \in Seq(ServerOperations) /\ got \in Seq(ServerOperations)
          /\ wire \in Strings /\ buffer \in Strings
          /\ IsPrefix(got, sent) /\ buffer \o wire = Bytes(Remaining)
          /\ Remaining = SubSeq(sent, Len(got) + 1, Len(sent))
      BY DEF NatsInv, NatsType, StreamIsDecoded, Remaining
    <2>2. Remaining \in Seq(ServerOperations)
      BY <2>1, RestFacts
    <2>3. Decode(buffer) = IF Legible(o) THEN Parsed(Len(e) + 1, o) ELSE Failed
      BY <2>1, <2>2, Arrived
    <2> HIDE DEF o, e
    <2> QED
      BY <2>3, Results
  <1> QED
    BY <1>1, NatsInvInit, NatsInvNext, PTL DEF NatsSpec

-----------------------------------------------------------------------------
(* What the server can tell from the bytes of the client. *)

\* The operations of the client, form by form.
LEMMA ClientForms ==
    ASSUME NEW o \in ClientOperations
    PROVE  \/ o = [op |-> "Connect", json |-> o.json] /\ o.json \in Strs
           \/ /\ o = [op |-> "Pub", subject |-> o.subject, reply_to |-> o.reply_to, payload |-> o.payload]
              /\ o.subject \in Strs /\ o.reply_to \in Option(Strs) /\ o.payload \in Payloads
           \/ /\ o = [op |-> "Sub", subject |-> o.subject, queue_group |-> o.queue_group, sid |-> o.sid]
              /\ o.subject \in Strs /\ o.queue_group \in Option(Strs) /\ o.sid \in Numbers
           \/ /\ o = [op |-> "Unsub", sid |-> o.sid, max_messages |-> o.max_messages]
              /\ o.sid \in Numbers /\ o.max_messages \in Option(Numbers)
           \/ o = [op |-> "Ping"] \/ o = [op |-> "Pong"]
  <1>1. CASE o \in [op : {"Connect"}, json : Strs]
    BY <1>1
  <1>2. CASE o \in [op : {"Pub"}, subject : Strs, reply_to : Option(Strs), payload : Payloads]
    BY <1>2
  <1>3. CASE o \in [op : {"Sub"}, subject : Strs, queue_group : Option(Strs), sid : Numbers]
    BY <1>3
  <1>4. CASE o \in [op : {"Unsub"}, sid : Numbers, max_messages : Option(Numbers)]
    BY <1>4
  <1>5. CASE o \in [op : {"Ping", "Pong"}]
    <2>1. o = [op |-> o.op] /\ o.op \in {"Ping", "Pong"}
      BY <1>5
    <2> QED
      BY <2>1
  <1> QED
    BY <1>1, <1>2, <1>3, <1>4, <1>5, ClientOperationsAssumption

LEMMA ClientFields ==
    ASSUME NEW o \in ClientOperations
    PROVE  /\ o.op = "Connect" => o = [op |-> "Connect", json |-> o.json]
           /\ o.op = "Pub" => /\ o = [op |-> "Pub", subject |-> o.subject, reply_to |-> o.reply_to, payload |-> o.payload]
                              /\ o.payload \in Payloads
           /\ o.op = "Sub" => /\ o = [op |-> "Sub", subject |-> o.subject, queue_group |-> o.queue_group, sid |-> o.sid]
                              /\ o.sid \in Numbers
           /\ o.op = "Unsub" => /\ o = [op |-> "Unsub", sid |-> o.sid, max_messages |-> o.max_messages]
                                /\ o.sid \in Numbers /\ o.max_messages \in Option(Numbers)
           /\ o.op \in {"Ping", "Pong"} => o = [op |-> o.op]
  <1> DEFINE A == o = [op |-> "Connect", json |-> o.json]
             B == o = [op |-> "Pub", subject |-> o.subject, reply_to |-> o.reply_to, payload |-> o.payload]
             C == o = [op |-> "Sub", subject |-> o.subject, queue_group |-> o.queue_group, sid |-> o.sid]
             D == o = [op |-> "Unsub", sid |-> o.sid, max_messages |-> o.max_messages]
             E == o = [op |-> "Ping"]
             F == o = [op |-> "Pong"]
  <1>1. A => o.op = "Connect"
    OBVIOUS
  <1>2. B => o.op = "Pub"
    OBVIOUS
  <1>3. C => o.op = "Sub"
    OBVIOUS
  <1>4. D => o.op = "Unsub"
    OBVIOUS
  <1>5. (E => o.op = "Ping") /\ (F => o.op = "Pong")
    OBVIOUS
  <1>6. E \/ F => o = [op |-> o.op]
    BY <1>5
  <1>7. \/ A \/ (B /\ o.payload \in Payloads) \/ (C /\ o.sid \in Numbers)
        \/ (D /\ o.sid \in Numbers /\ o.max_messages \in Option(Numbers)) \/ E \/ F
    BY ClientForms
  <1> HIDE DEF A, B, C, D, E, F
  <1>8. /\ o.op = "Connect" => A
        /\ o.op = "Pub" => B /\ o.payload \in Payloads
        /\ o.op = "Sub" => C /\ o.sid \in Numbers
        /\ o.op = "Unsub" => D /\ o.sid \in Numbers /\ o.max_messages \in Option(Numbers)
        /\ o.op \in {"Ping", "Pong"} => E \/ F
    BY <1>1, <1>2, <1>3, <1>4, <1>5, <1>7
  <1> QED
    BY <1>6, <1>8 DEF A, B, C, D

LEMMA ClientEncodings ==
    ASSUME NEW o
    PROVE  /\ o.op = "Connect" => Encode(o) = (CONNECT \o o.json) \o Newline
           /\ o.op = "Pub" => Encode(o) = ((((PUB \o o.subject) \o Space) \o Optional(o.reply_to))
                                           \o Sized(o.payload)) \o Newline
           /\ o.op = "Sub" => Encode(o) = ((((SUB \o o.subject) \o Space) \o Optional(o.queue_group))
                                           \o Number[o.sid]) \o Newline
           /\ o.op = "Unsub" => Encode(o) =
                  ((UNSUB \o Number[o.sid]) \o Limit(o.max_messages)) \o Newline
           /\ o.op = "Ping" => Encode(o) = PING \o Newline
           /\ o.op = "Pong" => Encode(o) = PONG \o Newline
  <1>1. o.op = "Connect" => Encode(o) = (CONNECT \o o.json) \o Newline
    BY DEF Encode
  <1>2. o.op = "Pub" => Encode(o) = ((((PUB \o o.subject) \o Space) \o Optional(o.reply_to))
                                     \o Sized(o.payload)) \o Newline
    BY DEF Encode
  <1>3. o.op = "Sub" => Encode(o) = ((((SUB \o o.subject) \o Space) \o Optional(o.queue_group))
                                     \o Number[o.sid]) \o Newline
    BY DEF Encode
  <1>4. o.op = "Unsub" => Encode(o) =
            ((UNSUB \o Number[o.sid]) \o Limit(o.max_messages)) \o Newline
    BY DEF Encode
  <1>5. o.op = "Ping" => Encode(o) = PING \o Newline
    BY DEF Encode
  <1>6. o.op = "Pong" => Encode(o) = PONG \o Newline
    BY DEF Encode
  <1> QED
    BY <1>1, <1>2, <1>3, <1>4, <1>5, <1>6

\* A word of bytes that a subject may hold.
Word(s, i) == TakeWhile1(s, i, TokenSymbols)

\* A subject behind a tag, an optional one behind it, and then a number d that
\* ends with the line: the word behind the first subject is the second one when
\* a space follows it, and the number when the line ends there.
LEMMA SubjectsFound ==
    ASSUME NEW s \in Strings, NEW tag \in Strings, Len(tag) = 2, NEW subject \in Subjects, NEW reply \in Option(Subjects),
           NEW d \in Strings \ {<<>>}, \A k \in 1 .. Len(d) : d[k] \in Digits,
           NEW e \in Strings \ {<<>>}, e[1] = "CR",
           Sits(s, 1, (((tag \o subject) \o Space) \o Optional(reply)) \o (d \o e))
    PROVE  /\ Word(s, 3) = Parsed(3 + Len(subject), subject)
           /\ LET i == (3 + Len(subject)) + 1
              IN  /\ reply = None => /\ Word(s, i) = Parsed(i + Len(d), d) /\ s[i + Len(d)] = "CR"
                                     /\ i \in 1 .. Len(s) + 1 /\ Sits(s, i, d \o e)
                  /\ reply # None => LET j == i + Len(reply[1])
                                     IN  /\ Word(s, i) = Parsed(j, reply[1]) /\ s[j] \in Blanks
                                         /\ j + 1 \in 1 .. Len(s) + 1 /\ Sits(s, j + 1, d \o e)
  <1> DEFINE r == Optional(reply)
             z == d \o e
             a == tag \o subject
             b == a \o Space
             c == b \o r
             i == (3 + Len(subject)) + 1
  <1>1. /\ subject \in Strings \ {<<>>} /\ (\A k \in 1 .. Len(subject) : subject[k] \in TokenSymbols) /\ r \in Strings
        /\ Space \in Strings \ {<<>>} /\ Len(Space) = 1 /\ Space[1] \in Blanks /\ Space[1] \notin TokenSymbols
        /\ Len(s) \in Nat
    BY Fields, OptionalIsString, TagStrings, SpaceString, SymbolFacts DEF Strings
  <1>2. Sits(s, 1, c \o z) /\ z \in Strings /\ Len(z) = Len(d) + Len(e)
    BY Joined
  <1> HIDE DEF r, z, a, b, c
  <1>3. a \in Strings /\ Len(a) = Len(tag) + Len(subject)
    BY <1>1, Joined DEF a
  <1>4. b \in Strings /\ Len(b) = Len(a) + Len(Space)
    BY <1>1, <1>3, Joined DEF b
  <1>5. c \in Strings /\ Len(c) = Len(b) + Len(r)
    BY <1>1, <1>4, Joined DEF c
  <1>6. Len(subject) \in Nat /\ Len(r) \in Nat /\ Len(z) \in Nat /\ Len(d) \in Nat \ {0} /\ Len(e) \in Nat \ {0}
    BY <1>1, <1>2 DEF Strings
  <1>7. Sits(s, 1, c) /\ Sits(s, 1 + Len(c), z)
    BY <1>2, <1>5, PartsBehind
  <1>8. Sits(s, 1, b) /\ Sits(s, 1 + Len(b), r)
    BY <1>1, <1>4, <1>7, PartsBehind DEF c
  <1>9. Sits(s, 1, a) /\ Sits(s, 1 + Len(a), Space)
    BY <1>1, <1>3, <1>8, PartsBehind DEF b
  <1>10. Sits(s, 1 + Len(tag), subject)
    BY <1>1, <1>9, PartsBehind DEF a
  <1>11. /\ 1 + Len(tag) = 3 /\ 1 + Len(a) = 3 + Len(subject) /\ 1 + Len(b) = i
         /\ 1 + Len(c) = i + Len(r)
    BY <1>1, <1>3, <1>4, <1>5, <1>6
  <1>12. 3 \in 1 .. Len(s) + 1 /\ i \in 1 .. Len(s) + 1 /\ i \in Nat \ {0}
    <2>1. Len(c) <= Len(s)
      BY <1>1, <1>4, <1>5, <1>6, <1>7, <1>11 DEF Sits
    <2> QED
      BY <1>1, <1>5, <1>6, <1>11, <2>1
  <1>13. Word(s, 3) = Parsed(3 + Len(subject), subject)
    BY <1>1, <1>9, <1>10, <1>11, <1>12, RunFound DEF Word
  <1>14. Sits(s, i, r) /\ Sits(s, i + Len(r), z)
    BY <1>7, <1>8, <1>11
  <1> HIDE DEF i
  <1>15. ASSUME reply = None
         PROVE  Word(s, i) = Parsed(i + Len(d), d) /\ s[i + Len(d)] = "CR" /\ Sits(s, i, z)
    <2>1. r = <<>> /\ Len(r) = 0
      BY <1>15, OptionalIsString DEF r
    <2>2. Sits(s, i, z)
      BY <1>12, <1>14, <2>1
    <2>3. Sits(s, i, d) /\ Sits(s, i + Len(d), e)
      BY <1>12, <2>2, SitsParts DEF z
    <2>4. e[1] \notin TokenSymbols /\ \A k \in 1 .. Len(d) : d[k] \in TokenSymbols
      BY SymbolFacts
    <2>5. Word(s, i) = Parsed(i + Len(d), d)
      BY <1>12, <2>3, <2>4, RunFound DEF Word
    <2>6. 1 \in 1 .. Len(e) /\ (i + Len(d)) + 1 - 1 = i + Len(d)
      BY <1>6, <1>12
    <2>7. s[i + Len(d)] = e[1]
      BY <2>3, <2>6 DEF Sits
    <2> QED
      BY <2>2, <2>5, <2>7
  <1>16. ASSUME reply # None
         PROVE  LET j == i + Len(reply[1])
                IN  /\ Word(s, i) = Parsed(j, reply[1]) /\ s[j] \in Blanks
                    /\ j + 1 \in 1 .. Len(s) + 1 /\ Sits(s, j + 1, z)
    <2>1. PICK v \in Subjects : reply = Some(v)
      BY <1>16, OptionForms
    <2>2. reply[1] = v /\ r = v \o Space
      <3>1. reply[1] = v /\ Optional(reply) = reply[1] \o Space
        BY <1>16, <2>1, OptionForms, OptionalIsString
      <3> QED
        BY <3>1 DEF r
    <2>3. v \in Strings \ {<<>>} /\ (\A k \in 1 .. Len(v) : v[k] \in TokenSymbols)
      BY Fields
    <2>4. Len(v) \in Nat /\ Len(r) = Len(v) + 1
      <3>1. Len(v) \in Nat
        BY <2>3 DEF Strings
      <3>2. Len(v \o Space) = Len(v) + Len(Space)
        BY <1>1, <2>3, Joined
      <3> QED
        BY <1>1, <2>2, <3>1, <3>2
    <2>5. Sits(s, i, v) /\ Sits(s, i + Len(v), Space)
      BY <1>1, <1>12, <1>14, <2>2, <2>3, SitsParts
    <2>6. Word(s, i) = Parsed(i + Len(v), v)
      BY <1>1, <1>12, <2>3, <2>5, RunFound DEF Word
    <2>7. /\ 1 \in 1 .. Len(Space) /\ (i + Len(v)) + 1 - 1 = i + Len(v)
          /\ (i + Len(v)) + 1 = i + Len(r)
      BY <1>1, <1>12, <2>4
    <2>8. s[i + Len(v)] = Space[1]
      BY <2>5, <2>7 DEF Sits
    <2>9. i + Len(r) \in 1 .. Len(s) + 1
      BY <1>1, <1>6, <1>12, <1>14 DEF Sits
    <2> QED
      BY <1>1, <1>14, <2>2, <2>6, <2>7, <2>8, <2>9
  <1> QED
    BY <1>12, <1>13, <1>15, <1>16 DEF z, i

\* The bytes of s begin with such a thing.
Addressed(s, tag, t, p, c, y) ==
    /\ t \in Subjects /\ p \in Option(Subjects)
    /\ c \in Strings \ {<<>>} /\ (\A k \in 1 .. Len(c) : c[k] \in Digits)
    /\ y \in Strings \ {<<>>} /\ y[1] = "CR"
    /\ Sits(s, 1, (((tag \o t) \o Space) \o Optional(p)) \o (c \o y))

\* Two of these in the same bytes are the same, and what follows them begins
\* at the same place.
LEMMA SameSubjects ==
    ASSUME NEW s \in Strings, NEW tag \in Strings, Len(tag) = 2,
           NEW t, NEW p, NEW c, NEW y, Addressed(s, tag, t, p, c, y),
           NEW u, NEW q, NEW d, NEW z, Addressed(s, tag, u, q, d, z)
    PROVE  /\ t = u /\ p = q
           /\ \E j \in 1 .. Len(s) + 1 : Sits(s, j, c \o y) /\ Sits(s, j, d \o z)
  <1> DEFINE i(v) == (3 + Len(v)) + 1
             j(v, w) == i(v) + Len(w[1])
  <1>1. /\ Word(s, 3) = Parsed(3 + Len(t), t)
        /\ p = None => /\ Word(s, i(t)) = Parsed(i(t) + Len(c), c) /\ s[i(t) + Len(c)] = "CR"
                       /\ i(t) \in 1 .. Len(s) + 1 /\ Sits(s, i(t), c \o y)
        /\ p # None => /\ Word(s, i(t)) = Parsed(j(t, p), p[1]) /\ s[j(t, p)] \in Blanks
                       /\ j(t, p) + 1 \in 1 .. Len(s) + 1 /\ Sits(s, j(t, p) + 1, c \o y)
    BY SubjectsFound DEF Addressed
  <1>2. /\ Word(s, 3) = Parsed(3 + Len(u), u)
        /\ q = None => /\ Word(s, i(u)) = Parsed(i(u) + Len(d), d) /\ s[i(u) + Len(d)] = "CR"
                       /\ i(u) \in 1 .. Len(s) + 1 /\ Sits(s, i(u), d \o z)
        /\ q # None => /\ Word(s, i(u)) = Parsed(j(u, q), q[1]) /\ s[j(u, q)] \in Blanks
                       /\ j(u, q) + 1 \in 1 .. Len(s) + 1 /\ Sits(s, j(u, q) + 1, d \o z)
    BY SubjectsFound DEF Addressed
  <1> HIDE DEF i, j
  <1>3. t = u
    BY <1>1, <1>2, Results
  <1>4. i(t) = i(u)
    BY <1>3
  <1>5. "CR" \notin Blanks
    BY SymbolFacts
  <1>6. p = None <=> q = None
    <2>1. ASSUME p = None, q # None PROVE FALSE
      <3>1. i(t) + Len(c) = j(u, q)
        BY <1>1, <1>2, <1>4, <2>1, Results
      <3> QED
        BY <1>1, <1>2, <1>5, <2>1, <3>1
    <2>2. ASSUME p # None, q = None PROVE FALSE
      <3>1. i(u) + Len(d) = j(t, p)
        BY <1>1, <1>2, <1>4, <2>2, Results
      <3> QED
        BY <1>1, <1>2, <1>5, <2>2, <3>1
    <2> QED
      BY <2>1, <2>2
  <1>7. CASE p = None
    BY <1>1, <1>2, <1>3, <1>4, <1>6, <1>7
  <1>8. CASE p # None
    <2>1. p[1] = q[1] /\ j(t, p) = j(u, q)
      BY <1>1, <1>2, <1>4, <1>6, <1>8, Results
    <2>2. p = q
      <3>1. p \in Option(Subjects) /\ q \in Option(Subjects)
        BY DEF Addressed
      <3>2. p = Some(p[1]) /\ q = Some(q[1])
        BY <1>6, <1>8, <3>1, OptionForms
      <3> QED
        BY <2>1, <3>2
    <2> QED
      BY <1>1, <1>2, <1>3, <1>6, <1>8, <2>1, <2>2
  <1> QED
    BY <1>7, <1>8

\* A number, and the symbol that ends it.
LEMMA SameNumber ==
    ASSUME NEW s \in Strings, NEW i \in 1 .. Len(s) + 1, NEW n \in Numbers, NEW m \in Numbers,
           NEW y \in Strings \ {<<>>}, y[1] \notin Digits, NEW z \in Strings \ {<<>>}, z[1] \notin Digits,
           Sits(s, i, Number[n] \o y), Sits(s, i, Number[m] \o z)
    PROVE  /\ n = m /\ y[1] = z[1]
           /\ i + Len(Number[n]) \in 1 .. Len(s) + 1
           /\ Sits(s, i + Len(Number[n]), y) /\ Sits(s, i + Len(Number[n]), z)
  <1>1. Number[n] \in Strings /\ Number[m] \in Strings
    BY Fields
  <1>2. i \in Nat \ {0} /\ y \in Strings /\ z \in Strings
    OBVIOUS
  <1>3. Sits(s, i, Number[n]) /\ Sits(s, i + Len(Number[n]), y)
    BY <1>1, <1>2, SitsParts
  <1>4. Sits(s, i, Number[m]) /\ Sits(s, i + Len(Number[m]), z)
    BY <1>1, <1>2, SitsParts
  <1>5. U64(s, i) = Parsed(i + Len(Number[n]), n) /\ i + Len(Number[n]) \in 1 .. Len(s) + 1
    BY <1>3, NumberFound
  <1>6. U64(s, i) = Parsed(i + Len(Number[m]), m)
    BY <1>4, NumberFound
  <1>7. n = m
    BY <1>5, <1>6, Results
  <1>8. y[1] = z[1]
    <2> DEFINE k == i + Len(Number[n])
    <2>1. Sits(s, k, y) /\ Sits(s, k, z) /\ k \in Nat
      BY <1>3, <1>4, <1>5, <1>7
    <2> HIDE DEF k
    <2>2. 1 \in 1 .. Len(y) /\ 1 \in 1 .. Len(z)
      BY DEF Strings
    <2> QED
      BY <2>1, <2>2 DEF Sits
  <1> QED
    BY <1>3, <1>4, <1>5, <1>7, <1>8

\* The texts of operations, their tags and what ends a number.
LEMMA ClientPieces ==
    /\ Newline \in Strings \ {<<>>} /\ Newline[1] = "CR" /\ Newline[1] \notin Digits
    /\ Newline[1] \notin TextSymbols
    /\ \A n \in Numbers : /\ Space \o Number[n] \in Strings \ {<<>>}
                          /\ (Space \o Number[n])[1] \notin Digits
                          /\ (Space \o Number[n])[1] # Newline[1]
                          /\ Number[n] \in Strings /\ Number[n] \o Newline \in Strings \ {<<>>}
                          /\ (Number[n] \o Newline)[1] \in Digits
  <1>1. /\ Newline \in Strings \ {<<>>} /\ Len(Newline) = 2 /\ Newline[1] = "CR" /\ Newline[1] \notin Digits
        /\ Newline[1] \notin TextSymbols
        /\ Space \in Strings /\ Len(Space) = 1 /\ Space[1] \notin Digits /\ Space[1] # "CR"
    BY TagStrings, SymbolFacts
  <1>2. ASSUME NEW n \in Numbers
        PROVE  /\ Space \o Number[n] \in Strings \ {<<>>}
               /\ (Space \o Number[n])[1] \notin Digits
               /\ (Space \o Number[n])[1] # Newline[1]
               /\ Number[n] \in Strings /\ Number[n] \o Newline \in Strings \ {<<>>}
               /\ (Number[n] \o Newline)[1] \in Digits
    <2> DEFINE d == Number[n]
               a == Space \o d
               b == d \o Newline
    <2>1. d \in Strings \ {<<>>} /\ d[1] \in Digits
      BY Fields
    <2> HIDE DEF d
    <2>2. Len(d) \in Nat \ {0}
      BY <2>1 DEF Strings
    <2>3. a \in Strings /\ Len(a) = Len(Space) + Len(d) /\ \A k \in 1 .. Len(Space) : a[k] = Space[k]
      BY <1>1, <2>1, Joined
    <2>4. b \in Strings /\ Len(b) = Len(d) + Len(Newline) /\ \A k \in 1 .. Len(d) : b[k] = d[k]
      BY <1>1, <2>1, Joined
    <2> HIDE DEF a, b
    <2>5. a[1] = Space[1] /\ b[1] = d[1] /\ Len(a) # 0 /\ Len(b) # 0
      BY <1>1, <2>2, <2>3, <2>4
    <2>6. a # <<>> /\ b # <<>>
      BY <2>5
    <2> QED
      BY <1>1, <2>1, <2>3, <2>4, <2>5, <2>6 DEF a, b, d
  <1> QED
    BY <1>1, <1>2

\* Two operations of one form that begin the same bytes are the same.
LEMMA AddressIsString ==
    ASSUME NEW tag \in Strings, NEW t \in Strs \cup Subjects, NEW p \in Option(Strs) \cup Option(Subjects)
    PROVE  ((tag \o t) \o Space) \o Optional(p) \in Strings
  <1>1. t \in Strings /\ Space \in Strings /\ Optional(p) \in Strings
    BY Fields, OptionalIsString, TagStrings
  <1>2. tag \o t \in Strings
    BY <1>1, Joined
  <1>3. (tag \o t) \o Space \in Strings
    BY <1>1, <1>2, Joined
  <1> QED
    BY <1>1, <1>3, Joined

LEMMA SameConnect ==
    ASSUME NEW s \in Strings, NEW t \in Texts, NEW u \in Texts,
           Sits(s, 1, (CONNECT \o t) \o Newline), Sits(s, 1, (CONNECT \o u) \o Newline)
    PROVE  t = u
  <1>1. ASSUME NEW v \in Texts, Sits(s, 1, (CONNECT \o v) \o Newline)
        PROVE  TakeWhile1(s, 3, TextSymbols) = Parsed(3 + Len(v), v)
    <2> DEFINE a == CONNECT \o v
    <2>1. /\ CONNECT \in Strings /\ Len(CONNECT) = 2 /\ Len(s) \in Nat
          /\ v \in Strings \ {<<>>} /\ Len(v) \in Nat /\ \A k \in 1 .. Len(v) : v[k] \in TextSymbols
          /\ Newline \in Strings \ {<<>>} /\ Newline[1] \notin TextSymbols
      BY Fields, TagStrings, ClientPieces DEF Strings
    <2>2. a \in Strings /\ Len(a) = Len(CONNECT) + Len(v) /\ Sits(s, 1, a \o Newline)
      BY <1>1, <2>1, Joined
    <2> HIDE DEF a
    <2>3. Sits(s, 1, a) /\ Sits(s, 1 + Len(a), Newline)
      BY <2>1, <2>2, PartsBehind
    <2>4. Sits(s, 1 + Len(CONNECT), v)
      BY <2>1, <2>3, PartsBehind DEF a
    <2>5. 1 + Len(CONNECT) = 3 /\ 1 + Len(a) = 3 + Len(v) /\ 3 \in 1 .. Len(s) + 1
      <3>1. Len(a) <= Len(s)
        BY <2>1, <2>2, <2>3 DEF Sits
      <3> QED
        BY <2>1, <2>2, <3>1
    <2> QED
      BY <2>1, <2>3, <2>4, <2>5, RunFound
  <1>2. Parsed(3 + Len(t), t) = Parsed(3 + Len(u), u)
    BY <1>1
  <1> QED
    BY <1>2, Results

LEMMA SamePub ==
    ASSUME NEW s \in Strings,
           NEW t \in Subjects, NEW p \in Option(Subjects), NEW x \in Payloads,
           NEW u \in Subjects, NEW q \in Option(Subjects), NEW y \in Payloads,
           Sits(s, 1, ((((PUB \o t) \o Space) \o Optional(p)) \o Sized(x)) \o Newline),
           Sits(s, 1, ((((PUB \o u) \o Space) \o Optional(q)) \o Sized(y)) \o Newline)
    PROVE  t = u /\ p = q /\ x = y
  <1>1. PUB \in Strings /\ Len(PUB) = 2 /\ Newline \in Strings
    BY TagStrings
  <1>2. ASSUME NEW v \in Subjects, NEW r \in Option(Subjects), NEW z \in Payloads,
               Sits(s, 1, ((((PUB \o v) \o Space) \o Optional(r)) \o Sized(z)) \o Newline)
        PROVE  Sits(s, 1, (((PUB \o v) \o Space) \o Optional(r)) \o Sized(z))
    <2> DEFINE a == ((PUB \o v) \o Space) \o Optional(r)
               m == a \o Sized(z)
    <2>1. a \in Strings /\ Sized(z) \in Strings
      BY <1>1, AddressIsString, SizedIsString
    <2>2. Sits(s, 1, m \o Newline)
      BY <1>2
    <2> HIDE DEF a
    <2>3. m \in Strings
      BY <2>1, Joined
    <2> HIDE DEF m
    <2>4. Sits(s, 1, m)
      BY <1>1, <2>2, <2>3, PartsBehind
    <2> QED
      BY <2>4 DEF a, m
  <1>3. /\ Sits(s, 1, (((PUB \o t) \o Space) \o Optional(p)) \o Sized(x))
        /\ Sits(s, 1, (((PUB \o u) \o Space) \o Optional(q)) \o Sized(y))
    BY <1>2
  <1>4. ASSUME NEW h \in Payloads
        PROVE  /\ Sized(h) = Number[Len(h)] \o (Newline \o h)
               /\ Number[Len(h)] \in Strings \ {<<>>} /\ \A k \in 1 .. Len(Number[Len(h)]) : Number[Len(h)][k] \in Digits
               /\ Newline \o h \in Strings \ {<<>>} /\ (Newline \o h)[1] = "CR"
    <2> DEFINE n == Number[Len(h)]
    <2>1. /\ n \in Strings \ {<<>>} /\ (\A k \in 1 .. Len(n) : n[k] \in Digits) /\ h \in Strings
          /\ Newline \in Strings /\ Len(Newline) = 2 /\ Newline[1] = "CR"
      BY Fields, TagStrings
    <2>2. Sized(h) = (n \o Newline) \o h
      BY DEF Sized
    <2> HIDE DEF n
    <2>3. (n \o Newline) \o h = n \o (Newline \o h)
      BY <2>1, JoinedTwice
    <2>4. Newline \o h \in Strings \ {<<>>} /\ (Newline \o h)[1] = "CR"
      <3>1. /\ Newline \o h \in Strings /\ Len(Newline \o h) = Len(Newline) + Len(h)
            /\ \A k \in 1 .. Len(Newline) : (Newline \o h)[k] = Newline[k]
        BY <2>1, Joined
      <3>2. Len(Newline \o h) # 0 /\ 1 \in 1 .. Len(Newline)
        BY <2>1, <3>1 DEF Strings
      <3>3. Newline \o h # <<>>
        BY <3>2
      <3> QED
        BY <2>1, <3>1, <3>2, <3>3
    <2> QED
      BY <2>1, <2>2, <2>3, <2>4 DEF n
  <1>5. t = u /\ p = q /\ \E j \in 1 .. Len(s) + 1 : Sits(s, j, Sized(x)) /\ Sits(s, j, Sized(y))
    <2> DEFINE c == Number[Len(x)]
               d == Number[Len(y)]
               e == Newline \o x
               f == Newline \o y
    <2>1. /\ Sized(x) = c \o e /\ c \in Strings \ {<<>>} /\ (\A k \in 1 .. Len(c) : c[k] \in Digits)
          /\ e \in Strings \ {<<>>} /\ e[1] = "CR"
          /\ Sized(y) = d \o f /\ d \in Strings \ {<<>>} /\ (\A k \in 1 .. Len(d) : d[k] \in Digits)
          /\ f \in Strings \ {<<>>} /\ f[1] = "CR"
      BY <1>4
    <2> HIDE DEF c, d, e, f
    <2>2. /\ Sits(s, 1, (((PUB \o t) \o Space) \o Optional(p)) \o (c \o e))
          /\ Sits(s, 1, (((PUB \o u) \o Space) \o Optional(q)) \o (d \o f))
      BY <1>3, <2>1
    <2>3. t = u /\ p = q /\ \E j \in 1 .. Len(s) + 1 : Sits(s, j, c \o e) /\ Sits(s, j, d \o f)
      <3>1. Addressed(s, PUB, t, p, c, e) /\ Addressed(s, PUB, u, q, d, f)
        BY <2>1, <2>2 DEF Addressed
      <3> QED
        BY <1>1, <3>1, SameSubjects
    <2> QED
      BY <2>1, <2>3
  <1>6. PICK j \in 1 .. Len(s) + 1 : Sits(s, j, Sized(x)) /\ Sits(s, j, Sized(y))
    BY <1>5
  <1>7. ParsePayload(s, j) = Parsed(j + Len(Sized(x)), x) /\ ParsePayload(s, j) = Parsed(j + Len(Sized(y)), y)
    BY <1>6, PayloadFound
  <1>8. x = y
    BY <1>7, Results
  <1> QED
    BY <1>5, <1>8

LEMMA SameSub ==
    ASSUME NEW s \in Strings,
           NEW t \in Subjects, NEW p \in Option(Subjects), NEW n \in Numbers,
           NEW u \in Subjects, NEW q \in Option(Subjects), NEW m \in Numbers,
           Sits(s, 1, ((((SUB \o t) \o Space) \o Optional(p)) \o Number[n]) \o Newline),
           Sits(s, 1, ((((SUB \o u) \o Space) \o Optional(q)) \o Number[m]) \o Newline)
    PROVE  t = u /\ p = q /\ n = m
  <1>1. /\ SUB \in Strings /\ Len(SUB) = 2
        /\ Newline \in Strings \ {<<>>} /\ Newline[1] \notin Digits
        /\ \A k \in Numbers : /\ Number[k] \in Strings /\ Number[k] \o Newline \in Strings \ {<<>>}
                              /\ (Number[k] \o Newline)[1] \in Digits
    BY TagStrings, ClientPieces
  <1>2. ASSUME NEW v \in Subjects, NEW r \in Option(Subjects), NEW k \in Numbers,
               Sits(s, 1, ((((SUB \o v) \o Space) \o Optional(r)) \o Number[k]) \o Newline)
        PROVE  Sits(s, 1, (((SUB \o v) \o Space) \o Optional(r)) \o (Number[k] \o Newline))
    <2> DEFINE a == ((SUB \o v) \o Space) \o Optional(r)
    <2>1. a \in Strings /\ Number[k] \in Strings /\ Newline \in Strings
      BY <1>1, AddressIsString
    <2>2. Sits(s, 1, (a \o Number[k]) \o Newline)
      BY <1>2
    <2> HIDE DEF a
    <2>3. (a \o Number[k]) \o Newline = a \o (Number[k] \o Newline)
      BY <2>1, JoinedTwice
    <2>4. Sits(s, 1, a \o (Number[k] \o Newline))
      BY <2>2, <2>3
    <2> QED
      BY <2>4 DEF a
  <1>3. /\ Sits(s, 1, (((SUB \o t) \o Space) \o Optional(p)) \o (Number[n] \o Newline))
        /\ Sits(s, 1, (((SUB \o u) \o Space) \o Optional(q)) \o (Number[m] \o Newline))
    BY <1>2
  <1>4. t = u /\ p = q /\ \E j \in 1 .. Len(s) + 1 : Sits(s, j, Number[n] \o Newline) /\ Sits(s, j, Number[m] \o Newline)
    <2> DEFINE c == Number[n]
               d == Number[m]
    <2>1. /\ c \in Strings \ {<<>>} /\ (\A k \in 1 .. Len(c) : c[k] \in Digits)
          /\ d \in Strings \ {<<>>} /\ (\A k \in 1 .. Len(d) : d[k] \in Digits)
          /\ Newline[1] = "CR"
      BY Fields, TagStrings
    <2>2. /\ Sits(s, 1, (((SUB \o t) \o Space) \o Optional(p)) \o (c \o Newline))
          /\ Sits(s, 1, (((SUB \o u) \o Space) \o Optional(q)) \o (d \o Newline))
      BY <1>3
    <2> HIDE DEF c, d
    <2>3. t = u /\ p = q /\ \E j \in 1 .. Len(s) + 1 : Sits(s, j, c \o Newline) /\ Sits(s, j, d \o Newline)
      <3>1. Addressed(s, SUB, t, p, c, Newline) /\ Addressed(s, SUB, u, q, d, Newline)
        BY <1>1, <2>1, <2>2 DEF Addressed
      <3> QED
        BY <1>1, <3>1, SameSubjects
    <2> QED
      BY <2>3 DEF c, d
  <1>5. PICK j \in 1 .. Len(s) + 1 : Sits(s, j, Number[n] \o Newline) /\ Sits(s, j, Number[m] \o Newline)
    BY <1>4
  <1>6. n = m
    BY <1>1, <1>5, SameNumber
  <1> QED
    BY <1>4, <1>6

\* The end of an Unsub: the number of messages, if there is one, and the newline.
UnsubEnd(k) == Limit(k) \o Newline

LEMMA UnsubEndFacts ==
    ASSUME NEW k \in Option(Numbers)
    PROVE  /\ Limit(k) \in Strings
           /\ UnsubEnd(k) \in Strings \ {<<>>} /\ UnsubEnd(k)[1] \notin Digits
           /\ k = None => UnsubEnd(k)[1] = "CR"
           /\ k # None => /\ k[1] \in Numbers /\ k = Some(k[1]) /\ UnsubEnd(k)[1] # "CR"
                          /\ UnsubEnd(k) = Space \o (Number[k[1]] \o Newline)
  <1>1. /\ Newline \in Strings \ {<<>>} /\ Newline[1] = "CR" /\ Newline[1] \notin Digits /\ Space \in Strings
    BY ClientPieces, TagStrings
  <1>2. CASE k = None
    <2>1. Limit(k) = <<>>
      BY <1>2 DEF Limit
    <2>2. UnsubEnd(k) = Newline /\ Limit(k) \in Strings
      BY <1>1, <2>1, JoinedEmpty DEF UnsubEnd
    <2> QED
      BY <1>1, <1>2, <2>2
  <1>3. CASE k # None
    <2>1. PICK h \in Numbers : k = Some(h)
      BY <1>3, OptionForms
    <2>2. k[1] = h /\ Limit(k) = Space \o Number[h]
      <3>1. k[1] = h
        BY <2>1, OptionForms
      <3> QED
        BY <1>3, <3>1 DEF Limit
    <2>3. /\ Space \o Number[h] \in Strings \ {<<>>} /\ (Space \o Number[h])[1] \notin Digits
          /\ (Space \o Number[h])[1] # "CR" /\ Number[h] \in Strings
      BY <1>1, ClientPieces
    <2> DEFINE a == Space \o Number[h]
    <2>4. UnsubEnd(k) = a \o Newline
      BY <2>2 DEF UnsubEnd
    <2>5. a \o Newline = Space \o (Number[h] \o Newline)
      BY <1>1, <2>3, JoinedTwice
    <2>6. a \in Strings \ {<<>>} /\ a[1] \notin Digits /\ a[1] # "CR" /\ Limit(k) \in Strings
      BY <2>2, <2>3
    <2> HIDE DEF a
    <2>7. /\ a \o Newline \in Strings /\ Len(a \o Newline) = Len(a) + Len(Newline)
          /\ \A i \in 1 .. Len(a) : (a \o Newline)[i] = a[i]
      BY <1>1, <2>6, Joined
    <2>8. 1 \in 1 .. Len(a) /\ Len(a \o Newline) # 0
      BY <1>1, <2>6, <2>7 DEF Strings
    <2>9. a \o Newline # <<>> /\ (a \o Newline)[1] = a[1]
      BY <2>7, <2>8
    <2> QED
      BY <1>3, <2>1, <2>2, <2>4, <2>5, <2>6, <2>7, <2>9
  <1> QED
    BY <1>2, <1>3

LEMMA SameUnsub ==
    ASSUME NEW s \in Strings, NEW n \in Numbers, NEW k \in Option(Numbers), NEW m \in Numbers, NEW l \in Option(Numbers),
           Sits(s, 1, ((UNSUB \o Number[n]) \o Limit(k)) \o Newline),
           Sits(s, 1, ((UNSUB \o Number[m]) \o Limit(l)) \o Newline)
    PROVE  n = m /\ k = l
  <1>1. /\ UNSUB \in Strings /\ Len(UNSUB) = 2 /\ Space \in Strings /\ Len(Space) = 1
        /\ Newline \in Strings \ {<<>>} /\ Newline[1] \notin Digits /\ Len(s) \in Nat
        /\ \A i \in Numbers : /\ Number[i] \in Strings /\ Number[i] \o Newline \in Strings
                              /\ Space \o Number[i] \in Strings
    BY TagStrings, ClientPieces DEF Strings
  <1>2. ASSUME NEW i \in Numbers, NEW h \in Option(Numbers),
               Sits(s, 1, ((UNSUB \o Number[i]) \o Limit(h)) \o Newline)
        PROVE  Sits(s, 3, Number[i] \o UnsubEnd(h))
    <2> DEFINE d == Number[i]
               u == Limit(h)
               a == UNSUB \o d
    <2>1. d \in Strings /\ u \in Strings
      BY <1>1, UnsubEndFacts
    <2>2. Sits(s, 1, (a \o u) \o Newline)
      BY <1>2
    <2>3. UnsubEnd(h) = u \o Newline
      BY DEF UnsubEnd
    <2> HIDE DEF d, u
    <2>4. a \in Strings
      BY <1>1, <2>1, Joined
    <2>5. a \o UnsubEnd(h) = UNSUB \o (d \o UnsubEnd(h)) /\ d \o UnsubEnd(h) \in Strings
      <3>1. UnsubEnd(h) \in Strings /\ UNSUB \in Strings
        BY <1>1, UnsubEndFacts
      <3>2. d \o UnsubEnd(h) \in Strings
        BY <2>1, <3>1, Joined
      <3>3. (UNSUB \o d) \o UnsubEnd(h) = UNSUB \o (d \o UnsubEnd(h))
        BY <2>1, <3>1, JoinedTwice
      <3> QED
        BY <3>2, <3>3
    <2> HIDE DEF a
    <2>6. (a \o u) \o Newline = a \o UnsubEnd(h)
      <3>1. Newline \in Strings
        BY <1>1
      <3>2. (a \o u) \o Newline = a \o (u \o Newline)
        BY <2>1, <2>4, <3>1, JoinedTwice
      <3> QED
        BY <2>3, <3>2
    <2>7. Sits(s, 1, UNSUB \o (d \o UnsubEnd(h)))
      BY <2>2, <2>5, <2>6
    <2>8. Sits(s, 1 + Len(UNSUB), d \o UnsubEnd(h))
      BY <1>1, <2>5, <2>7, PartsBehind
    <2>9. 1 + Len(UNSUB) = 3
      BY <1>1
    <2> QED
      BY <2>8, <2>9 DEF d
  <1>3. Sits(s, 3, Number[n] \o UnsubEnd(k)) /\ Sits(s, 3, Number[m] \o UnsubEnd(l))
    BY <1>2
  <1>4. /\ UnsubEnd(k) \in Strings \ {<<>>} /\ UnsubEnd(k)[1] \notin Digits
        /\ UnsubEnd(l) \in Strings \ {<<>>} /\ UnsubEnd(l)[1] \notin Digits
    BY UnsubEndFacts
  <1>5. 3 \in 1 .. Len(s) + 1
    <2>1. Len(Number[n] \o UnsubEnd(k)) \in Nat
      <3>1. Number[n] \o UnsubEnd(k) \in Strings
        BY <1>1, <1>4, Joined
      <3> QED
        BY <3>1 DEF Strings
    <2>2. 3 + Len(Number[n] \o UnsubEnd(k)) - 1 <= Len(s)
      BY <1>3 DEF Sits
    <2> QED
      BY <1>1, <2>1, <2>2
  <1> DEFINE j == 3 + Len(Number[n])
  <1>6. /\ n = m /\ UnsubEnd(k)[1] = UnsubEnd(l)[1] /\ j \in 1 .. Len(s) + 1
        /\ Sits(s, j, UnsubEnd(k)) /\ Sits(s, j, UnsubEnd(l))
    BY <1>3, <1>4, <1>5, SameNumber
  <1> HIDE DEF j
  <1>7. ASSUME k # None, l # None PROVE k = l
    <2> DEFINE f == k[1]
               g == l[1]
    <2>1. /\ UnsubEnd(k) = Space \o (Number[f] \o Newline) /\ f \in Numbers /\ k = Some(f)
          /\ UnsubEnd(l) = Space \o (Number[g] \o Newline) /\ g \in Numbers /\ l = Some(g)
      BY <1>7, UnsubEndFacts
    <2> HIDE DEF f, g
    <2>2. j \in Nat \ {0} /\ Number[f] \o Newline \in Strings /\ Number[g] \o Newline \in Strings
      BY <1>1, <1>6, <2>1
    <2>3. Sits(s, j, Space \o (Number[f] \o Newline)) /\ Sits(s, j, Space \o (Number[g] \o Newline))
      BY <1>6, <2>1
    <2>4. Sits(s, j, Space) /\ Sits(s, j + Len(Space), Number[f] \o Newline)
      BY <1>1, <2>2, <2>3, SitsParts
    <2>5. Sits(s, j + Len(Space), Number[g] \o Newline)
      BY <1>1, <2>2, <2>3, SitsParts
    <2>6. j + Len(Space) \in 1 .. Len(s) + 1
      BY <1>1, <2>2, <2>4 DEF Sits
    <2>7. f = g
      BY <1>1, <2>1, <2>4, <2>5, <2>6, SameNumber
    <2> QED
      BY <2>1, <2>7
  <1> QED
    BY <1>6, <1>7, UnsubEndFacts

\* Bytes that begin with a tag.
Opens(tag, e) == e \in Strings /\ Len(e) >= 2 /\ e[1] = tag[1] /\ e[2] = tag[2]

LEMMA OpensOn ==
    ASSUME NEW tag, NEW e, Opens(tag, e), NEW b \in Strings
    PROVE  Opens(tag, e \o b)
  <1>1. e \in Strings /\ Len(e) \in Nat /\ Len(e) >= 2 /\ e[1] = tag[1] /\ e[2] = tag[2] /\ Len(b) \in Nat
    BY DEF Opens, Strings
  <1>2. /\ e \o b \in Strings /\ Len(e \o b) = Len(e) + Len(b)
        /\ \A k \in 1 .. Len(e) : (e \o b)[k] = e[k]
    BY <1>1, Joined
  <1>3. 1 \in 1 .. Len(e) /\ 2 \in 1 .. Len(e) /\ Len(e \o b) >= 2
    BY <1>1, <1>2
  <1> QED
    BY <1>1, <1>2, <1>3 DEF Opens

LEMMA OpensThere ==
    ASSUME NEW tag, NEW e, Opens(tag, e), NEW s, Sits(s, 1, e)
    PROVE  s[1] = tag[1] /\ s[2] = tag[2]
  <1>1. 1 \in 1 .. Len(e) /\ 2 \in 1 .. Len(e) /\ 1 + 1 - 1 = 1 /\ 1 + 2 - 1 = 2
    BY DEF Opens, Strings
  <1> QED
    BY <1>1 DEF Opens, Sits

LEMMA Opening ==
    ASSUME NEW o \in ClientOperations
    PROVE  /\ Encode(o) \in Strings
           /\ o.op = "Connect" => Opens(CONNECT, Encode(o))
           /\ o.op = "Pub" => Opens(PUB, Encode(o))
           /\ o.op = "Sub" => Opens(SUB, Encode(o))
           /\ o.op = "Unsub" => Opens(UNSUB, Encode(o))
           /\ o.op = "Ping" => Opens(PING, Encode(o))
           /\ o.op = "Pong" => Opens(PONG, Encode(o))
           /\ o.op \in {"Connect", "Pub", "Sub", "Unsub", "Ping", "Pong"}
  <1>1. Newline \in Strings /\ Space \in Strings
    BY TagStrings
  <1>2. Opens(CONNECT, CONNECT) /\ Opens(PUB, PUB) /\ Opens(SUB, SUB) /\ Opens(UNSUB, UNSUB)
        /\ Opens(PING, PING) /\ Opens(PONG, PONG)
    BY TagStrings DEF Opens
  <1>3. ASSUME o.op = "Connect", o.json \in Strs PROVE Opens(CONNECT, Encode(o))
    <2>1. o.json \in Strings
      BY <1>3, Fields
    <2>2. Opens(CONNECT, CONNECT \o o.json)
      BY <1>2, <2>1, OpensOn
    <2>3. Opens(CONNECT, (CONNECT \o o.json) \o Newline)
      BY <1>1, <2>2, OpensOn
    <2> QED
      BY <1>3, <2>3, ClientEncodings
  <1>4. ASSUME NEW tag \in Strings, Opens(tag, tag), NEW t \in Strs, NEW p \in Option(Strs), NEW z \in Strings
        PROVE  Opens(tag, ((((tag \o t) \o Space) \o Optional(p)) \o z) \o Newline)
    <2> DEFINE a == tag \o t
               b == a \o Space
               c == b \o Optional(p)
               d == c \o z
    <2>1. t \in Strings /\ Optional(p) \in Strings
      BY Fields, OptionalIsString
    <2>2. Opens(tag, a)
      BY <1>4, <2>1, OpensOn
    <2> HIDE DEF a
    <2>3. Opens(tag, b)
      BY <1>1, <2>2, OpensOn
    <2> HIDE DEF b
    <2>4. Opens(tag, c)
      BY <2>1, <2>3, OpensOn
    <2> HIDE DEF c
    <2>5. Opens(tag, d)
      BY <1>4, <2>4, OpensOn
    <2> HIDE DEF d
    <2>6. Opens(tag, d \o Newline)
      BY <1>1, <2>5, OpensOn
    <2> QED
      BY <2>6 DEF a, b, c, d
  <1>5. ASSUME o.op = "Pub", o.subject \in Strs, o.reply_to \in Option(Strs), o.payload \in Payloads
        PROVE  Opens(PUB, Encode(o))
    <2>1. PUB \in Strings /\ Sized(o.payload) \in Strings
      BY <1>5, TagStrings, SizedIsString
    <2>2. Opens(PUB, ((((PUB \o o.subject) \o Space) \o Optional(o.reply_to)) \o Sized(o.payload)) \o Newline)
      BY <1>2, <1>4, <1>5, <2>1
    <2> QED
      BY <1>5, <2>2, ClientEncodings
  <1>6. ASSUME o.op = "Sub", o.subject \in Strs, o.queue_group \in Option(Strs), o.sid \in Numbers
        PROVE  Opens(SUB, Encode(o))
    <2>1. SUB \in Strings /\ Number[o.sid] \in Strings
      BY <1>6, TagStrings, Fields
    <2>2. Opens(SUB, ((((SUB \o o.subject) \o Space) \o Optional(o.queue_group)) \o Number[o.sid]) \o Newline)
      BY <1>2, <1>4, <1>6, <2>1
    <2> QED
      BY <1>6, <2>2, ClientEncodings
  <1>7. ASSUME o.op = "Unsub", o.sid \in Numbers, o.max_messages \in Option(Numbers) PROVE Opens(UNSUB, Encode(o))
    <2> DEFINE u == Limit(o.max_messages)
               a == UNSUB \o Number[o.sid]
    <2>1. Number[o.sid] \in Strings
      BY <1>7, Fields
    <2>2. u \in Strings
      BY <1>7, UnsubEndFacts
    <2>3. Encode(o) = (a \o u) \o Newline
      BY <1>7, ClientEncodings
    <2>4. Opens(UNSUB, a)
      BY <1>2, <2>1, OpensOn
    <2> HIDE DEF a, u
    <2>5. Opens(UNSUB, a \o u)
      BY <2>2, <2>4, OpensOn
    <2>6. Opens(UNSUB, (a \o u) \o Newline)
      BY <1>1, <2>5, OpensOn
    <2> QED
      BY <2>3, <2>6
  <1>8. o.op = "Ping" => Opens(PING, Encode(o))
    BY <1>1, <1>2, OpensOn, ClientEncodings
  <1>9. o.op = "Pong" => Opens(PONG, Encode(o))
    BY <1>1, <1>2, OpensOn, ClientEncodings
  <1>10. \A tag : Opens(tag, Encode(o)) => Encode(o) \in Strings
    BY DEF Opens
  <1> QED
    BY <1>3, <1>5, <1>6, <1>7, <1>8, <1>9, <1>10, ClientForms

\* Operations whose encodings begin the same bytes are of one form.
LEMMA SameForm ==
    ASSUME NEW o \in ClientOperations, NEW w \in ClientOperations, NEW s \in Strings,
           Sits(s, 1, Encode(o)), Sits(s, 1, Encode(w))
    PROVE  o.op = w.op
  <1> DEFINE Seen(v) == /\ v.op = "Connect" => s[1] = "CONNECT"
                        /\ v.op = "Pub" => s[1] = "PUB"
                        /\ v.op = "Sub" => s[1] = "SUB"
                        /\ v.op = "Unsub" => s[1] = "UNSUB"
                        /\ v.op = "Ping" => s[1] = "P" /\ s[2] = "ING"
                        /\ v.op = "Pong" => s[1] = "P" /\ s[2] = "ONG"
                        /\ v.op \in {"Connect", "Pub", "Sub", "Unsub", "Ping", "Pong"}
  <1>1. ASSUME NEW v \in ClientOperations, Sits(s, 1, Encode(v)) PROVE Seen(v)
    <2>1. \A tag : Opens(tag, Encode(v)) => s[1] = tag[1] /\ s[2] = tag[2]
      BY <1>1, OpensThere
    <2>2. /\ CONNECT[1] = "CONNECT" /\ PUB[1] = "PUB" /\ SUB[1] = "SUB" /\ UNSUB[1] = "UNSUB"
          /\ PING[1] = "P" /\ PING[2] = "ING" /\ PONG[1] = "P" /\ PONG[2] = "ONG"
      BY TagStrings
    <2> QED
      BY <2>1, <2>2, Opening
  <1>2. Seen(o) /\ Seen(w)
    BY <1>1
  <1> QED
    BY <1>2

\* No two well-formed operations of the client have encodings that begin the same bytes.
LEMMA OneOperation ==
    ASSUME NEW o \in ClientOperations, NEW w \in ClientOperations, NEW s \in Strings,
           WellFormed(o), WellFormed(w), Sits(s, 1, Encode(o)), Sits(s, 1, Encode(w))
    PROVE  o = w
  <1>1. o.op = w.op
    BY SameForm
  <1>a. ASSUME NEW v, WellFormed(v)
        PROVE  /\ v.op = "Connect" => v.json \in Texts
               /\ v.op = "Pub" => v.subject \in Subjects /\ v.reply_to \in Option(Subjects)
               /\ v.op = "Sub" => v.subject \in Subjects /\ v.queue_group \in Option(Subjects)
    BY <1>a DEF WellFormed
  <1>b. WellFormed(o) /\ WellFormed(w)
    OBVIOUS
  <1>2. CASE o.op = "Connect"
    <2>1. /\ o = [op |-> "Connect", json |-> o.json] /\ w = [op |-> "Connect", json |-> w.json]
          /\ w.op = "Connect"
      BY <1>1, <1>2, ClientFields
    <2>2. o.json \in Texts /\ w.json \in Texts
      BY <1>2, <1>a, <1>b, <2>1
    <2>3. Sits(s, 1, (CONNECT \o o.json) \o Newline) /\ Sits(s, 1, (CONNECT \o w.json) \o Newline)
      BY <1>2, <2>1, ClientEncodings
    <2>4. o.json = w.json
      BY <2>2, <2>3, SameConnect
    <2> QED
      BY <2>1, <2>4
  <1>3. CASE o.op = "Pub"
    <2>1. /\ o = [op |-> "Pub", subject |-> o.subject, reply_to |-> o.reply_to, payload |-> o.payload]
          /\ w = [op |-> "Pub", subject |-> w.subject, reply_to |-> w.reply_to, payload |-> w.payload]
          /\ w.op = "Pub" /\ o.payload \in Payloads /\ w.payload \in Payloads
      BY <1>1, <1>3, ClientFields
    <2>2. /\ o.subject \in Subjects /\ o.reply_to \in Option(Subjects)
          /\ w.subject \in Subjects /\ w.reply_to \in Option(Subjects)
      BY <1>3, <1>a, <1>b, <2>1
    <2>3. Sits(s, 1, ((((PUB \o o.subject) \o Space) \o Optional(o.reply_to)) \o Sized(o.payload)) \o Newline)
      BY <1>3, ClientEncodings
    <2>4. Sits(s, 1, ((((PUB \o w.subject) \o Space) \o Optional(w.reply_to)) \o Sized(w.payload)) \o Newline)
      BY <2>1, ClientEncodings
    <2>5. o.subject = w.subject /\ o.reply_to = w.reply_to /\ o.payload = w.payload
      BY <2>1, <2>2, <2>3, <2>4, SamePub
    <2> QED
      BY <2>1, <2>5
  <1>4. CASE o.op = "Sub"
    <2>1. /\ o = [op |-> "Sub", subject |-> o.subject, queue_group |-> o.queue_group, sid |-> o.sid]
          /\ w = [op |-> "Sub", subject |-> w.subject, queue_group |-> w.queue_group, sid |-> w.sid]
          /\ w.op = "Sub" /\ o.sid \in Numbers /\ w.sid \in Numbers
      BY <1>1, <1>4, ClientFields
    <2>2. /\ o.subject \in Subjects /\ o.queue_group \in Option(Subjects)
          /\ w.subject \in Subjects /\ w.queue_group \in Option(Subjects)
      BY <1>4, <1>a, <1>b, <2>1
    <2>3. Sits(s, 1, ((((SUB \o o.subject) \o Space) \o Optional(o.queue_group)) \o Number[o.sid]) \o Newline)
      BY <1>4, ClientEncodings
    <2>4. Sits(s, 1, ((((SUB \o w.subject) \o Space) \o Optional(w.queue_group)) \o Number[w.sid]) \o Newline)
      BY <2>1, ClientEncodings
    <2>5. o.subject = w.subject /\ o.queue_group = w.queue_group /\ o.sid = w.sid
      BY <2>1, <2>2, <2>3, <2>4, SameSub
    <2> QED
      BY <2>1, <2>5
  <1>5. CASE o.op = "Unsub"
    <2>1. /\ o = [op |-> "Unsub", sid |-> o.sid, max_messages |-> o.max_messages]
          /\ w = [op |-> "Unsub", sid |-> w.sid, max_messages |-> w.max_messages]
          /\ w.op = "Unsub" /\ o.sid \in Numbers /\ w.sid \in Numbers
          /\ o.max_messages \in Option(Numbers) /\ w.max_messages \in Option(Numbers)
      BY <1>1, <1>5, ClientFields
    <2>2. Sits(s, 1, ((UNSUB \o Number[o.sid]) \o Limit(o.max_messages)) \o Newline)
      BY <1>5, ClientEncodings
    <2>3. Sits(s, 1, ((UNSUB \o Number[w.sid]) \o Limit(w.max_messages)) \o Newline)
      BY <2>1, ClientEncodings
    <2>4. o.sid = w.sid /\ o.max_messages = w.max_messages
      BY <2>1, <2>2, <2>3, SameUnsub
    <2> QED
      BY <2>1, <2>4
  <1>6. CASE o.op \in {"Ping", "Pong"}
    <2>1. o = [op |-> o.op] /\ w = [op |-> w.op]
      BY <1>1, <1>6, ClientFields
    <2> QED
      BY <1>1, <2>1
  <1>7. o.op \in {"Connect", "Pub", "Sub", "Unsub", "Ping", "Pong"}
    BY Opening
  <1> QED
    BY <1>2, <1>3, <1>4, <1>5, <1>6, <1>7

\* What the client has written begins with its first operation.
WrittenInv ==
    /\ written \in Seq(ClientOperations) /\ upstream \in Strings
    /\ written = <<>> => upstream = <<>>
    /\ written # <<>> => Sits(upstream, 1, Encode(written[1]))

LEMMA WrittenInvNext == WrittenInv /\ [NatsNext]_vars => WrittenInv'
  <1> SUFFICES ASSUME WrittenInv, [NatsNext]_vars PROVE WrittenInv'
    OBVIOUS
  <1>1. ASSUME NEW o \in ClientOperations, ClientSends(o) PROVE WrittenInv'
    <2>1. written' = Append(written, o) /\ upstream' = upstream \o Encode(o)
      BY <1>1 DEF ClientSends
    <2>2. written \in Seq(ClientOperations) /\ upstream \in Strings /\ Encode(o) \in Strings
      BY Opening DEF WrittenInv
    <2>3. written' \in Seq(ClientOperations) /\ written' # <<>> /\ upstream' \in Strings
      <3>1. Append(written, o) \in Seq(ClientOperations) /\ Append(written, o) # <<>>
        <4>1. Append(written, o) \in Seq(ClientOperations) /\ Len(Append(written, o)) = Len(written) + 1
          BY <2>2
        <4>2. Len(written) + 1 # 0
          BY <2>2
        <4> QED
          BY <4>1, <4>2
      <3>2. upstream \o Encode(o) \in Strings
        BY <2>2, Joined
      <3> QED
        BY <2>1, <3>1, <3>2
    <2>4. CASE written = <<>>
      <3>1. written'[1] = o /\ upstream' = Encode(o)
        <4>1. Append(<<>>, o)[1] = o
          OBVIOUS
        <4>2. <<>> \o Encode(o) = Encode(o)
          BY <2>2, JoinedEmpty
        <4> QED
          BY <2>1, <2>4, <4>1, <4>2 DEF WrittenInv
      <3>2. Encode(o) \o <<>> = Encode(o) /\ <<>> \in Strings
        BY <2>2, JoinedEmpty
      <3>3. Sits(Encode(o), 1, Encode(o))
        BY <2>2, <3>2, SitsFirst
      <3> QED
        BY <2>3, <3>1, <3>3 DEF WrittenInv
    <2>5. CASE written # <<>>
      <3>1. written'[1] = written[1] /\ written[1] \in ClientOperations
        BY <2>1, <2>2, <2>5
      <3>2. Encode(written[1]) \in Strings /\ Sits(upstream, 1, Encode(written[1]))
        BY <2>5, <3>1, Opening DEF WrittenInv
      <3>3. Len(Encode(written[1])) \in Nat /\ Len(upstream) \in Nat /\ Len(Encode(o)) \in Nat
        BY <2>2, <3>2 DEF Strings
      <3>4. /\ Len(upstream') = Len(upstream) + Len(Encode(o))
            /\ \A k \in 1 .. Len(upstream) : upstream'[k] = upstream[k]
        BY <2>1, <2>2, Joined
      <3>5. Sits(upstream', 1, Encode(written[1]))
        BY <3>2, <3>3, <3>4 DEF Sits
      <3> QED
        BY <2>3, <3>1, <3>5 DEF WrittenInv
    <2> QED
      BY <2>4, <2>5
  <1>2. ASSUME UNCHANGED <<written, upstream>> PROVE WrittenInv'
    BY <1>2 DEF WrittenInv
  <1> QED
    BY <1>1, <1>2 DEF NatsNext, ServerSends, Arrive, Receive, vars

\* Whatever well-formed operation the client has written first, its bytes begin
\* with no other well-formed one: the encodings of no two of them begin the same
\* bytes.
THEOREM OperationsCanBeTold == NatsSpec => []ServerCanSplit
  <1>1. NatsInit => WrittenInv
    <2>1. <<>> \in Strings /\ <<>> \in Seq(ClientOperations)
      BY DEF Strings
    <2> QED
      BY <2>1 DEF NatsInit, WrittenInv
  <1>2. WrittenInv => ServerCanSplit
    <2> SUFFICES ASSUME WrittenInv, written # <<>>, WellFormed(written[1]),
                        NEW o \in ClientOperations, WellFormed(o), IsPrefix(Encode(o), upstream)
                 PROVE  o = written[1]
      BY DEF ServerCanSplit
    <2>1. /\ written[1] \in ClientOperations /\ upstream \in Strings /\ Encode(o) \in Strings
          /\ Sits(upstream, 1, Encode(written[1]))
      BY Opening DEF WrittenInv
    <2>2. /\ Len(Encode(o)) \in Nat /\ Len(upstream) \in Nat /\ Len(Encode(o)) <= Len(upstream)
          /\ \A k \in 1 .. Len(Encode(o)) : Encode(o)[k] = upstream[k]
      BY <2>1, PrefixOf DEF Strings
    <2>3. Sits(upstream, 1, Encode(o))
      BY <2>2 DEF Sits
    <2> QED
      BY <2>1, <2>3, OneOperation
  <1> QED
    BY <1>1, <1>2, WrittenInvNext, PTL DEF NatsSpec

=============================================================================
