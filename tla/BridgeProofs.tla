---------------------------- MODULE BridgeProofs ----------------------------
(***************************************************************************)
(* Proofs about the bridge: what it encodes and encrypts comes back, for   *)
(* every text; what it does for its clients, whatever they do.             *)
(***************************************************************************)
EXTENDS Bridge, FunctionTheorems, FiniteSetTheorems, SequenceTheorems,
        WellFoundedInduction, TLAPS
-----------------------------------------------------------------------------
(* Texts that are encoded or encrypted. *)

(* Every value has a character of its own, none of them '='. *)
LEMMA CharHasValue ==
    ASSUME NEW n \in 0 .. 63
    PROVE  CharOf(n) # Equals /\ ValueOf(CharOf(n)) = n
<1>1. CASE n < 26  BY <1>1 DEF CharOf, ValueOf, Equals
<1>2. CASE n \in 26 .. 51  BY <1>2 DEF CharOf, ValueOf, Equals
<1>3. CASE n \in 52 .. 61  BY <1>3 DEF CharOf, ValueOf, Equals
<1>4. CASE n = 62  BY <1>4 DEF CharOf, ValueOf, Equals
<1>5. CASE n = 63  BY <1>5 DEF CharOf, ValueOf, Equals
<1>6. QED  BY <1>1, <1>2, <1>3, <1>4, <1>5

(* The length of what stands before '=' is where the '=' begin. *)
LEMMA LengthBeforeIs ==
    ASSUME NEW e, NEW stop, Len(e) \in Nat, NEW n \in 0 .. Len(e),
           \A k \in 1 .. Len(e) : e[k] \in stop <=> k > n
    PROVE  LengthBefore(e, stop) = n
<1> DEFINE Is(m) == /\ \A k \in 1 .. m : e[k] \notin stop
                    /\ m = Len(e) \/ e[m + 1] \in stop
<1>1. Is(n)  OBVIOUS
<1>2. ASSUME NEW m \in 0 .. Len(e), Is(m) PROVE m = n
  <2>1. ~(m < n)  BY <1>2
  <2>2. ~(m > n)
    <3>1. SUFFICES ASSUME m > n PROVE FALSE  OBVIOUS
    <3>2. n + 1 \in 1 .. m /\ n + 1 \in 1 .. Len(e)  BY <3>1
    <3>3. QED  BY <3>2, <1>2
  <2>3. QED  BY <2>1, <2>2
<1>3. QED  BY <1>1, <1>2 DEF LengthBefore

(* The values of two neighbouring characters hold the byte between them. *)
LEMMA NeighboursHoldByte ==
    ASSUME NEW a \in Byte, NEW b \in Byte, NEW c \in Byte, NEW j \in 0 .. 2
    PROVE  /\ EncodedValue(a, b, c, j) \in 0 .. 63
           /\ EncodedValue(a, b, c, j + 1) \in 0 .. 63
           /\ DecodedByte(EncodedValue(a, b, c, j), EncodedValue(a, b, c, j + 1), j)
                = <<a, b, c>>[j + 1]
<1>1. CASE j = 0  BY <1>1 DEF EncodedValue, DecodedByte, Byte
<1>2. CASE j = 1  BY <1>2 DEF EncodedValue, DecodedByte, Byte
<1>3. CASE j = 2  BY <1>3 DEF EncodedValue, DecodedByte, Byte
<1>4. QED  BY <1>1, <1>2, <1>3

(* Where the characters of an encoded text end and the '=' begin. *)
EncodedLength(n) == (4 * n + 2) \div 3

LEMMA LengthsAgree ==
    ASSUME NEW n \in Nat
    PROVE  /\ EncodedLength(n) \in 0 .. 4 * ((n + 2) \div 3)
           /\ DecodedLength(EncodedLength(n)) = n
<1>1. PICK q \in Nat, r \in 0 .. 2 : n = 3 * q + r
  BY n = 3 * (n \div 3) + (n % 3), n \div 3 \in Nat, n % 3 \in 0 .. 2
<1>2. CASE r = 0  BY <1>1, <1>2 DEF EncodedLength, DecodedLength
<1>3. CASE r = 1  BY <1>1, <1>3 DEF EncodedLength, DecodedLength
<1>4. CASE r = 2  BY <1>1, <1>4 DEF EncodedLength, DecodedLength
<1>5. QED  BY <1>1, <1>2, <1>3, <1>4

LEMMA EncodedShape ==
    ASSUME NEW s \in Text
    PROVE  /\ Len(Base64Encode(s)) = 4 * ((Len(s) + 2) \div 3)
           /\ LengthBefore(Base64Encode(s), {Equals}) = EncodedLength(Len(s))
<1> DEFINE e == Base64Encode(s)
           n == Len(s)
<1>1. n \in Nat /\ \A i \in 1 .. n : s[i] \in Byte  BY DEF Text
<1>2. \A i \in Nat : At(s, i) \in Byte \/ i = 0  BY <1>1 DEF At, Byte
<1>3. 4 * ((n + 2) \div 3) \in Nat  BY <1>1
<1>4. Len(e) = 4 * ((n + 2) \div 3)  BY <1>3 DEF Base64Encode
<1>5. ASSUME NEW k \in 1 .. Len(e)
      PROVE  e[k] \in {Equals} <=> k > EncodedLength(n)
  <2> DEFINE g == 3 * ((k - 1) \div 4)
             j == (k - 1) % 4
  <2>1. g \in Nat /\ j \in 0 .. 3  BY <1>3, <1>4
  <2>2. g + j > n <=> k > EncodedLength(n)  BY <1>1, <1>3, <1>4 DEF EncodedLength
  <2>3. e[k] = IF g + j > n THEN Equals
               ELSE CharOf(EncodedValue(At(s, g + 1), At(s, g + 2), At(s, g + 3), j))
    BY <1>3, <1>4 DEF Base64Encode
  <2>4. EncodedValue(At(s, g + 1), At(s, g + 2), At(s, g + 3), j) \in 0 .. 63
    <3>1. /\ At(s, g + 1) \in Byte /\ At(s, g + 2) \in Byte /\ At(s, g + 3) \in Byte
      BY <1>2, <2>1
    <3>2. CASE j \in 0 .. 2  BY <3>1, <3>2, NeighboursHoldByte
    <3>3. CASE j = 3  BY <3>1, <3>3, NeighboursHoldByte, 2 \in 0 .. 2, 2 + 1 = 3
    <3>4. QED  BY <2>1, <3>2, <3>3
  <2>5. CharOf(EncodedValue(At(s, g + 1), At(s, g + 2), At(s, g + 3), j)) # Equals
    BY <2>4, CharHasValue
  <2>6. QED  BY <2>2, <2>3, <2>5
<1>6. QED  BY <1>1, <1>3, <1>4, <1>5, LengthsAgree, LengthBeforeIs

(* base64_decode gives back every text base64_encode was given, also when  *)
(* its last group is not full (backend_client.cpp:12-96).                  *)
THEOREM Base64RoundTrip ==
    ASSUME NEW s \in Text
    PROVE  Base64Decode(Base64Encode(s)) = s
<1> DEFINE e == Base64Encode(s)
           n == Len(s)
<1>1. n \in Nat /\ \A i \in 1 .. n : s[i] \in Byte  BY DEF Text
<1>2. DecodedLength(LengthBefore(e, {Equals})) = n  BY <1>1, EncodedShape, LengthsAgree
<1>3. ASSUME NEW k \in 1 .. n
      PROVE  Base64Decode(e)[k] = s[k]
  <2> DEFINE h == (k - 1) \div 3
             j == (k - 1) % 3
             i == 4 * h + j + 1
             a == At(s, 3 * h + 1)
             b == At(s, 3 * h + 2)
             c == At(s, 3 * h + 3)
  <2>1. h \in Nat /\ j \in 0 .. 2 /\ k = 3 * h + j + 1  BY <1>1
  <2>2. a \in Byte /\ b \in Byte /\ c \in Byte  BY <1>1, <2>1 DEF At, Byte
  <2>3. /\ e[i] = CharOf(EncodedValue(a, b, c, j))
        /\ e[i + 1] = CharOf(EncodedValue(a, b, c, j + 1))
    <3>1. i \in 1 .. 4 * ((n + 2) \div 3) /\ i + 1 \in 1 .. 4 * ((n + 2) \div 3)
      BY <1>1, <2>1
    <3>2. /\ (i - 1) \div 4 = h /\ (i - 1) % 4 = j
          /\ (i + 1 - 1) \div 4 = h /\ (i + 1 - 1) % 4 = j + 1
      BY <2>1
    <3>3. ~(3 * h + j > n) /\ ~(3 * h + (j + 1) > n)  BY <1>1, <2>1
    <3>4. ASSUME NEW m \in 1 .. 4 * ((n + 2) \div 3), NEW x \in 0 .. 3,
                 (m - 1) \div 4 = h, (m - 1) % 4 = x, ~(3 * h + x > n)
          PROVE  e[m] = CharOf(EncodedValue(a, b, c, x))
      BY <3>4 DEF Base64Encode
    <3>5. j \in 0 .. 3 /\ j + 1 \in 0 .. 3  BY <2>1
    <3>6. e[i] = CharOf(EncodedValue(a, b, c, j))
      <4> HIDE DEF e, a, b, c, h, i, j
      <4>1. QED  BY <3>1, <3>2, <3>3, <3>4, <3>5
    <3>7. e[i + 1] = CharOf(EncodedValue(a, b, c, j + 1))
      <4> HIDE DEF e, a, b, c, h, i, j
      <4>1. QED  BY <3>1, <3>2, <3>3, <3>4, <3>5
    <3>8. QED  BY <3>6, <3>7
  <2>4. /\ ValueOf(e[i]) = EncodedValue(a, b, c, j)
        /\ ValueOf(e[i + 1]) = EncodedValue(a, b, c, j + 1)
    BY <2>1, <2>2, <2>3, NeighboursHoldByte, CharHasValue
  <2>5. Base64Decode(e)[k] = DecodedByte(ValueOf(e[i]), ValueOf(e[i + 1]), j)
    BY <1>2 DEF Base64Decode
  <2>6. <<a, b, c>>[j + 1] = s[k]
    <3>1. At(s, k) = s[k]  BY <1>1 DEF At
    <3>2. CASE j = 0  BY <2>1, <3>1, <3>2
    <3>3. CASE j = 1  BY <2>1, <3>1, <3>3
    <3>4. CASE j = 2  BY <2>1, <3>1, <3>4
    <3>5. QED  BY <2>1, <3>2, <3>3, <3>4
  <2>7. QED  BY <2>1, <2>2, <2>4, <2>5, <2>6, NeighboursHoldByte
<1>4. Base64Decode(e) = [k \in 1 .. n |-> s[k]]
  <2>1. Base64Decode(e) = [k \in 1 .. n |-> Base64Decode(e)[k]]  BY <1>2 DEF Base64Decode
  <2>2. QED  BY <1>3, <2>1
<1>5. s = [k \in 1 .. n |-> s[k]]  BY <1>1 DEF Text
<1>6. QED  BY <1>4, <1>5

LEMMA ShiftedByte ==
    ASSUME NEW v \in Byte, NEW k \in Int
    PROVE  (v + k) % 256 \in Byte /\ (((v + k) % 256) - k) % 256 = v
BY DEF Byte

(* What is encrypted is a whole number of blocks, and any text. *)
LEMMA CipherIs ==
    ASSUME NEW k \in Int, NEW s \in CString
    PROVE  LET m == Len(s) + Padding(Len(s))
           IN  /\ m \in Nat /\ m >= Len(s) /\ m % BlockSize = 0
               /\ \A i \in 1 .. m : At(s, i) \in Byte
               /\ CbcEncrypt(k, Padded(s)) = [i \in 1 .. m |-> (At(s, i) + k) % 256]
               /\ CbcEncrypt(k, Padded(s)) \in Text /\ Len(CbcEncrypt(k, Padded(s))) = m
<1> DEFINE n == Len(s)
           m == n + Padding(n)
           x == CbcEncrypt(k, Padded(s))
<1>1. n \in Nat /\ \A i \in 1 .. n : s[i] \in Byte \ {Null}  BY DEF CString
<1>2. m \in Nat /\ m >= n /\ m % BlockSize = 0
  <2>1. n % BlockSize \in 0 .. BlockSize - 1 /\ n = BlockSize * (n \div BlockSize) + (n % BlockSize)
    BY <1>1, BlockSizePositive
  <2>2. CASE n % BlockSize = 0  BY <1>1, <2>2 DEF Padding
  <2>3. CASE n % BlockSize # 0
    <3>1. m = BlockSize * (n \div BlockSize) + BlockSize /\ m >= n
      BY <2>1, <2>3, <1>1, BlockSizePositive DEF Padding
    <3>2. m = BlockSize * ((n \div BlockSize) + 1) /\ (n \div BlockSize) + 1 \in Nat
      BY <3>1, <1>1, BlockSizePositive
    <3>3. QED  BY <3>1, <3>2, <1>1, BlockSizePositive
  <2>4. QED  BY <2>2, <2>3
<1>3. Padded(s) = [i \in 1 .. m |-> At(s, i)] /\ \A i \in 1 .. m : At(s, i) \in Byte
  BY <1>1, <1>2 DEF Padded, At, Byte
<1>4. /\ Len(Padded(s)) = m
      /\ x = [i \in 1 .. m |-> (At(s, i) + k) % 256]
  BY <1>2, <1>3 DEF CbcEncrypt
<1>5. x \in Text /\ Len(x) = m
  <2>1. \A i \in 1 .. m : (At(s, i) + k) % 256 \in Byte  BY <1>3, ShiftedByte
  <2>2. QED  BY <1>2, <1>4, <2>1 DEF Text
<1>6. QED  BY <1>2, <1>3, <1>4, <1>5

(* A text up to a null character is what decryptWithKey makes of what      *)
(* encryptWithKey made of it, for every length and every block size        *)
(* (backend_client.cpp:534-549).                                           *)
THEOREM EncryptRoundTrip ==
    ASSUME NEW k \in Int, k # NoKey, NEW s \in CString
    PROVE  DecryptWithKey(k, EncryptWithKey(k, s)) = s
<1> DEFINE n == Len(s)
           m == n + Padding(n)
           x == CbcEncrypt(k, Padded(s))
<1>1. n \in Nat /\ \A i \in 1 .. n : s[i] \in Byte \ {Null}  BY DEF CString
<1>2. /\ m \in Nat /\ m >= n /\ m % BlockSize = 0
      /\ \A i \in 1 .. m : At(s, i) \in Byte
  BY CipherIs
<1>3. /\ x = [i \in 1 .. m |-> (At(s, i) + k) % 256]
      /\ x \in Text /\ Len(x) = m
  BY CipherIs
<1>4. Base64Decode(EncryptWithKey(k, s)) = x
  BY <1>3, Base64RoundTrip DEF EncryptWithKey, AesEncode
<1>5. AesDecode(k, x) = [i \in 1 .. m |-> At(s, i)]
  <2>1. SubSeq(x, 1, Len(x) - (Len(x) % BlockSize)) = x  BY <1>2, <1>3 DEF Text
  <2>2. AesDecode(k, x) = [i \in 1 .. m |-> (x[i] - k) % 256]
    BY <2>1, <1>3 DEF AesDecode, CbcDecrypt
  <2>3. ASSUME NEW i \in 1 .. m PROVE (x[i] - k) % 256 = At(s, i)
    <3>1. x[i] = (At(s, i) + k) % 256 /\ At(s, i) \in Byte  BY <1>2, <1>3
    <3>2. QED  BY <3>1, ShiftedByte
  <2>4. QED  BY <2>2, <2>3
<1>6. LengthBefore([i \in 1 .. m |-> At(s, i)], {Null}) = n
  <2> DEFINE e == [i \in 1 .. m |-> At(s, i)]
  <2>1. Len(e) = m /\ Len(e) \in Nat /\ n \in 0 .. Len(e)  BY <1>1, <1>2
  <2>2. ASSUME NEW i \in 1 .. m PROVE e[i] \in {Null} <=> i > n
    <3>1. CASE i <= n  BY <1>1, <1>2, <3>1 DEF At, Null
    <3>2. CASE i > n  BY <1>1, <1>2, <3>2 DEF At, Null
    <3>3. QED  BY <1>1, <1>2, <3>1, <3>2
  <2>3. QED  BY <2>1, <2>2, LengthBeforeIs
<1>7. SubSeq([i \in 1 .. m |-> At(s, i)], 1, n) = s  BY <1>1, <1>2 DEF At, CString
<1>8. QED  BY <1>4, <1>5, <1>6, <1>7 DEF DecryptWithKey, Before

(* The server looks an account up by the cipher text of its site or user   *)
(* name: under one key that finds those of this text and no others         *)
(* (backend_client.cpp:395-405, controll_data.py:42-48).                   *)
THEOREM CipherTextsDiffer ==
    ASSUME NEW k \in Int, k # NoKey, NEW s \in CString, NEW t \in CString
    PROVE  EncryptWithKey(k, s) = EncryptWithKey(k, t) <=> s = t
<1>1. /\ DecryptWithKey(k, EncryptWithKey(k, s)) = s
      /\ DecryptWithKey(k, EncryptWithKey(k, t)) = t
  BY EncryptRoundTrip
<1>2. QED  BY <1>1

-----------------------------------------------------------------------------
(* Induction and recursive functions.  The induction theorems of the       *)
(* library are about operators; this one is about a set, and comes of the  *)
(* well-founded order on finite sets.                                      *)

(* A set of numbers that holds 0, and with each number the next, holds all. *)
LEMMA Induction ==
    ASSUME NEW T, 0 \in T, \A n \in Nat : n \in T => n + 1 \in T
    PROVE  Nat \subseteq T
<1> DEFINE D == {0 .. n : n \in Nat \ T}
           R == StrictSubsetOrdering(Nat)
<1>1. SUFFICES ASSUME NEW x \in Nat \ T PROVE FALSE  OBVIOUS
<1>2. D \subseteq FiniteSubsetsOf(Nat)
  <2>1. SUFFICES ASSUME NEW n \in Nat \ T PROVE 0 .. n \in FiniteSubsetsOf(Nat)  OBVIOUS
  <2>2. IsFiniteSet(0 .. n)  BY FS_Interval
  <2>3. 0 .. n \subseteq Nat  OBVIOUS
  <2>4. QED  BY <2>2, <2>3 DEF FiniteSubsetsOf
<1>3. D # {}  BY <1>1
<1>4. IsWellFoundedOn(R, FiniteSubsetsOf(Nat))  BY FS_StrictSubsetOrderingWellFounded
<1>5. \E d \in D : \A e \in D : <<e, d>> \notin R
  <2> HIDE DEF D, R
  <2>1. QED  BY <1>2, <1>3, <1>4, WFMin
<1>6. PICK n \in Nat \ T : \A m \in Nat \ T : <<0 .. m, 0 .. n>> \notin R  BY <1>5
<1>7. n # 0 /\ n - 1 \in Nat \ T  BY <1>6
<1>8. <<0 .. n - 1, 0 .. n>> \in R
  <2>1. 0 .. n - 1 \subseteq 0 .. n /\ 0 .. n - 1 # 0 .. n /\ 0 .. n \subseteq Nat  BY <1>7
  <2>2. <<0 .. n - 1, 0 .. n>> \in (SUBSET Nat) \X (SUBSET Nat)  BY <2>1
  <2>3. QED  BY <2>1, <2>2 DEF StrictSubsetOrdering
<1>9. QED  BY <1>6, <1>7, <1>8

-----------------------------------------------------------------------------
(* Lists. *)

(* What counts the positions of a set upwards and leaves none out is       *)
(* InOrder of it.                                                          *)
LEMMA InOrderIs ==
    ASSUME NEW P, NEW n \in Nat, NEW q \in [1 .. n -> P], P \subseteq Nat,
           \A a, b \in 1 .. n : a < b => q[a] < q[b],
           \A i \in P : \E k \in 1 .. n : q[k] = i
    PROVE  InOrder(P) = q
<1>1. ASSUME NEW k \in 1 .. n
      PROVE  Cardinality({j \in P : j <= q[k]}) = k
  <2> DEFINE B == {j \in P : j <= q[k]}
             h == [a \in 1 .. k |-> q[a]]
  <2>0. \A a \in 1 .. n : q[a] \in Nat  OBVIOUS
  <2>1. \A a \in 1 .. n : q[a] <= q[k] <=> a <= k
    <3>1. SUFFICES ASSUME NEW a \in 1 .. n PROVE q[a] <= q[k] <=> a <= k  OBVIOUS
    <3>2. CASE a < k  BY <3>2, <2>0
    <3>3. CASE a > k  BY <3>3, <2>0
    <3>4. QED  BY <3>2, <3>3, <2>0
  <2>2. \A a \in 1 .. k : a \in 1 .. n /\ h[a] = q[a]  OBVIOUS
  <2>3. h \in [1 .. k -> B]  BY <2>1, <2>2
  <2>4. \A a, b \in 1 .. k : h[a] = h[b] => a = b
    <3>1. SUFFICES ASSUME NEW a \in 1 .. k, NEW b \in 1 .. k, h[a] = h[b] PROVE a = b  OBVIOUS
    <3>2. a \in 1 .. n /\ b \in 1 .. n /\ q[a] = q[b]  BY <3>1, <2>2
    <3>3. CASE a < b  BY <3>2, <3>3, <2>0
    <3>4. CASE b < a  BY <3>2, <3>4, <2>0
    <3>5. QED  BY <3>3, <3>4
  <2>5. \A j \in B : \E a \in 1 .. k : h[a] = j  BY <2>1, <2>2
  <2>6. ExistsBijection(1 .. k, B)
    <3> HIDE DEF h, B
    <3>1. h \in Bijection(1 .. k, B)  BY <2>3, <2>4, <2>5, Fun_IsBij, Fun_IsInj, Fun_IsSurj
    <3>2. QED  BY <3>1, Fun_ExistsBij
  <2>7. QED  BY <2>6, FS_CountingElements
<1>2. Cardinality(P) = n
  <2>1. CASE n = 0
    <3>1. P = {}  BY <2>1
    <3>2. QED  BY <2>1, <3>1, FS_EmptySet
  <2>2. CASE n > 0
    <3>1. {j \in P : j <= q[n]} = P
      <4>1. \A a \in 1 .. n : q[a] <= q[n]
        <5>1. \A a \in 1 .. n : q[a] \in Nat  OBVIOUS
        <5>2. \A a \in 1 .. n : a < n \/ a = n  OBVIOUS
        <5>3. QED  BY <5>1, <5>2, <2>2
      <4>2. QED  BY <4>1
    <3>2. QED  BY <1>1, <2>2, <3>1
  <2>3. QED  BY <2>1, <2>2
<1>3. ASSUME NEW k \in 1 .. n
      PROVE  q[k] = CHOOSE i \in P : Cardinality({j \in P : j <= i}) = k
  <2>1. q[k] \in P  OBVIOUS
  <2>2. \A i \in P : Cardinality({j \in P : j <= i}) = k => i = q[k]  BY <1>1
  <2>3. QED  BY <2>1, <2>2, <1>1
<1>4. QED  BY <1>2, <1>3 DEF InOrder

(* InOrder of a finite set counts all its positions upwards. *)
LEMMA InOrderEnumerates ==
    ASSUME NEW P, P \subseteq Nat, IsFiniteSet(P)
    PROVE  /\ Cardinality(P) \in Nat
           /\ InOrder(P) \in [1 .. Cardinality(P) -> P]
           /\ \A a, b \in 1 .. Cardinality(P) : a < b => InOrder(P)[a] < InOrder(P)[b]
           /\ \A i \in P : \E k \in 1 .. Cardinality(P) : InOrder(P)[k] = i
<1> DEFINE c == Cardinality(P)
           Upto(i) == {j \in P : j <= i}
           rank == [i \in P |-> Cardinality(Upto(i))]
           q == InOrder(P)
<1>1. c \in Nat /\ IsFiniteSet(1 .. c) /\ Cardinality(1 .. c) = c
  BY FS_CardinalityType, FS_Interval
<1>2. ASSUME NEW i \in P
      PROVE  rank[i] \in 1 .. c /\ IsFiniteSet(Upto(i)) /\ rank[i] = Cardinality(Upto(i))
  <2>1. Upto(i) \in SUBSET P /\ i \in Upto(i)  OBVIOUS
  <2>2. IsFiniteSet(Upto(i)) /\ Cardinality(Upto(i)) <= c  BY <2>1, FS_Subset
  <2>3. Cardinality(Upto(i)) \in Nat /\ Cardinality(Upto(i)) # 0
    <3> HIDE DEF Upto
    <3>1. QED  BY <2>1, <2>2, FS_CardinalityType, FS_EmptySet
  <2>4. QED  BY <2>2, <2>3, <1>1
<1>3. ASSUME NEW i \in P, NEW j \in P, i < j
      PROVE  rank[i] < rank[j]
  <2>0. i \in Nat /\ j \in Nat  OBVIOUS
  <2>1. Upto(i) \in SUBSET Upto(j) /\ j \in Upto(j) /\ j \notin Upto(i)
    <3>1. \A m \in P : m \in Nat  OBVIOUS
    <3>2. \A m \in P : m <= i => m <= j  BY <1>3, <2>0, <3>1
    <3>3. j <= j /\ ~(j <= i)  BY <1>3, <2>0
    <3>4. QED  BY <3>2, <3>3
  <2>2. Cardinality(Upto(i)) <= Cardinality(Upto(j)) /\ Cardinality(Upto(i)) # Cardinality(Upto(j))
    <3>1. IsFiniteSet(Upto(j))  BY <1>2
    <3> HIDE DEF Upto
    <3>2. QED  BY <2>1, <3>1, FS_Subset
  <2>3. rank[i] = Cardinality(Upto(i)) /\ rank[j] = Cardinality(Upto(j))
        /\ rank[i] \in 1 .. c /\ rank[j] \in 1 .. c  BY <1>2
  <2> HIDE DEF rank, Upto
  <2>4. QED  BY <2>2, <2>3, <1>1
<1>4. \A k \in 1 .. c : \E i \in P : rank[i] = k
  <2>1. rank \in [P -> 1 .. c]
    <3>1. \A i \in P : rank[i] \in 1 .. c  BY <1>2
    <3>2. rank = [i \in P |-> rank[i]]  OBVIOUS
    <3> HIDE DEF rank
    <3>3. QED  BY <3>1, <3>2
  <2> HIDE DEF rank
  <2>2. \A i, j \in P : rank[i] = rank[j] => i = j
    <3>1. SUFFICES ASSUME NEW i \in P, NEW j \in P, rank[i] = rank[j], i # j PROVE FALSE  OBVIOUS
    <3>2. i < j \/ j < i  BY <3>1
    <3>3. rank[i] \in 1 .. c /\ rank[j] \in 1 .. c  BY <2>1
    <3>4. QED  BY <1>3, <3>1, <3>2, <3>3, <1>1
  <2>3. rank \in Injection(P, 1 .. c)  BY <2>1, <2>2, Fun_IsInj
  <2>4. rank \in Surjection(P, 1 .. c)  BY <2>3, <1>1, FS_Injection
  <2>5. QED  BY <2>4, Fun_SurjectionProperties
<1>5. ASSUME NEW k \in 1 .. c
      PROVE  q[k] \in P /\ rank[q[k]] = k
  <2>1. PICK i \in P : rank[i] = k  BY <1>4
  <2>2. Cardinality({j \in P : j <= i}) = k  BY <2>1
  <2>3. q[k] = CHOOSE m \in P : Cardinality({j \in P : j <= m}) = k  BY DEF InOrder
  <2>4. QED  BY <2>2, <2>3
<1>6. q \in [1 .. c -> P]  BY <1>5 DEF InOrder
<1>7. ASSUME NEW a \in 1 .. c, NEW b \in 1 .. c, a < b PROVE q[a] < q[b]
  <2>1. q[a] \in P /\ q[b] \in P /\ rank[q[a]] = a /\ rank[q[b]] = b  BY <1>5
  <2> HIDE DEF rank, q, c
  <2>2. a \in Nat /\ b \in Nat  BY <1>1
  <2>3. q[a] # q[b]  BY <2>1, <2>2, <1>7
  <2>4. ASSUME q[b] < q[a] PROVE FALSE
    <3>1. rank[q[b]] < rank[q[a]]  BY <2>1, <2>4, <1>3
    <3>2. QED  BY <3>1, <2>1, <2>2, <1>7
  <2>5. q[a] \in Nat /\ q[b] \in Nat  BY <2>1
  <2>6. QED  BY <2>3, <2>4, <2>5
<1>8. ASSUME NEW i \in P PROVE \E k \in 1 .. c : q[k] = i
  <2>1. rank[i] \in 1 .. c  BY <1>2
  <2>2. q[rank[i]] \in P /\ rank[q[rank[i]]] = rank[i]  BY <2>1, <1>5
  <2> HIDE DEF rank, q, c
  <2>3. rank[i] \in Nat  BY <2>1, <1>1
  <2>4. ASSUME q[rank[i]] < i PROVE FALSE
    <3>1. rank[q[rank[i]]] < rank[i]  BY <2>2, <2>4, <1>3
    <3>2. QED  BY <3>1, <2>2, <2>3
  <2>5. ASSUME i < q[rank[i]] PROVE FALSE
    <3>1. rank[i] < rank[q[rank[i]]]  BY <2>2, <2>5, <1>3
    <3>2. QED  BY <3>1, <2>2, <2>3
  <2>6. q[rank[i]] \in Nat /\ i \in Nat  BY <2>2
  <2>7. q[rank[i]] = i  BY <2>4, <2>5, <2>6
  <2>8. QED  BY <2>1, <2>7
<1>9. QED  BY <1>1, <1>6, <1>7, <1>8

Plain == Seq(Byte \ {Quote})

(* The quotes of s are at q, and between them are the m first texts of f. *)
Splits(s, q, m, f) ==
    /\ q \in [1 .. 2 * m -> 1 .. Len(s)]
    /\ \A a, b \in 1 .. 2 * m : a < b => q[a] < q[b]
    /\ \A i \in 1 .. Len(s) : s[i] = Quote <=> \E a \in 1 .. 2 * m : q[a] = i
    /\ \A k \in 1 .. m :
          /\ q[2 * k] = q[2 * k - 1] + Len(f[k]) + 1
          /\ \A i \in 1 .. Len(f[k]) : s[q[2 * k - 1] + i] = f[k][i]

(* What parseJSONArray makes of such a text. *)
LEMMA SplitsIsParsed ==
    ASSUME NEW s \in Text, NEW f \in Seq(Plain), NEW q, Splits(s, q, Len(f), f)
    PROVE  ParseJSONArray(s) = f
<1> DEFINE m == Len(f)
           P == {i \in 1 .. Len(s) : s[i] = Quote}
<1>1. m \in Nat /\ Len(s) \in Nat /\ P \subseteq Nat  BY DEF Text
<1>2. q \in [1 .. 2 * m -> P]  BY DEF Splits
<1>3. InOrder(P) = q
  <2>1. \A i \in P : \E a \in 1 .. 2 * m : q[a] = i  BY DEF Splits
  <2>2. \A a, b \in 1 .. 2 * m : a < b => q[a] < q[b]  BY DEF Splits
  <2>3. 2 * m \in Nat  BY <1>1
  <2> HIDE DEF P, m
  <2>4. QED  BY <1>1, <1>2, <2>1, <2>2, <2>3, InOrderIs
<1>4. Len(q) = 2 * m /\ (2 * m) \div 2 = m  BY <1>1, <1>2
<1>5. ASSUME NEW k \in 1 .. m
      PROVE  SubSeq(s, q[2 * k - 1] + 1, q[2 * k] - 1) = f[k]
  <2> DEFINE a == q[2 * k - 1]
             b == q[2 * k]
             n == Len(f[k])
  <2>1. 2 * k - 1 \in 1 .. 2 * m /\ 2 * k \in 1 .. 2 * m  BY <1>1
  <2>2. a \in 1 .. Len(s) /\ b \in 1 .. Len(s)  BY <1>2, <2>1
  <2>3. f[k] \in Plain /\ n \in Nat  BY DEF Plain
  <2>4. b = a + n + 1 /\ \A i \in 1 .. n : s[a + i] = f[k][i]  BY DEF Splits
  <2> HIDE DEF a, b
  <2>5. Len(SubSeq(s, a + 1, b - 1)) = n /\ SubSeq(s, a + 1, b - 1) \in Seq(Byte)
    BY <1>1, <2>2, <2>3, <2>4 DEF Text
  <2>6. \A i \in 1 .. n : SubSeq(s, a + 1, b - 1)[i] = f[k][i]
    <3>1. SUFFICES ASSUME NEW i \in 1 .. n PROVE SubSeq(s, a + 1, b - 1)[i] = f[k][i]  OBVIOUS
    <3>2. SubSeq(s, a + 1, b - 1)[i] = s[a + i]  BY <1>1, <2>2, <2>3, <2>4 DEF Text
    <3>3. QED  BY <2>4, <3>2
  <2>7. f[k] \in Seq(Byte)  BY <2>3 DEF Plain
  <2>8. SubSeq(s, a + 1, b - 1) = f[k]
    <3> DEFINE x == SubSeq(s, a + 1, b - 1)
               y == f[k]
    <3>1. x \in Seq(Byte) /\ y \in Seq(Byte) /\ Len(x) = Len(y)
          /\ \A i \in 1 .. Len(x) : x[i] = y[i]
      BY <2>5, <2>6, <2>7
    <3> HIDE DEF x, y
    <3>2. x = y  BY <3>1, SeqEqual
    <3>3. QED  BY <3>2 DEF x, y
  <2>9. QED  BY <2>8 DEF a, b
<1>6. ParseJSONArray(s) = [k \in 1 .. m |-> SubSeq(s, q[2 * k - 1] + 1, q[2 * k] - 1)]
  <2> HIDE DEF m
  <2>1. QED  BY <1>3, <1>4 DEF ParseJSONArray
<1>7. QED  BY <1>1, <1>5, <1>6

(* What stands where when one more text in quotes is put to the end. *)
LEMMA PieceIs ==
    ASSUME NEW s \in Text, NEW t \in Plain
    PROVE  LET u == s \o (<<Quote>> \o t \o <<Quote>>)
           IN  /\ u \in Text
               /\ Len(u) = Len(s) + Len(t) + 2
               /\ \A i \in 1 .. Len(s) : u[i] = s[i]
               /\ u[Len(s) + 1] = Quote /\ u[Len(s) + Len(t) + 2] = Quote
               /\ \A i \in 1 .. Len(t) : u[Len(s) + 1 + i] = t[i]
<1> DEFINE w == <<Quote>> \o t \o <<Quote>>
           l == Len(s)
           n == Len(t)
           u == s \o w
<1>1. s \in Seq(Byte) /\ t \in Seq(Byte) /\ l \in Nat /\ n \in Nat  BY DEF Plain, Text
<1>2. /\ w \in Seq(Byte) /\ Len(w) = n + 2 /\ w[1] = Quote /\ w[n + 2] = Quote
      /\ \A i \in 1 .. n : w[i + 1] = t[i]
  BY <1>1 DEF Quote, Byte
<1> HIDE DEF w
<1>3. /\ u \in Seq(Byte) /\ Len(u) = l + (n + 2)
      /\ \A i \in 1 .. l + (n + 2) : u[i] = IF i <= l THEN s[i] ELSE w[i - l]
  <2>1. s \in Seq(Byte) /\ w \in Seq(Byte)  BY <1>1, <1>2
  <2>2. /\ u \in Seq(Byte) /\ Len(u) = Len(s) + Len(w)
        /\ \A i \in 1 .. Len(s) + Len(w) : u[i] = IF i <= Len(s) THEN s[i] ELSE w[i - Len(s)]
    BY <2>1, ConcatProperties
  <2>3. Len(w) = n + 2  BY <1>2
  <2> HIDE DEF u, n
  <2>4. QED  BY <2>2, <2>3
<1>4. ASSUME NEW i \in 1 .. l PROVE u[i] = s[i]  BY <1>1, <1>3
<1>5. ASSUME NEW i \in 1 .. n + 2 PROVE u[l + i] = w[i]
  <2>1. l + i \in 1 .. l + (n + 2) /\ ~(l + i <= l) /\ (l + i) - l = i  BY <1>1
  <2> HIDE DEF u
  <2>2. QED  BY <2>1, <1>3
<1>6. u[l + 1] = Quote /\ u[l + n + 2] = Quote
  <2>1. 1 \in 1 .. n + 2 /\ n + 2 \in 1 .. n + 2 /\ l + n + 2 = l + (n + 2)  BY <1>1
  <2>2. QED  BY <2>1, <1>2, <1>5
<1>7. ASSUME NEW i \in 1 .. n PROVE u[l + 1 + i] = t[i]
  <2>1. i + 1 \in 1 .. n + 2 /\ l + 1 + i = l + (i + 1)  BY <1>1
  <2>2. u[l + (i + 1)] = w[i + 1]  BY <2>1, <1>5
  <2>3. QED  BY <2>1, <2>2, <1>2
<1>8. Len(u) = l + n + 2  BY <1>1, <1>3
<1>9. QED  BY <1>3, <1>4, <1>6, <1>7, <1>8 DEF w, Text

(* One more text in quotes. *)
LEMMA SplitsOneMore ==
    ASSUME NEW s \in Text, NEW f \in Seq(Plain), NEW m \in Nat, m + 1 \in 1 .. Len(f),
           NEW q, Splits(s, q, m, f)
    PROVE  \E r : Splits(s \o (<<Quote>> \o f[m + 1] \o <<Quote>>), r, m + 1, f)
<1> DEFINE t == f[m + 1]
           l == Len(s)
           n == Len(t)
           s2 == s \o (<<Quote>> \o t \o <<Quote>>)
           r == [a \in 1 .. 2 * (m + 1) |-> IF a = 2 * m + 1 THEN l + 1
                                            ELSE IF a = 2 * m + 2 THEN l + n + 2 ELSE q[a]]
<1>1. t \in Plain /\ l \in Nat /\ n \in Nat  BY DEF Plain, Text
<1>2. \A i \in 1 .. n : t[i] # Quote  BY <1>1 DEF Plain
<1>3. /\ Len(s2) = l + n + 2
      /\ \A i \in 1 .. l : s2[i] = s[i]
      /\ s2[l + 1] = Quote /\ s2[l + n + 2] = Quote
      /\ \A i \in 1 .. n : s2[l + 1 + i] = t[i]
  BY <1>1, PieceIs
<1>4. /\ \A a \in 1 .. 2 * m : q[a] \in 1 .. l
      /\ \A a, b \in 1 .. 2 * m : a < b => q[a] < q[b]
      /\ \A i \in 1 .. l : s[i] = Quote <=> \E a \in 1 .. 2 * m : q[a] = i
      /\ \A k \in 1 .. m :
          /\ q[2 * k] = q[2 * k - 1] + Len(f[k]) + 1
          /\ \A i \in 1 .. Len(f[k]) : s[q[2 * k - 1] + i] = f[k][i]
  BY DEF Splits
<1>5. /\ \A a \in 1 .. 2 * m : r[a] = q[a]
      /\ r[2 * m + 1] = l + 1 /\ r[2 * m + 2] = l + n + 2
      /\ \A a \in 1 .. 2 * (m + 1) : a \in 1 .. 2 * m \/ a = 2 * m + 1 \/ a = 2 * m + 2
      /\ r = [a \in 1 .. 2 * (m + 1) |-> r[a]]
  OBVIOUS
<1> HIDE DEF r, s2, n, l, t
<1>6. ASSUME NEW a \in 1 .. 2 * (m + 1)
      PROVE  \/ a \in 1 .. 2 * m /\ r[a] = q[a] /\ q[a] \in 1 .. l
             \/ a = 2 * m + 1 /\ r[a] = l + 1
             \/ a = 2 * m + 2 /\ r[a] = l + n + 2
  BY <1>4, <1>5
<1>7. r \in [1 .. 2 * (m + 1) -> 1 .. Len(s2)]
  <2>1. ASSUME NEW a \in 1 .. 2 * (m + 1) PROVE r[a] \in 1 .. Len(s2)
    <3>1. r[a] \in 1 .. l \/ r[a] = l + 1 \/ r[a] = l + n + 2  BY <1>6
    <3>2. QED  BY <3>1, <1>1, <1>3
  <2>2. QED  BY <2>1, <1>5
<1>8. \A a, b \in 1 .. 2 * (m + 1) : a < b => r[a] < r[b]
  <2>1. SUFFICES ASSUME NEW a \in 1 .. 2 * (m + 1), NEW b \in 1 .. 2 * (m + 1), a < b
                 PROVE  r[a] < r[b]
    OBVIOUS
  <2>2. CASE b \in 1 .. 2 * m
    <3>1. a \in 1 .. 2 * m  BY <2>1, <2>2
    <3>2. QED  BY <2>1, <2>2, <3>1, <1>4, <1>5
  <2>3. CASE a \in 1 .. 2 * m /\ b \notin 1 .. 2 * m
    <3>1. r[a] \in 1 .. l  BY <2>3, <1>4, <1>5
    <3>2. r[b] = l + 1 \/ r[b] = l + n + 2  BY <2>3, <1>6
    <3>3. QED  BY <3>1, <3>2, <1>1
  <2>4. CASE a \notin 1 .. 2 * m
    <3>1. a = 2 * m + 1 /\ b = 2 * m + 2  BY <2>1, <2>4, <1>5
    <3>2. QED  BY <3>1, <1>1, <1>5
  <2>5. QED  BY <2>1, <2>2, <2>3, <2>4
<1>9. ASSUME NEW i \in 1 .. Len(s2)
      PROVE  s2[i] = Quote <=> \E a \in 1 .. 2 * (m + 1) : r[a] = i
  <2>1. CASE i \in 1 .. l
    <3>1. s2[i] = Quote <=> \E a \in 1 .. 2 * m : q[a] = i  BY <2>1, <1>3, <1>4
    <3>2. \A a \in 1 .. 2 * m : a \in 1 .. 2 * (m + 1)  OBVIOUS
    <3>3. \A a \in 1 .. 2 * (m + 1) : r[a] = i => a \in 1 .. 2 * m  BY <2>1, <1>1, <1>6
    <3>4. QED  BY <3>1, <3>2, <3>3, <1>5
  <2>2. CASE i = l + 1 \/ i = l + n + 2
    <3>1. s2[i] = Quote  BY <2>2, <1>3
    <3>2. 2 * m + 1 \in 1 .. 2 * (m + 1) /\ 2 * m + 2 \in 1 .. 2 * (m + 1)  OBVIOUS
    <3>3. QED  BY <3>1, <3>2, <2>2, <1>5
  <2>3. CASE i > l + 1 /\ i < l + n + 2
    <3>1. i - l - 1 \in 1 .. n /\ l + 1 + (i - l - 1) = i  BY <2>3, <1>1, <1>3
    <3>2. s2[i] # Quote  BY <3>1, <1>2, <1>3
    <3>3. \A a \in 1 .. 2 * (m + 1) : r[a] # i
      <4>1. SUFFICES ASSUME NEW a \in 1 .. 2 * (m + 1) PROVE r[a] # i  OBVIOUS
      <4>2. r[a] \in 1 .. l \/ r[a] = l + 1 \/ r[a] = l + n + 2  BY <1>6
      <4>3. i \in Nat  BY <1>1, <1>3
      <4>4. QED  BY <4>2, <4>3, <2>3, <1>1
    <3>4. QED  BY <3>2, <3>3
  <2>4. QED  BY <2>1, <2>2, <2>3, <1>1, <1>3
<1>10. ASSUME NEW k \in 1 .. m + 1
      PROVE  /\ r[2 * k] = r[2 * k - 1] + Len(f[k]) + 1
             /\ \A i \in 1 .. Len(f[k]) : s2[r[2 * k - 1] + i] = f[k][i]
  <2>1. CASE k \in 1 .. m
    <3>1. 2 * k \in 1 .. 2 * m /\ 2 * k - 1 \in 1 .. 2 * m  BY <2>1
    <3>2. r[2 * k] = q[2 * k] /\ r[2 * k - 1] = q[2 * k - 1]  BY <3>1, <1>5
    <3>3. Len(f[k]) \in Nat
      <4>1. k \in 1 .. Len(f)  BY <2>1
      <4>2. f[k] \in Plain  BY <4>1
      <4>3. QED  BY <4>2 DEF Plain
    <3>4. /\ q[2 * k] = q[2 * k - 1] + Len(f[k]) + 1
          /\ \A i \in 1 .. Len(f[k]) : s[q[2 * k - 1] + i] = f[k][i]
      BY <2>1, <1>4
    <3>5. q[2 * k - 1] \in 1 .. l /\ q[2 * k] \in 1 .. l  BY <3>1, <1>4
    <3>6. ASSUME NEW i \in 1 .. Len(f[k]) PROVE q[2 * k - 1] + i \in 1 .. l
      <4> DEFINE a == q[2 * k - 1]
                 b == q[2 * k]
                 h == Len(f[k])
      <4>1. a \in 1 .. l /\ b \in 1 .. l /\ b = a + h + 1 /\ h \in Nat /\ i \in 1 .. h
        BY <3>3, <3>4, <3>5
      <4> HIDE DEF a, b, h
      <4>2. a + i \in 1 .. l  BY <4>1, <1>1
      <4>3. QED  BY <4>2 DEF a
    <3>7. \A i \in 1 .. Len(f[k]) : s2[q[2 * k - 1] + i] = f[k][i]  BY <3>4, <3>6, <1>3
    <3>8. QED  BY <3>2, <3>4, <3>7
  <2>2. CASE k = m + 1
    <3>1. 2 * k = 2 * m + 2 /\ 2 * k - 1 = 2 * m + 1  BY <2>2
    <3>2. f[k] = t /\ Len(f[k]) = n  BY <2>2 DEF t, n
    <3>3. r[2 * k - 1] = l + 1 /\ r[2 * k] = l + n + 2  BY <3>1, <1>5
    <3>4. \A i \in 1 .. n : s2[(l + 1) + i] = t[i]  BY <1>3
    <3>5. l + n + 2 = (l + 1) + n + 1  BY <1>1
    <3>6. QED  BY <3>2, <3>3, <3>4, <3>5
  <2>3. QED  BY <2>1, <2>2
<1>11. Splits(s2, r, m + 1, f)  BY <1>7, <1>8, <1>9, <1>10 DEF Splits
<1>12. QED  BY <1>11 DEF s2, t

(* What a list of texts without a quote is written as is read as the same  *)
(* list, of any length: parseJSONArray gives back what json.dumps wrote,   *)
(* and JSON.parse what event_handler wrote                                 *)
(* (backend_client.cpp:351-361, browser_extension_communicator.cpp:150).   *)
THEOREM QuotedIsParsed ==
    ASSUME NEW f \in Seq(Plain)
    PROVE  Quoted(f) \in Text /\ ParseJSONArray(Quoted(f)) = f
<1> DEFINE n == Len(f)
           Longer(s, k) == s \o (<<Quote>> \o f[k] \o <<Quote>>)
           IsFirst(g) == g = [k \in 0 .. n |-> IF k = 0 THEN <<>> ELSE Longer(g[k - 1], k)]
           first == CHOOSE g : IsFirst(g)
           Upto(g, m) == \A k \in 0 .. m : g[k] = IF k = 0 THEN <<>> ELSE Longer(g[k - 1], k)
           T == {m \in Nat : m <= n => \E g \in [0 .. m -> Text] : Upto(g, m)}
           U == {m \in Nat : m <= n => first[m] \in Text /\ \E q : Splits(first[m], q, m, f)}
<1>1. n \in Nat /\ \A k \in 1 .. n : f[k] \in Plain  OBVIOUS
<1>2. \A s \in Text : \A k \in 1 .. n : Longer(s, k) \in Text  BY <1>1, PieceIs
<1>3. <<>> \in Text /\ Len(<<>>) = 0  BY DEF Text
<1>4. first[0] = <<>> /\ \A k \in 1 .. n : first[k] = Longer(first[k - 1], k)
  <2>1. 0 \in T
    <3>1. [k \in 0 .. 0 |-> <<>>] \in [0 .. 0 -> Text]  BY <1>3
    <3>2. Upto([k \in 0 .. 0 |-> <<>>], 0)  OBVIOUS
    <3>3. QED  BY <3>1, <3>2
  <2>2. ASSUME NEW m \in Nat, m \in T PROVE m + 1 \in T
    <3>1. SUFFICES ASSUME m + 1 <= n PROVE \E g \in [0 .. m + 1 -> Text] : Upto(g, m + 1)
      <4> HIDE DEF Upto
      <4>1. QED  OBVIOUS
    <3>2. PICK g \in [0 .. m -> Text] : Upto(g, m)  BY <1>1, <2>2, <3>1
    <3> DEFINE h == [k \in 0 .. m + 1 |-> IF k <= m THEN g[k] ELSE Longer(g[m], m + 1)]
    <3>3. g[m] \in Text /\ m + 1 \in 1 .. n  BY <1>1, <3>1
    <3>4. Longer(g[m], m + 1) \in Text  BY <3>3, <1>2
    <3> HIDE DEF Longer
    <3>5. h \in [0 .. m + 1 -> Text]
      <4>1. \A k \in 0 .. m : g[k] \in Text  OBVIOUS
      <4>2. QED  BY <4>1, <3>4
    <3>6. Upto(h, m + 1)
      <4>1. SUFFICES ASSUME NEW k \in 0 .. m + 1
                     PROVE  h[k] = IF k = 0 THEN <<>> ELSE Longer(h[k - 1], k)
        OBVIOUS
      <4>2. CASE k = 0  BY <4>2, <3>2
      <4>3. CASE k \in 1 .. m  BY <4>3, <3>2
      <4>4. CASE k = m + 1  BY <4>4
      <4>5. QED  BY <4>2, <4>3, <4>4
    <3>7. QED  BY <3>5, <3>6
  <2>3. n \in T
    <3> HIDE DEF T, n
    <3>1. QED  BY <1>1, <2>1, <2>2, Induction
  <2>4. PICK g \in [0 .. n -> Text] : Upto(g, n)  BY <1>1, <2>3
  <2> HIDE DEF Longer
  <2>5. IsFirst(g)
    <3>1. g = [k \in 0 .. n |-> g[k]]  OBVIOUS
    <3>2. QED  BY <3>1, <2>4
  <2>6. IsFirst(first)
    <3> HIDE DEF IsFirst
    <3>1. QED  BY <2>5
  <2> HIDE DEF first
  <2>7. QED  BY <2>6, <1>1
<1>5. Quoted(f) = first[n]  BY DEF Quoted
<1> HIDE DEF first, IsFirst
<1>6. 0 \in U
  <2>1. Splits(<<>>, <<>>, 0, f)  BY DEF Splits
  <2>2. QED  BY <2>1, <1>3, <1>4
<1>7. ASSUME NEW m \in Nat, m \in U PROVE m + 1 \in U
  <2>1. SUFFICES ASSUME m + 1 <= n
                 PROVE  first[m + 1] \in Text /\ \E q : Splits(first[m + 1], q, m + 1, f)
    OBVIOUS
  <2>2. m + 1 \in 1 .. n /\ m <= n  BY <1>1, <2>1
  <2>3. first[m] \in Text /\ \E q : Splits(first[m], q, m, f)  BY <2>2, <1>7
  <2>4. first[m + 1] = Longer(first[m], m + 1)
    <3>1. m + 1 - 1 = m  OBVIOUS
    <3> HIDE DEF Longer
    <3>2. first[m + 1] = Longer(first[m + 1 - 1], m + 1)  BY <1>4, <2>2
    <3>3. QED  BY <3>1, <3>2
  <2>5. \E q : Splits(Longer(first[m], m + 1), q, m + 1, f)  BY <2>2, <2>3, SplitsOneMore
  <2>6. QED  BY <2>2, <2>3, <2>4, <2>5, <1>2
<1>8. n \in U
  <2> HIDE DEF U, n
  <2>1. QED  BY <1>1, <1>6, <1>7, Induction
<1>9. first[n] \in Text /\ \E q : Splits(first[n], q, n, f)  BY <1>1, <1>8
<1>10. QED  BY <1>5, <1>9, SplitsIsParsed

(* What encryptWithKey makes of a text holds no quote, so that it can      *)
(* stand in such a list.                                                   *)
LEMMA EncryptedIsPlain ==
    ASSUME NEW k \in Int, k # NoKey, NEW s \in CString
    PROVE  EncryptWithKey(k, s) \in Plain
<1> DEFINE x == CbcEncrypt(k, Padded(s))
           n == Len(x)
<1>1. x \in Text /\ EncryptWithKey(k, s) = Base64Encode(x)
  BY CipherIs DEF EncryptWithKey, AesEncode
<1>2. n \in Nat /\ \A i \in 1 .. n : x[i] \in Byte  BY <1>1 DEF Text
<1> HIDE DEF x, n
<1>3. \A i \in Nat : At(x, i) \in Byte \/ i = 0  BY <1>2 DEF At, Byte, n
<1>4. 4 * ((n + 2) \div 3) \in Nat  BY <1>2
<1>5. ASSUME NEW i \in 1 .. 4 * ((n + 2) \div 3)
      PROVE  LET g == 3 * ((i - 1) \div 4)
                 j == (i - 1) % 4
             IN  (IF g + j > n THEN Equals
                  ELSE CharOf(EncodedValue(At(x, g + 1), At(x, g + 2), At(x, g + 3), j)))
                   \in Byte \ {Quote}
  <2> DEFINE g == 3 * ((i - 1) \div 4)
             j == (i - 1) % 4
             v == EncodedValue(At(x, g + 1), At(x, g + 2), At(x, g + 3), j)
  <2>1. g \in Nat /\ j \in 0 .. 3  BY <1>4
  <2>2. v \in 0 .. 63
    <3>1. At(x, g + 1) \in Byte /\ At(x, g + 2) \in Byte /\ At(x, g + 3) \in Byte
      BY <1>3, <2>1
    <3>2. CASE j \in 0 .. 2  BY <3>1, <3>2, NeighboursHoldByte
    <3>3. CASE j = 3  BY <3>1, <3>3, NeighboursHoldByte, 2 \in 0 .. 2, 2 + 1 = 3
    <3>4. QED  BY <2>1, <3>2, <3>3
  <2> HIDE DEF v
  <2>3. CharOf(v) \in Byte \ {Quote}  BY <2>2 DEF CharOf, Byte, Quote
  <2>4. Equals \in Byte \ {Quote}  BY DEF Equals, Byte, Quote
  <2>5. QED  BY <2>3, <2>4 DEF v
<1>6. QED  BY <1>1, <1>4, <1>5 DEF Base64Encode, Plain, n

-----------------------------------------------------------------------------
(* The site of a page. *)

(* There is a first character that ends a text, or its end. *)
LEMMA LengthBeforeExists ==
    ASSUME NEW S, NEW s \in Seq(S), NEW stop
    PROVE  /\ LengthBefore(s, stop) \in 0 .. Len(s)
           /\ \A k \in 1 .. LengthBefore(s, stop) : s[k] \notin stop
           /\ LengthBefore(s, stop) = Len(s) \/ s[LengthBefore(s, stop) + 1] \in stop
<1> DEFINE P == {i \in 1 .. Len(s) : s[i] \in stop}
           c == Cardinality(P)
           q == InOrder(P)
           Is(n) == /\ \A k \in 1 .. n : s[k] \notin stop
                    /\ n = Len(s) \/ s[n + 1] \in stop
<1>1. Len(s) \in Nat  OBVIOUS
<1>2. \E n \in 0 .. Len(s) : Is(n)
  <2>1. CASE P = {}
    <3>1. Is(Len(s))  BY <2>1, <1>1
    <3>2. QED  BY <3>1, <1>1
  <2>2. CASE P # {}
    <3>1. P \subseteq Nat /\ P \in SUBSET (1 .. Len(s)) /\ IsFiniteSet(1 .. Len(s))
      BY <1>1, FS_Interval
    <3>2. /\ c \in Nat /\ q \in [1 .. c -> P]
          /\ \A a, b \in 1 .. c : a < b => q[a] < q[b]
          /\ \A i \in P : \E k \in 1 .. c : q[k] = i
      <4> HIDE DEF P
      <4>1. QED  BY <3>1, FS_Subset, InOrderEnumerates
    <3> HIDE DEF q, c
    <3>3. 1 \in 1 .. c  BY <2>2, <3>2
    <3>4. q[1] \in P /\ \A i \in P : q[1] <= i
      <4>1. q[1] \in P  BY <3>2, <3>3
      <4>2. SUFFICES ASSUME NEW i \in P PROVE q[1] <= i  BY <4>1
      <4>3. PICK k \in 1 .. c : q[k] = i  BY <3>2
      <4>4. k = 1 \/ 1 < k  BY <4>3
      <4>5. QED  BY <4>1, <4>3, <4>4, <3>1, <3>2, <3>3
    <3>5. q[1] - 1 \in 0 .. Len(s) /\ (q[1] - 1) + 1 = q[1]  BY <3>1, <3>4
    <3>6. Is(q[1] - 1)
      <4>1. s[q[1]] \in stop  BY <3>4
      <4>2. ASSUME NEW k \in 1 .. q[1] - 1 PROVE s[k] \notin stop
        <5>1. k \in 1 .. Len(s) /\ ~(q[1] <= k)  BY <3>5, <1>1
        <5>2. QED  BY <5>1, <3>4
      <4>3. QED  BY <4>1, <4>2, <3>5
    <3>7. QED  BY <3>5, <3>6
  <2>3. QED  BY <2>1, <2>2
<1>3. LengthBefore(s, stop) = CHOOSE n \in 0 .. Len(s) : Is(n)  BY DEF LengthBefore
<1> HIDE DEF Is
<1>4. LengthBefore(s, stop) \in 0 .. Len(s) /\ Is(LengthBefore(s, stop))  BY <1>2, <1>3
<1>5. QED  BY <1>4 DEF Is

(* stripURL leaves no scheme and no null character. *)
LEMMA StrippedIsTyped ==
    ASSUME NEW u \in Seq(AddressChar)
    PROVE  StripURL(u) \in CString
<1> DEFINE scheme == IF Http \in ToSet(u) THEN Http ELSE Https
           P == {i \in 1 .. Len(u) : u[i] # scheme}
           kept == InOrder(P)
           v == [k \in 1 .. Len(kept) |-> u[kept[k]]]
           n == LengthBefore(v, {Slash, Https})
<1>1. Len(u) \in Nat /\ \A i \in 1 .. Len(u) : u[i] \in AddressChar  OBVIOUS
<1>2. Len(kept) \in Nat /\ kept \in [1 .. Len(kept) -> P]
  <2>1. P \subseteq Nat /\ P \in SUBSET (1 .. Len(u)) /\ IsFiniteSet(1 .. Len(u))
    BY <1>1, FS_Interval
  <2>2. Cardinality(P) \in Nat /\ kept \in [1 .. Cardinality(P) -> P]
    <3> HIDE DEF P
    <3>1. QED  BY <2>1, FS_Subset, InOrderEnumerates
  <2> HIDE DEF kept
  <2>3. Len(kept) = Cardinality(P)  BY <2>2
  <2>4. QED  BY <2>2, <2>3
<1> HIDE DEF kept, scheme
<1>3. \A k \in 1 .. Len(kept) : v[k] \in AddressChar /\ v[k] # scheme  BY <1>1, <1>2
<1>4. v \in Seq(AddressChar) /\ Len(v) = Len(kept)  BY <1>2, <1>3
<1>5. scheme # Http => \A i \in 1 .. Len(u) : u[i] # Http
  BY DEF scheme, ToSet
<1>6. \A k \in 1 .. Len(kept) : v[k] = Http => scheme # Http /\ FALSE
  BY <1>2, <1>3, <1>5
<1>7. StripURL(u) = CASE n = Len(v) -> SubSeq(v, 1, n - 1)
                      [] n < Len(v) /\ v[n + 1] = Slash -> SubSeq(v, 1, n)
                      [] OTHER -> SubSeq(v, 1, n) \o HttpsColon
  BY DEF StripURL, kept, scheme
<1> HIDE DEF v, n
<1>8. n \in 0 .. Len(v) /\ \A k \in 1 .. n : v[k] \notin {Slash, Https}
  BY <1>4, LengthBeforeExists DEF n
<1>9. \A k \in 1 .. n : v[k] \in Byte \ {Null}  BY <1>3, <1>4, <1>6, <1>8 DEF AddressChar
<1>10. SubSeq(v, 1, n) \in CString /\ SubSeq(v, 1, n - 1) \in CString
  <2>1. n \in Int /\ n - 1 \in Int /\ \A k \in 1 .. n - 1 : k \in 1 .. n  BY <1>8
  <2> HIDE DEF n
  <2>2. QED  BY <1>9, <2>1, SubSeqProperties DEF CString
<1>11. HttpsColon \in CString  BY DEF HttpsColon, CString, Byte, Null
<1>12. SubSeq(v, 1, n) \o HttpsColon \in CString  BY <1>10, <1>11 DEF CString
<1>13. QED  BY <1>7, <1>8, <1>10, <1>12

(* What ends the value of a query variable does not stand between a % and  *)
(* its digits.                                                             *)
LEMMA BeforeIsAddress ==
    ASSUME NEW s, IsAddress(s)
    PROVE  IsAddress(Before(s, UrlEnd))
<1> DEFINE stop == UrlEnd
           n == LengthBefore(s, stop)
           t == SubSeq(s, 1, n)
<1>1. s \in Seq(AddressChar) /\ Len(s) \in Nat  BY DEF IsAddress, AddressChar
<1>2. n \in 0 .. Len(s) /\ (n = Len(s) \/ s[n + 1] \in stop)  BY <1>1, LengthBeforeExists
<1> HIDE DEF n
<1>3. t \in Seq(AddressChar) /\ Len(t) = n /\ \A i \in 1 .. n : t[i] = s[i]  BY <1>1, <1>2
<1>4. HexDigit \cap stop = {}  BY DEF HexDigit, UrlEnd, QuestionMark, Ampersand, Space
<1> HIDE DEF t, stop
<1>5. ASSUME NEW i \in 1 .. n, t[i] = Percent
      PROVE  i + 2 <= n /\ {t[i + 1], t[i + 2]} \subseteq HexDigit /\ Escaped(t, i) # 0
  <2>1. i \in 1 .. Len(s) /\ s[i] = Percent  BY <1>2, <1>3, <1>5
  <2>2. i + 2 <= Len(s) /\ s[i + 1] \in HexDigit /\ s[i + 2] \in HexDigit /\ Escaped(s, i) # 0
    BY <2>1 DEF IsAddress
  <2>3. n # i /\ n # i + 1
    <3>1. CASE n = i  BY <3>1, <1>1, <1>2, <1>4, <2>2
    <3>2. CASE n = i + 1
      <4>1. n + 1 = i + 2 /\ n # Len(s)  BY <3>2, <2>2, <1>1
      <4>2. s[i + 2] \in stop  BY <4>1, <1>2
      <4>3. QED  BY <4>2, <2>2, <1>4
    <3>3. QED  BY <3>1, <3>2
  <2>4. i + 2 <= n  BY <2>3, <1>2, <2>1
  <2>5. t[i + 1] = s[i + 1] /\ t[i + 2] = s[i + 2]  BY <2>4, <1>2, <1>3
  <2>6. QED  BY <2>2, <2>4, <2>5 DEF Escaped
<1>6. QED  BY <1>3, <1>5 DEF IsAddress, Before, AddressChar, t, n, stop

(* url_decode does not run past the end of an address, and makes no null   *)
(* character of it.                                                        *)
LEMMA DecodedIsTyped ==
    ASSUME NEW s, IsAddress(s)
    PROVE  UrlDecode(s) \in Seq(AddressChar)
<1> DEFINE n == Len(s)
           A == Seq(AddressChar)
           D(g, i) == CASE i > n -> <<>>
                        [] i <= n /\ s[i] = Percent -> <<Escaped(s, i)>> \o g[i + 3]
                        [] i <= n /\ s[i] = Plus -> <<Space>> \o g[i + 1]
                        [] OTHER -> <<s[i]>> \o g[i + 1]
           IsFrom(g) == g = [i \in 1 .. n + 1 |-> D(g, i)]
           from == CHOOSE g : IsFrom(g)
           T == {m \in Nat : m <= n => \E g \in [n + 1 - m .. n + 1 -> A] :
                                          \A i \in n + 1 - m .. n + 1 : g[i] = D(g, i)}
           U == {m \in Nat : m <= n => \A i \in n + 1 - m .. n + 1 : from[i] \in A}
<1>1. n \in Nat /\ \A i \in 1 .. n : s[i] \in AddressChar  BY DEF IsAddress, AddressChar
<1>2. \A i \in 1 .. n : s[i] = Percent => i + 3 \in 1 .. n + 1 /\ Escaped(s, i) \in AddressChar
  <2>1. SUFFICES ASSUME NEW i \in 1 .. n, s[i] = Percent
                 PROVE  i + 3 \in 1 .. n + 1 /\ Escaped(s, i) \in AddressChar
    OBVIOUS
  <2>2. i + 2 <= n /\ s[i + 1] \in HexDigit /\ s[i + 2] \in HexDigit /\ Escaped(s, i) # 0
    BY <2>1 DEF IsAddress
  <2>3. \A d \in HexDigit : HexToInt(d) \in 0 .. 15
    <3>1. SUFFICES ASSUME NEW d \in HexDigit PROVE HexToInt(d) \in 0 .. 15  OBVIOUS
    <3>2. CASE d \in 48 .. 57  BY <3>2 DEF HexToInt
    <3>3. CASE d \in 65 .. 70  BY <3>3 DEF HexToInt
    <3>4. CASE d \in 97 .. 102  BY <3>4 DEF HexToInt
    <3>5. QED  BY <3>1, <3>2, <3>3, <3>4 DEF HexDigit
  <2>4. Escaped(s, i) \in 1 .. 255
    <3>1. HexToInt(s[i + 1]) \in 0 .. 15 /\ HexToInt(s[i + 2]) \in 0 .. 15  BY <2>2, <2>3
    <3>2. \A a, b \in 0 .. 15 : a * 16 + b \in 0 .. 255  OBVIOUS
    <3>3. Escaped(s, i) \in 0 .. 255  BY <3>1, <3>2 DEF Escaped
    <3>4. QED  BY <3>3, <2>2
  <2>5. QED  BY <2>2, <2>4, <1>1 DEF AddressChar, Byte, Null
<1>3. ASSUME NEW i \in 1 .. n + 1, NEW g,
             i <= n /\ s[i] = Percent => g[i + 3] \in A,
             i <= n /\ s[i] # Percent => g[i + 1] \in A
      PROVE  D(g, i) \in A
  <2>1. Space \in AddressChar  BY DEF AddressChar, Space, Byte, Null
  <2>2. CASE i > n
    <3>1. ~(i <= n)  BY <2>2, <1>1
    <3>2. QED  BY <2>2, <3>1
  <2>3. CASE i <= n /\ s[i] = Percent
    <3>1. Escaped(s, i) \in AddressChar /\ ~(i > n) /\ s[i] # Plus
      BY <2>3, <1>1, <1>2 DEF Plus, Percent
    <3>2. D(g, i) = <<Escaped(s, i)>> \o g[i + 3]  BY <3>1, <2>3
    <3>3. QED  BY <3>1, <3>2, <2>3, <1>3
  <2>4. CASE i <= n /\ s[i] # Percent
    <3>1. s[i] \in AddressChar /\ ~(i > n)  BY <2>4, <1>1
    <3>2. D(g, i) = <<Space>> \o g[i + 1] \/ D(g, i) = <<s[i]>> \o g[i + 1]  BY <3>1, <2>4
    <3>3. QED  BY <3>1, <3>2, <2>1, <2>4, <1>3
  <2>5. QED  BY <2>2, <2>3, <2>4, <1>1
<1>4. ASSUME NEW i \in 1 .. n + 1, NEW g, NEW h,
             i <= n /\ s[i] = Percent => g[i + 3] = h[i + 3],
             i <= n /\ s[i] # Percent => g[i + 1] = h[i + 1]
      PROVE  D(g, i) = D(h, i)
  <2>1. CASE i > n
    <3>1. ~(i <= n)  BY <2>1, <1>1
    <3>2. QED  BY <2>1, <3>1
  <2>2. CASE i <= n /\ s[i] = Percent
    <3>1. ~(i > n) /\ s[i] # Plus  BY <2>2, <1>1 DEF Plus, Percent
    <3>2. QED  BY <3>1, <2>2, <1>4
  <2>3. CASE i <= n /\ s[i] # Percent
    <3>1. ~(i > n)  BY <2>3, <1>1
    <3>2. g[i + 1] = h[i + 1]  BY <2>3, <1>4
    <3>3. QED  BY <3>1, <3>2, <2>3
  <2>4. QED  BY <2>1, <2>2, <2>3, <1>1
<1> HIDE DEF D
<1>5. \A i \in 1 .. n + 1 : from[i] = D(from, i)
  <2>1. 0 \in T
    <3> DEFINE g == [i \in n + 1 .. n + 1 |-> <<>>]
    <3>1. D(g, n + 1) = <<>>  BY <1>1 DEF D
    <3>2. <<>> \in A  OBVIOUS
    <3>3. g \in [n + 1 - 0 .. n + 1 -> A] /\ \A i \in n + 1 - 0 .. n + 1 : g[i] = D(g, i)
      BY <3>1, <3>2, <1>1
    <3>4. QED  BY <3>3
  <2>2. ASSUME NEW m \in Nat, m \in T PROVE m + 1 \in T
    <3> DEFINE j == n + 1 - (m + 1)
    <3>1. SUFFICES ASSUME m + 1 <= n
                   PROVE  \E h \in [j .. n + 1 -> A] : \A i \in j .. n + 1 : h[i] = D(h, i)
      OBVIOUS
    <3>2. j \in 1 .. n /\ n + 1 - m = j + 1  BY <3>1, <1>1
    <3> HIDE DEF j
    <3>3. PICK g \in [j + 1 .. n + 1 -> A] : \A i \in j + 1 .. n + 1 : g[i] = D(g, i)
      <4>1. m <= n  BY <3>1, <1>1
      <4>2. \E g \in [n + 1 - m .. n + 1 -> A] : \A i \in n + 1 - m .. n + 1 : g[i] = D(g, i)
        BY <4>1, <2>2
      <4>3. QED  BY <4>2, <3>2
    <3> DEFINE h == [i \in j .. n + 1 |-> IF i = j THEN D(g, j) ELSE g[i]]
    <3>4. \A i \in j .. n + 1 : i = j \/ i \in j + 1 .. n + 1  BY <3>2, <1>1
    <3>5. \A i \in j + 1 .. n + 1 : i \in j .. n + 1 /\ h[i] = g[i] /\ g[i] \in A
      BY <3>2, <1>1
    <3>6. D(g, j) \in A
      <4>1. j <= n /\ s[j] = Percent => g[j + 3] \in A  BY <3>2, <3>5, <1>1, <1>2
      <4>2. j <= n /\ s[j] # Percent => g[j + 1] \in A  BY <3>2, <3>5, <1>1
      <4>3. QED  BY <4>1, <4>2, <3>2, <1>1, <1>3
    <3>7. h \in [j .. n + 1 -> A]  BY <3>4, <3>5, <3>6
    <3>8. h[j] = D(g, j)  BY <3>2, <1>1
    <3> HIDE DEF h
    <3>9. ASSUME NEW i \in j .. n + 1 PROVE D(g, i) = D(h, i)
      <4>1. i \in 1 .. n + 1  BY <3>2, <1>1
      <4>2. i <= n /\ s[i] = Percent => g[i + 3] = h[i + 3]  BY <4>1, <3>2, <3>5, <1>1, <1>2
      <4>3. i <= n /\ s[i] # Percent => g[i + 1] = h[i + 1]  BY <4>1, <3>2, <3>5, <1>1
      <4>4. QED  BY <4>1, <4>2, <4>3, <1>4
    <3>10. \A i \in j .. n + 1 : h[i] = D(h, i)  BY <3>3, <3>4, <3>5, <3>8, <3>9
    <3>11. QED  BY <3>7, <3>10
  <2>3. n \in T
    <3> HIDE DEF T, n
    <3>1. QED  BY <1>1, <2>1, <2>2, Induction
  <2>4. n + 1 - n = 1  BY <1>1
  <2>5. PICK g \in [1 .. n + 1 -> A] : \A i \in 1 .. n + 1 : g[i] = D(g, i)
    <3>1. \E g \in [n + 1 - n .. n + 1 -> A] : \A i \in n + 1 - n .. n + 1 : g[i] = D(g, i)
      BY <1>1, <2>3
    <3>2. QED  BY <3>1, <2>4
  <2>6. IsFrom(g)
    <3>1. g = [i \in 1 .. n + 1 |-> g[i]]  OBVIOUS
    <3>2. QED  BY <3>1, <2>5
  <2>7. IsFrom(from)
    <3> HIDE DEF IsFrom
    <3>1. QED  BY <2>6
  <2> HIDE DEF from
  <2>8. QED  BY <2>7
<1>6. UrlDecode(s) = from[1]  BY DEF UrlDecode, D
<1> HIDE DEF from, IsFrom
<1>7. 0 \in U
  <2>1. D(from, n + 1) = <<>>  BY <1>1 DEF D
  <2>2. \A i \in n + 1 - 0 .. n + 1 : i = n + 1 /\ i \in 1 .. n + 1  BY <1>1
  <2>3. <<>> \in A  OBVIOUS
  <2>4. \A i \in n + 1 - 0 .. n + 1 : from[i] \in A  BY <2>1, <2>2, <2>3, <1>5
  <2>5. QED  BY <2>4
<1>8. ASSUME NEW m \in Nat, m \in U PROVE m + 1 \in U
  <2> DEFINE j == n + 1 - (m + 1)
  <2>1. SUFFICES ASSUME m + 1 <= n, NEW i \in j .. n + 1 PROVE from[i] \in A  OBVIOUS
  <2>2. j \in 1 .. n /\ n + 1 - m = j + 1 /\ m <= n  BY <2>1, <1>1
  <2> HIDE DEF j
  <2>3. \A k \in j + 1 .. n + 1 : from[k] \in A  BY <2>2, <1>8
  <2>4. i \in 1 .. n + 1 /\ j \in 1 .. n + 1 /\ (i = j \/ i \in j + 1 .. n + 1)  BY <2>1, <2>2, <1>1
  <2>5. D(from, j) \in A
    <3>1. j <= n /\ s[j] = Percent => from[j + 3] \in A  BY <2>2, <2>3, <1>1, <1>2
    <3>2. j <= n /\ s[j] # Percent => from[j + 1] \in A  BY <2>2, <2>3, <1>1
    <3>3. QED  BY <3>1, <3>2, <2>4, <1>3
  <2>6. QED  BY <2>3, <2>4, <2>5, <1>5
<1>9. n \in U
  <2> HIDE DEF U, n
  <2>1. QED  BY <1>1, <1>7, <1>8, Induction
<1>10. 1 \in n + 1 - n .. n + 1  BY <1>1
<1>11. QED  BY <1>1, <1>6, <1>9, <1>10

(* The site of every page is a text that can be encrypted. *)
LEMMA SiteIsTyped ==
    ASSUME NEW p \in Pages
    PROVE  Site(p) \in CString
<1>1. IsAddress(Address[p])  BY AddressesTyped
<1>2. UrlVar(Address[p]) \in Seq(AddressChar)
  BY <1>1, BeforeIsAddress, DecodedIsTyped DEF UrlVar
<1>3. QED  BY <1>2, StrippedIsTyped DEF Site

-----------------------------------------------------------------------------
(* The accounts of a site. *)

(* For every vault and every page: what getAccountsForWebsite reads of     *)
(* what view-accounts finds under the cipher text of the site are the      *)
(* accounts stored for it, of one name the last one, and no others         *)
(* (backend_client.cpp:395-423, controll_data.py:42-48).                   *)
THEOREM AccountsRead ==
    ASSUME NEW p \in Pages
    PROVE  AccountsIn(UserKey, ViewAccounts(Vault, EncryptWithKey(UserKey, Site(p)))) = StoredFor(p)
<1> DEFINE N == Len(Accounts)
           e == EncryptWithKey(UserKey, Site(p))
           E(s) == EncryptWithKey(UserKey, s)
           P == {i \in 1 .. N : Accounts[i].site = Site(p)}
           c == Cardinality(P)
           q == InOrder(P)
           f == [i \in 1 .. 2 * c |-> IF i % 2 = 1 THEN E(Accounts[q[(i + 1) \div 2]].name)
                                      ELSE E(Accounts[q[(i + 1) \div 2]].password)]
<1>1. /\ UserKey \in Int /\ UserKey # NoKey /\ Site(p) \in CString
      /\ N \in Nat /\ DOMAIN Accounts = 1 .. N
      /\ \A i \in 1 .. N : /\ Accounts[i].site \in CString
                           /\ Accounts[i].name \in CString /\ Accounts[i].password \in CString
  <2>1. UserKey \in Int /\ UserKey # NoKey /\ Site(p) \in CString  BY KeyTyped, SiteIsTyped
  <2> DEFINE R == [site : CString, name : CString, password : CString]
  <2>2. N \in Nat /\ DOMAIN Accounts = 1 .. N /\ \A i \in 1 .. N : Accounts[i] \in R
    <3> HIDE DEF R
    <3>1. Accounts \in Seq(R)  BY AccountsTyped DEF R
    <3>2. QED  BY <3>1
  <2>3. \A r \in R : r.site \in CString /\ r.name \in CString /\ r.password \in CString
    OBVIOUS
  <2> HIDE DEF R, N
  <2>4. QED  BY <2>1, <2>2, <2>3
<1>2. /\ Len(Vault) = N
      /\ \A i \in 1 .. N : /\ Vault[i].site = E(Accounts[i].site)
                           /\ Vault[i].name = E(Accounts[i].name)
                           /\ Vault[i].password = E(Accounts[i].password)
  BY <1>1 DEF Vault
<1>3. \A s, t \in CString : E(s) = E(t) <=> s = t  BY <1>1, CipherTextsDiffer
<1>4. \A s \in CString : E(s) \in Plain /\ DecryptWithKey(UserKey, E(s)) = s
  BY <1>1, EncryptedIsPlain, EncryptRoundTrip
<1> HIDE DEF E
<1>5. {i \in 1 .. Len(Vault) : Vault[i].site = e} = P  BY <1>1, <1>2, <1>3 DEF E
<1>6. /\ c \in Nat /\ q \in [1 .. c -> P]
      /\ \A a, b \in 1 .. c : a < b => q[a] < q[b]
      /\ \A i \in P : \E k \in 1 .. c : q[k] = i
  <2>1. P \subseteq Nat /\ P \in SUBSET (1 .. N)  BY <1>1
  <2>2. IsFiniteSet(P)
    <3>1. IsFiniteSet(1 .. N)  BY <1>1, FS_Interval
    <3> HIDE DEF P, N
    <3>2. QED  BY <2>1, <3>1, FS_Subset
  <2> HIDE DEF P
  <2>3. QED  BY <2>1, <2>2, InOrderEnumerates
<1>7. \A k \in 1 .. c : q[k] \in 1 .. N /\ q[k] \in Nat /\ Accounts[q[k]].site = Site(p)
  BY <1>1, <1>6
<1> HIDE DEF q, c, P
<1>8. Len(q) = c  BY <1>6
<1>9. ViewAccounts(Vault, e) = Quoted(f)
  <2> DEFINE Field(i) == LET a == Vault[q[(i + 1) \div 2]]
                         IN  IF i % 2 = 1 THEN a.name ELSE a.password
  <2>1. InOrder({i \in 1 .. Len(Vault) : Vault[i].site = e}) = q  BY <1>5 DEF q
  <2>2. ViewAccounts(Vault, e) = Quoted([i \in 1 .. 2 * c |-> Field(i)])
    BY <2>1, <1>8 DEF ViewAccounts
  <2>3. ASSUME NEW i \in 1 .. 2 * c PROVE Field(i) = f[i]
    <3>1. (i + 1) \div 2 \in 1 .. c  BY <1>6
    <3>2. QED  BY <3>1, <1>2, <1>7
  <2>4. [i \in 1 .. 2 * c |-> Field(i)] = f
    <3> HIDE DEF Field
    <3>1. QED  BY <2>3
  <2>5. QED  BY <2>2, <2>4
<1>10. f \in Seq(Plain) /\ Len(f) = 2 * c
  <2>1. 2 * c \in Nat  BY <1>6
  <2>2. ASSUME NEW i \in 1 .. 2 * c PROVE f[i] \in Plain
    <3>1. (i + 1) \div 2 \in 1 .. c  BY <1>6
    <3>2. QED  BY <3>1, <1>1, <1>4, <1>7
  <2>3. f = [i \in 1 .. 2 * c |-> f[i]]  OBVIOUS
  <2> HIDE DEF f
  <2>4. QED  BY <2>1, <2>2, <2>3
<1>11. \A i \in 1 .. c : /\ DecryptWithKey(UserKey, f[2 * i - 1]) = Accounts[q[i]].name
                         /\ DecryptWithKey(UserKey, f[2 * i]) = Accounts[q[i]].password
  <2>1. SUFFICES ASSUME NEW i \in 1 .. c
                 PROVE  /\ DecryptWithKey(UserKey, f[2 * i - 1]) = Accounts[q[i]].name
                        /\ DecryptWithKey(UserKey, f[2 * i]) = Accounts[q[i]].password
    OBVIOUS
  <2>2. /\ 2 * i - 1 \in 1 .. 2 * c /\ 2 * i \in 1 .. 2 * c
        /\ (2 * i - 1) % 2 = 1 /\ (2 * i) % 2 = 0
        /\ (2 * i - 1 + 1) \div 2 = i /\ (2 * i + 1) \div 2 = i
    BY <1>6
  <2>3. f[2 * i - 1] = E(Accounts[q[i]].name) /\ f[2 * i] = E(Accounts[q[i]].password)
    BY <2>2
  <2>4. QED  BY <2>3, <1>1, <1>4, <1>7
<1> HIDE DEF f
<1>12. ParseJSONArray(ViewAccounts(Vault, e)) = f  BY <1>9, <1>10, QuotedIsParsed
<1> DEFINE Latest == {i \in 1 .. c : \A j \in i + 1 .. c : Accounts[q[j]].name # Accounts[q[i]].name}
<1>13. AccountsIn(UserKey, ViewAccounts(Vault, e))
         = {<<Accounts[q[i]].name, Accounts[q[i]].password>> : i \in Latest}
  <2>1. Len(f) \div 2 = c  BY <1>6, <1>10
  <2>2. AccountsIn(UserKey, ViewAccounts(Vault, e))
          = {<<DecryptWithKey(UserKey, f[2 * i - 1]), DecryptWithKey(UserKey, f[2 * i])>> :
               i \in {i \in 1 .. c : \A j \in i + 1 .. c :
                        DecryptWithKey(UserKey, f[2 * j - 1]) # DecryptWithKey(UserKey, f[2 * i - 1])}}
    BY <1>12, <2>1 DEF AccountsIn
  <2>3. \A i \in 1 .. c : \A j \in i + 1 .. c : j \in 1 .. c  BY <1>6
  <2>4. {i \in 1 .. c : \A j \in i + 1 .. c :
           DecryptWithKey(UserKey, f[2 * j - 1]) # DecryptWithKey(UserKey, f[2 * i - 1])} = Latest
    BY <1>11, <2>3
  <2>5. QED  BY <2>2, <2>4, <1>11
<1>14. {<<Accounts[q[i]].name, Accounts[q[i]].password>> : i \in Latest} = StoredFor(p)
  <2> DEFINE Of == {i \in DOMAIN Accounts : Accounts[i].site = Site(p)}
             LatestOf == {i \in Of : \A j \in Of : j > i => Accounts[j].name # Accounts[i].name}
  <2>1. Of = P  BY <1>1 DEF P
  <2>2. ASSUME NEW a \in 1 .. c
        PROVE  a \in Latest <=> q[a] \in LatestOf
    <3>1. q[a] \in Of /\ \A b \in 1 .. c : q[b] \in Of  BY <1>6, <2>1
    <3>2. \A b \in 1 .. c : q[b] > q[a] <=> b > a
      <4>1. SUFFICES ASSUME NEW b \in 1 .. c PROVE q[b] > q[a] <=> b > a  OBVIOUS
      <4>2. q[a] \in Nat /\ q[b] \in Nat /\ a \in Nat /\ b \in Nat  BY <1>6, <1>7
      <4>3. CASE a < b  BY <4>2, <4>3, <1>6
      <4>4. CASE b < a  BY <4>2, <4>4, <1>6
      <4>5. CASE a = b  BY <4>2, <4>5
      <4>6. QED  BY <4>2, <4>3, <4>4, <4>5
    <3>3. \A j \in Of : \E b \in 1 .. c : q[b] = j  BY <1>6, <2>1
    <3>4. \A b \in 1 .. c : b \in a + 1 .. c <=> b > a  BY <1>6
    <3>5. \A b \in a + 1 .. c : b \in 1 .. c  BY <1>6
    <3> HIDE DEF Of
    <3>6. QED  BY <3>1, <3>2, <3>3, <3>4, <3>5
  <2>3. \A i \in LatestOf : \E a \in Latest : q[a] = i  BY <2>1, <2>2, <1>6
  <2>4. \A a \in Latest : q[a] \in LatestOf  BY <2>2
  <2> HIDE DEF Latest, LatestOf
  <2>5. StoredFor(p) = {<<Accounts[i].name, Accounts[i].password>> : i \in LatestOf}
    BY DEF StoredFor, LatestOf
  <2>6. QED  BY <2>3, <2>4, <2>5
<1>15. QED  BY <1>13, <1>14

(* What the extension reads of the list event_handler writes, in whichever *)
(* order the QHash has.                                                    *)
LEMMA ListRead ==
    ASSUME NEW pairs \in SUBSET (Plain \X Plain), IsFiniteSet(pairs)
    PROVE  ParsedList(JSONList(pairs)) = pairs
<1> DEFINE s == SetToSeq(pairs)
           n == Cardinality(pairs)
           Field(i) == LET a == s[(i + 3) \div 4]
                       IN  <<Email, a[1], Password, a[2]>>[((i - 1) % 4) + 1]
           f == [i \in 1 .. 4 * n |-> Field(i)]
<1>1. n \in Nat /\ s \in [1 .. n -> pairs] /\ \A a \in pairs : \E i \in 1 .. n : s[i] = a
  <2>1. n \in Nat /\ ExistsBijection(1 .. n, pairs)  BY FS_CardinalityType
  <2>2. PICK b \in Bijection(1 .. n, pairs) : TRUE
    <3> HIDE DEF n
    <3>1. QED  BY <2>1, Fun_ExistsBij
  <2>3. b \in [1 .. n -> pairs] /\ IsInjective(b)
    <3> HIDE DEF n
    <3>1. b \in [1 .. n -> pairs] /\ \A x, y \in 1 .. n : b[x] = b[y] => x = y
      BY <2>2, Fun_BijectionProperties
    <3>2. QED  BY <3>1 DEF IsInjective
  <2>4. s \in [1 .. n -> pairs] /\ IsInjective(s)  BY <2>3 DEF SetToSeq
  <2>5. s \in Surjection(1 .. n, pairs)
    <3>1. IsFiniteSet(1 .. n) /\ Cardinality(1 .. n) = n  BY <2>1, FS_Interval
    <3> HIDE DEF s
    <3>2. \A x, y \in 1 .. n : s[x] = s[y] => x = y  BY <2>4 DEF IsInjective
    <3>3. s \in Injection(1 .. n, pairs)  BY <2>4, <3>2, Fun_IsInj
    <3>4. QED  BY <3>1, <3>3, FS_Injection
  <2> HIDE DEF s, n
  <2>6. QED  BY <2>1, <2>4, <2>5, Fun_SurjectionProperties
<1> HIDE DEF s, n
<1>2. Len(s) = n  BY <1>1
<1>3. \A i \in 1 .. n : s[i] \in pairs /\ s[i][1] \in Plain /\ s[i][2] \in Plain
                        /\ s[i] = <<s[i][1], s[i][2]>>
  BY <1>1
<1>4. JSONList(pairs) = Quoted(f)  BY <1>2 DEF JSONList, s
<1>5. Email \in Plain /\ Password \in Plain  BY DEF Email, Password, Plain, Byte, Quote
<1>6. f \in Seq(Plain) /\ Len(f) = 4 * n
  <2>1. 4 * n \in Nat  BY <1>1
  <2>2. ASSUME NEW i \in 1 .. 4 * n PROVE f[i] \in Plain
    <3>1. (i + 3) \div 4 \in 1 .. n /\ ((i - 1) % 4) + 1 \in 1 .. 4  BY <1>1
    <3> DEFINE a == s[(i + 3) \div 4]
               j == ((i - 1) % 4) + 1
    <3>2. f[i] = <<Email, a[1], Password, a[2]>>[j]  OBVIOUS
    <3>3. a[1] \in Plain /\ a[2] \in Plain  BY <3>1, <1>3
    <3> HIDE DEF a, j, f
    <3>4. j = 1 \/ j = 2 \/ j = 3 \/ j = 4  BY <3>1 DEF j
    <3>5. QED  BY <3>2, <3>3, <3>4, <1>5
  <2>3. f = [i \in 1 .. 4 * n |-> f[i]]  OBVIOUS
  <2> HIDE DEF f
  <2>4. QED  BY <2>1, <2>2, <2>3
<1>7. \A i \in 1 .. n : f[4 * i - 2] = s[i][1] /\ f[4 * i] = s[i][2]
  <2>1. SUFFICES ASSUME NEW i \in 1 .. n PROVE f[4 * i - 2] = s[i][1] /\ f[4 * i] = s[i][2]
    OBVIOUS
  <2>2. /\ 4 * i - 2 \in 1 .. 4 * n /\ 4 * i \in 1 .. 4 * n
        /\ (4 * i - 2 + 3) \div 4 = i /\ (4 * i + 3) \div 4 = i
        /\ ((4 * i - 2 - 1) % 4) + 1 = 2 /\ ((4 * i - 1) % 4) + 1 = 4
    BY <1>1
  <2>3. QED  BY <2>2
<1> HIDE DEF f
<1>8. ParseJSONArray(JSONList(pairs)) = f  BY <1>4, <1>6, QuotedIsParsed
<1>9. Len(f) \div 4 = n  BY <1>1, <1>6
<1>10. ParsedList(JSONList(pairs)) = {<<f[4 * i - 2], f[4 * i]>> : i \in 1 .. n}
  BY <1>8, <1>9 DEF ParsedList
<1>11. {<<f[4 * i - 2], f[4 * i]>> : i \in 1 .. n} = {s[i] : i \in 1 .. n}  BY <1>3, <1>7
<1>12. {s[i] : i \in 1 .. n} = pairs  BY <1>1, <1>3
<1>13. QED  BY <1>10, <1>11, <1>12

(* The accounts of a page are finitely many, of texts. *)
LEMMA StoredFinite ==
    ASSUME NEW p \in Pages
    PROVE  IsFiniteSet(StoredFor(p)) /\ StoredFor(p) \subseteq CString \X CString
<1> DEFINE N == Len(Accounts)
           R == [site : CString, name : CString, password : CString]
           Of == {i \in DOMAIN Accounts : Accounts[i].site = Site(p)}
           Latest == {i \in Of : \A j \in Of : j > i => Accounts[j].name # Accounts[i].name}
           g == [i \in Latest |-> <<Accounts[i].name, Accounts[i].password>>]
<1>1. N \in Nat /\ DOMAIN Accounts = 1 .. N /\ \A i \in 1 .. N : Accounts[i] \in R
  <2> HIDE DEF R
  <2>1. Accounts \in Seq(R)  BY AccountsTyped DEF R
  <2>2. QED  BY <2>1
<1>2. \A i \in 1 .. N : Accounts[i].name \in CString /\ Accounts[i].password \in CString
  BY <1>1
<1>3. Latest \subseteq 1 .. N  BY <1>1
<1>4. IsFiniteSet(Latest)
  <2>1. IsFiniteSet(1 .. N)  BY <1>1, FS_Interval
  <2> HIDE DEF Latest, N
  <2>2. QED  BY <1>3, <2>1, FS_Subset
<1> HIDE DEF Latest
<1>5. StoredFor(p) = {g[i] : i \in Latest}  BY DEF StoredFor, Latest
<1>6. g \in [Latest -> StoredFor(p)] /\ \A x \in StoredFor(p) : \E i \in Latest : g[i] = x
  BY <1>5
<1>7. \A i \in Latest : g[i] \in CString \X CString  BY <1>2, <1>3
<1> HIDE DEF g
<1>8. g \in Surjection(Latest, StoredFor(p))  BY <1>6, Fun_IsSurj
<1>9. IsFiniteSet(StoredFor(p))  BY <1>4, <1>8, FS_Surjection
<1>10. QED  BY <1>5, <1>7, <1>9

(* The list of a page whose accounts do not spoil it. *)
LEMMA ListIsStored ==
    ASSUME NEW p \in Pages, ~Holds(p, {Percent, Quote, Backslash})
    PROVE  ParsedList(ListText[p]) = StoredFor(p)
<1>1. ListText[p] = JSONList(StoredFor(p))  BY AccountsRead DEF ListText
<1>2. StoredFor(p) \in SUBSET (Plain \X Plain)
  <2>1. SUFFICES ASSUME NEW x \in StoredFor(p) PROVE x \in Plain \X Plain  OBVIOUS
  <2>2. x \in CString \X CString  BY StoredFinite
  <2>3. Quote \notin ToSet(x[1]) /\ Quote \notin ToSet(x[2])  BY DEF Holds
  <2>4. x[1] \in CString /\ x[2] \in CString /\ x = <<x[1], x[2]>>  BY <2>2
  <2>5. ASSUME NEW s \in CString, Quote \notin ToSet(s) PROVE s \in Plain
    <3>1. Len(s) \in Nat /\ s = [i \in 1 .. Len(s) |-> s[i]]
          /\ \A i \in 1 .. Len(s) : s[i] \in Byte /\ s[i] # Quote
      BY <2>5 DEF CString, ToSet
    <3>2. QED  BY <3>1 DEF Plain
  <2>6. QED  BY <2>3, <2>4, <2>5
<1>3. QED  BY <1>1, <1>2, StoredFinite, ListRead

-----------------------------------------------------------------------------
(* Delivery. *)

(* What has an answer is past the header, and what has none is not being   *)
(* sent.                                                                   *)
AnswerIsSent ==
    \A r \in Requests : answer[r] # NoAnswer => conn[r] \in {"data", "rest", "flushed"} \cup Ended

(* Only what select() has found readable or writable has an answer, and    *)
(* the handler runs for such a stream.                                     *)
UnreadyIsUnanswered == \A r \in todo : r \notin ready => answer[r] = NoAnswer
HandlerIsReady ==
    phase \in Waits => \A r \in Requests : Current(r) => r \in ready /\ conn[r] = "status"

Shape == /\ conn \in [Requests -> Conns]
         /\ DOMAIN answer = Requests
         /\ todo \subseteq Requests
         /\ phase \in {"select", "walk", "down"} \cup Waits

Delivery == Shape /\ AnswerIsSent /\ UnreadyIsUnanswered /\ HandlerIsReady /\ AnswerDelivered

(* No answer that is written is the absence of one. *)
LEMMA AnswersDiffer ==
    /\ Refusal # NoAnswer /\ [kind |-> "yes"] # NoAnswer /\ [kind |-> "jwt"] # NoAnswer
    /\ [kind |-> "[]"] # NoAnswer
    /\ \A k \in {"list", "blank", "garbled"} : \A p : [kind |-> k, page |-> p] # NoAnswer
BY DEF Refusal, NoAnswer

(* A reply, or its absence, by the handler of the current stream. *)
LEMMA ReplyDelivers ==
    ASSUME Delivery, NEW r \in Requests, NEW a, Reply(r, a), Current(r), r \in ready,
           conn[r] \in {"header", "status"}, UNCHANGED <<ready, gone>>
    PROVE  Delivery'
<1> DEFINE c == IF a = NoAnswer THEN "status" ELSE "data"
<1>1. /\ conn' = [conn EXCEPT ![r] = c] /\ answer' = [answer EXCEPT ![r] = a]
      /\ phase' = "walk" /\ todo' = todo \ {r}
      /\ c \in {"status", "data"}
  BY DEF Reply
<1>2. Shape'  BY <1>1 DEF Delivery, Shape, Conns, Accepted
<1>3. AnswerIsSent'
  BY <1>1 DEF Delivery, Shape, AnswerIsSent
<1>4. UnreadyIsUnanswered'  BY <1>1 DEF Delivery, Shape, UnreadyIsUnanswered
<1>5. HandlerIsReady'  BY <1>1 DEF HandlerIsReady, Waits
<1>6. AnswerDelivered'
  BY <1>1 DEF Delivery, Shape, AnswerDelivered, Ended
<1>7. QED  BY <1>2, <1>3, <1>4, <1>5, <1>6 DEF Delivery

(* A stream is destroyed that has no answer, or whose client has left, or  *)
(* to which all has been sent.                                             *)
LEMMA DestroyDelivers ==
    ASSUME Delivery, NEW r \in Requests, NEW why \in Ended, Destroy(r, why),
           phase = "walk", UNCHANGED <<ready, gone, answer, phase>>,
           answer[r] = NoAnswer \/ r \in gone \/ why = "answered"
    PROVE  Delivery'
<1>1. conn' = [conn EXCEPT ![r] = why] /\ todo' = todo \ {r}  BY DEF Destroy
<1>2. Shape'  BY <1>1 DEF Delivery, Shape, Conns
<1>3. AnswerIsSent'  BY <1>1 DEF Delivery, Shape, AnswerIsSent
<1>4. UnreadyIsUnanswered'  BY <1>1 DEF Delivery, UnreadyIsUnanswered
<1>5. HandlerIsReady'  BY <1>1 DEF HandlerIsReady, Waits
<1>6. AnswerDelivered'  BY <1>1 DEF Delivery, Shape, AnswerDelivered
<1>7. QED  BY <1>2, <1>3, <1>4, <1>5, <1>6 DEF Delivery

LEMMA DeliveryInductive == Delivery /\ [BridgeNext]_bridgeVars => Delivery'
<1> SUFFICES ASSUME Delivery, [BridgeNext]_bridgeVars PROVE Delivery'
  OBVIOUS
<1> USE DEF Delivery
<1>1. ASSUME NEW r \in Requests, Wait(r) PROVE Delivery'
  <2>1. Current(r) /\ phase = "walk" /\ answer[r] = NoAnswer
    BY <1>1 DEF Wait, Turn, Current, UnreadyIsUnanswered
  <2>2. CASE r \in old  BY <1>1, <2>1, <2>2, DestroyDelivers DEF clients, Wait, Ended
  <2>3. CASE r \notin old
    BY <1>1, <2>1, <2>3 DEF clients, Wait, Shape, AnswerIsSent, UnreadyIsUnanswered, HandlerIsReady, Waits,
         AnswerDelivered
  <2>4. QED  BY <2>2, <2>3
<1>2. ASSUME NEW r \in Requests, Disconnected(r) PROVE Delivery'
  <2>1. answer[r] = NoAnswer  BY <1>2 DEF Disconnected, AnswerIsSent, Ended
  <2>2. QED  BY <1>2, <2>1, DestroyDelivers DEF clients, Disconnected, Turn, Ended
<1>3. ASSUME NEW r \in Requests, Flush(r) PROVE Delivery'
  <2>1. CASE r \in gone /\ Destroy(r, "gone")
    BY <1>3, <2>1, DestroyDelivers DEF clients, Flush, Turn, Ended
  <2>2. ASSUME NEW c \in {"rest", "flushed"}, conn' = [conn EXCEPT ![r] = c], todo' = todo \ {r}
        PROVE  Delivery'
    <3>1. Shape'  BY <1>3, <2>2 DEF Flush, Shape, Conns, Accepted
    <3>2. AnswerIsSent'  BY <1>3, <2>2 DEF Flush, Shape, AnswerIsSent
    <3>3. UnreadyIsUnanswered'  BY <1>3, <2>2 DEF Flush, UnreadyIsUnanswered
    <3>4. HandlerIsReady'  BY <1>3 DEF Flush, Turn, HandlerIsReady, Waits
    <3>5. AnswerDelivered'  BY <1>3, <2>2 DEF clients, Flush, Shape, AnswerDelivered, Ended
    <3>6. QED  BY <3>1, <3>2, <3>3, <3>4, <3>5
  <2>3. QED  BY <1>3, <2>1, <2>2 DEF Flush
<1>4. ASSUME NEW r \in Requests, Finish(r) PROVE Delivery'
  <2>1. conn[r] = "status" => answer[r] = NoAnswer  BY DEF AnswerIsSent, Ended
  <2>2. CASE conn[r] = "status"  BY <1>4, <2>1, <2>2, DestroyDelivers DEF clients, Finish, Turn, Ended
  <2>3. CASE conn[r] = "flushed"  BY <1>4, <2>3, DestroyDelivers DEF clients, Finish, Turn, Ended
  <2>4. QED  BY <1>4, <2>2, <2>3 DEF Finish
<1>5. ASSUME NEW r \in Requests, Handle(r) PROVE Delivery'
  <2>1. /\ Current(r) /\ phase = "walk" /\ r \in ready /\ conn[r] = "header"
        /\ UNCHANGED <<ready, gone>>
    BY <1>5 DEF Handle, Complete, Turn, clients
  <2>2. CASE \E a : Reply(r, a)  BY <2>1, <2>2, ReplyDelivers
  <2>3. ASSUME NEW p \in {"login", "lookup"}, Goto(r, p) PROVE Delivery'
    <3>1. /\ conn' = [conn EXCEPT ![r] = "status"] /\ phase' = p
          /\ answer' = answer /\ todo' = todo
      BY <2>3 DEF Goto
    <3>2. answer[r] = NoAnswer  BY <2>1 DEF AnswerIsSent, Ended
    <3>3. Shape'  BY <3>1 DEF Shape, Conns, Accepted, Waits
    <3>4. AnswerIsSent'  BY <3>1, <3>2 DEF Shape, AnswerIsSent
    <3>5. UnreadyIsUnanswered'  BY <2>1, <3>1 DEF UnreadyIsUnanswered
    <3>6. HandlerIsReady'
      <4>1. \A q \in Requests : Current(q)' => q = r
        BY <2>1, <3>1 DEF Current, Requests
      <4>2. QED  BY <2>1, <3>1, <4>1 DEF HandlerIsReady, Shape
    <3>7. AnswerDelivered'  BY <2>1, <3>1, <3>2 DEF Shape, AnswerDelivered, Ended
    <3>8. QED  BY <3>3, <3>4, <3>5, <3>6, <3>7
  <2>4. QED
    <3>1. \/ \E a : Reply(r, a)
          \/ \E p \in {"login", "lookup"} : Goto(r, p)
      BY <1>5 DEF Handle, Complete
    <3>2. QED  BY <2>2, <2>3, <3>1
<1>6. ASSUME NEW r \in Requests, Waiting(r) PROVE Delivery'
  <2>1. phase \in Waits /\ Current(r) /\ UNCHANGED <<ready, gone>>
    BY <1>6 DEF Waiting, LoginAnswered, SecondAnswered, ListAnswered, Waits, clients
  <2>2. r \in ready /\ conn[r] = "status"  BY <2>1 DEF HandlerIsReady
  <2>3. CASE \E a : Reply(r, a)  BY <2>1, <2>2, <2>3, ReplyDelivers
  <2>4. CASE UNCHANGED <<answer, conn, todo>> /\ phase' \in {"second", "denied", "down"}
    <3>1. HandlerIsReady'  BY <2>1, <2>4 DEF HandlerIsReady, Current
    <3>2. QED  BY <2>1, <2>4, <3>1 DEF Shape, AnswerIsSent, UnreadyIsUnanswered, AnswerDelivered, Waits
  <2>5. QED
    <3>1. \/ \E a : Reply(r, a)
          \/ UNCHANGED <<answer, conn, todo>> /\ phase' \in {"second", "denied", "down"}
      <4>1. CASE LoginAnswered(r)  BY <4>1 DEF LoginAnswered
      <4>2. CASE SecondAnswered(r)  BY <4>2 DEF SecondAnswered, Refuse
      <4>3. CASE ListAnswered(r)  BY <4>3 DEF ListAnswered
      <4>4. QED  BY <1>6, <4>1, <4>2, <4>3 DEF Waiting
    <3>2. QED  BY <2>3, <2>4, <3>1
<1>7. CASE Select
  <2>1. /\ todo' = Streams /\ \A r \in Streams : Readable(r) => r \in ready'
        /\ phase' = "walk" /\ UNCHANGED <<gone, conn, answer>>
    BY <1>7 DEF Select, clients
  <2>2. UnreadyIsUnanswered'
    BY <2>1 DEF Streams, Readable, UnreadyIsUnanswered, AnswerIsSent, Ended
  <2>3. QED
    BY <2>1, <2>2 DEF Streams, Shape, AnswerIsSent, HandlerIsReady, Waits, AnswerDelivered
<1>8. CASE Accept
  <2>1. /\ todo' = {} /\ phase' = "select" /\ UNCHANGED <<gone, answer>>
        /\ \/ conn' = [r \in Requests |-> IF conn[r] = "backlog" THEN "header" ELSE conn[r]]
           \/ conn' = conn
    BY <1>8 DEF Accept, clients
  <2>2. Shape'  BY <2>1 DEF Shape, Conns, Accepted
  <2>3. AnswerIsSent' /\ AnswerDelivered'
    BY <2>1 DEF Shape, AnswerIsSent, AnswerDelivered, Ended
  <2>4. UnreadyIsUnanswered' /\ HandlerIsReady'
    BY <2>1 DEF UnreadyIsUnanswered, HandlerIsReady, Waits
  <2>5. QED  BY <2>2, <2>3, <2>4
<1>9. CASE PostLookup
  <2>1. HandlerIsReady'  BY <1>9 DEF PostLookup, HandlerIsReady, Current, Waits
  <2>2. QED
    BY <1>9, <2>1 DEF PostLookup, clients, Shape, AnswerIsSent, UnreadyIsUnanswered, AnswerDelivered, Waits
<1>10. ASSUME NEW r \in Requests, NEW a, NEW what, Open(r, a, what) PROVE Delivery'
  <2>1. /\ conn[r] = "unused" /\ conn' = [conn EXCEPT ![r] = "backlog"]
        /\ UNCHANGED <<gone, answer, phase, todo, ready>>
    BY <1>10 DEF Open, Opening, poll
  <2>2. Shape'  BY <2>1 DEF Shape, Conns
  <2>3. AnswerIsSent' /\ AnswerDelivered'
    BY <2>1 DEF Shape, AnswerIsSent, AnswerDelivered, Ended
  <2>4. UnreadyIsUnanswered' /\ HandlerIsReady'
    BY <2>1 DEF Shape, UnreadyIsUnanswered, HandlerIsReady, Current
  <2>5. QED  BY <2>2, <2>3, <2>4
<1>11. ASSUME UNCHANGED <<conn, answer, phase, todo, ready>>, gone \subseteq gone' PROVE Delivery'
  BY <1>11 DEF Shape, AnswerIsSent, UnreadyIsUnanswered, HandlerIsReady, Current, AnswerDelivered
<1>12. QED
  <2>1. ASSUME BridgeStep \/ Elsewhere PROVE Delivery'
    <3>1. CASE ServerStep  BY <3>1, <1>1, <1>2, <1>3, <1>4, <1>5, <1>6, <1>7, <1>8, <1>9
      DEF ServerStep, Stream
    <3>2. CASE Tick \/ GuiLogin \/ GuiSecond \/ GuiLogout \/ Elsewhere
      BY <3>2, <1>11 DEF Tick, GuiLogin, GuiSecond, GuiLogout, Elsewhere, clients, poll
    <3>3. QED  BY <2>1, <3>1, <3>2 DEF BridgeStep
  <2>2. ASSUME NEW r \in Requests, Send(r) PROVE Delivery'
    BY <2>2, <1>11 DEF Send, poll
  <2>3. ASSUME NEW rs \in SUBSET Requests, Leave(rs) PROVE Delivery'
    BY <2>3, <1>11 DEF Leave, poll
  <2>4. CASE UNCHANGED bridgeVars  BY <2>4, <1>11 DEF bridgeVars, clients, poll
  <2>5. QED  BY <2>1, <2>2, <2>3, <2>4, <1>10 DEF BridgeNext

(* Whatever its clients do, a client that stays gets the whole of what the *)
(* handler has written for it: no stream with an answer is closed before   *)
(* (sandbird.c:513-551, 905-935).                                          *)
THEOREM BridgeDelivers == BridgeSpec => []AnswerDelivered
<1>1. BridgeInit => Delivery
  BY DEF BridgeInit, Delivery, Shape, Conns, AnswerIsSent, UnreadyIsUnanswered, HandlerIsReady, Waits,
         AnswerDelivered, Ended
<1>2. Delivery => AnswerDelivered  BY DEF Delivery
<1>3. QED  BY <1>1, <1>2, DeliveryInductive, PTL DEF BridgeSpec

-----------------------------------------------------------------------------
(* A stream that waits for its client may be closed only when it has been  *)
(* silent: by the time of this poll, by that of the next one when the      *)
(* clock has gone on, and as long as it is to be looked at.                *)
Excused == silent \cup late
Awaits(r) == conn[r] = "header" /\ r \notin sent \cup gone

WalkFits == /\ \A r \in todo : conn[r] \in Accepted
            /\ \A r \in old : r \in Requests /\ conn[r] \in Accepted
            /\ phase = "select" => todo = {}
AheadIsSilent == ahead => \A r \in Requests : Awaits(r) => r \in Excused
OldIsSilent == \A r \in old : Awaits(r) => r \in Excused
UnreadyIsSilent == \A r \in todo : r \notin ready /\ r \in old => r \in Excused

Silence == Shape /\ WalkFits /\ AheadIsSilent /\ OldIsSilent /\ UnreadyIsSilent

(* A stream leaves the walk, and is ended, or its request is complete. *)
LEMMA TurnKeepsSilence ==
    ASSUME Silence, NEW r \in Requests, phase = "walk", phase' \in {"walk", "login", "lookup"},
           NEW c \in Conns \ {"header"}, conn' = [conn EXCEPT ![r] = c] \/ conn' = conn,
           todo' = todo \ {r} \/ (todo' = todo /\ conn'[r] \in Accepted),
           old' \subseteq old, conn'[r] \in Accepted \/ r \notin old', DOMAIN answer' = Requests,
           \/ silent' = silent
           \/ silent' = silent \ {r} /\ todo' = todo \ {r} /\ conn'[r] # "header",
           UNCHANGED <<sent, gone, ready, ahead, late>>
    PROVE  Silence'
<1>1. Shape'  BY DEF Silence, Shape, Waits
<1>2. WalkFits'  BY DEF Silence, Shape, WalkFits
<1>3. \A q \in Requests : Awaits(q)' => Awaits(q) /\ (q \in Excused => q \in Excused')
  BY DEF Silence, Shape, Awaits, Excused
<1>4. AheadIsSilent'  BY <1>3 DEF Silence, AheadIsSilent
<1>5. OldIsSilent'  BY <1>3 DEF Silence, OldIsSilent, WalkFits
<1>6. UnreadyIsSilent'  BY DEF Silence, UnreadyIsSilent, Excused
<1>7. QED  BY <1>1, <1>2, <1>4, <1>5, <1>6 DEF Silence

LEMMA SilenceInductive ==
    Silence /\ [BridgeNext]_bridgeVars => Silence'
<1> SUFFICES ASSUME Silence, [BridgeNext]_bridgeVars PROVE Silence'
  OBVIOUS
<1> USE DEF Silence
<1>1. ASSUME NEW r \in Requests, Stream(r) PROVE Silence'
  <2>1. phase = "walk"  BY <1>1 DEF Stream, Wait, Disconnected, Flush, Finish, Handle, Complete, Turn
  <2>2. \A c \in Ended \cup {"status", "data", "rest", "flushed"} : c \in Conns \ {"header"}
    BY DEF Conns, Accepted, Ended
  <2>3. CASE Wait(r)
    BY <2>1, <2>2, <2>3, TurnKeepsSilence DEF Wait, Destroy, clients, Ended, Shape, time
  <2>4. CASE Disconnected(r) \/ Finish(r)
    BY <2>1, <2>2, <2>4, TurnKeepsSilence
      DEF Disconnected, Finish, Destroy, clients, Ended, Shape, time
  <2>5. CASE Flush(r)
    BY <2>1, <2>2, <2>5, TurnKeepsSilence
      DEF Flush, Destroy, Active, Heard, clients, Ended, Shape, time
  <2>6. CASE Handle(r)
    <3>1. /\ UNCHANGED <<sent, gone, ready, ahead, silent, late>>
          /\ old' = old \ {r}
      BY <2>6 DEF Handle, Complete, Active, clients, time, history
    <3>2. ASSUME NEW a, Reply(r, a) PROVE Silence'
      BY <2>1, <2>2, <3>1, <3>2, TurnKeepsSilence DEF Reply, Shape
    <3>3. ASSUME NEW p \in {"login", "lookup"}, Goto(r, p) PROVE Silence'
      <4>1. conn'[r] \in Accepted  BY <3>3 DEF Goto, Shape, Accepted
      <4>2. QED  BY <2>1, <2>2, <3>1, <3>3, <4>1, TurnKeepsSilence DEF Goto, Shape
    <3>4. \/ \E a : Reply(r, a)
          \/ \E p \in {"login", "lookup"} : Goto(r, p)
      BY <2>6 DEF Handle, Complete
    <3>5. QED  BY <3>2, <3>3, <3>4
  <2>7. QED  BY <1>1, <2>3, <2>4, <2>5, <2>6 DEF Stream
<1>2. ASSUME NEW r \in Requests, Waiting(r) PROVE Silence'
  <2>1. /\ UNCHANGED <<sent, gone, ready, old, ahead, silent, late>>
        /\ phase \in Waits
        /\ \/ \E a : Reply(r, a)
           \/ UNCHANGED <<answer, conn, todo>> /\ phase' \in {"second", "denied", "down"}
    BY <1>2 DEF Waiting, LoginAnswered, SecondAnswered, ListAnswered, Refuse, Waits, clients, time,
                history
  <2>2. ASSUME NEW a, Reply(r, a) PROVE Silence'
    <3>1. /\ \E c \in {"status", "data"} : conn' = [conn EXCEPT ![r] = c]
          /\ todo' = todo \ {r} /\ phase' = "walk" /\ DOMAIN answer' = Requests
      BY <2>2 DEF Reply, Shape
    <3>2. Shape'  BY <3>1 DEF Shape, Conns, Accepted
    <3>3. WalkFits'  BY <2>1, <3>1 DEF Shape, WalkFits, Accepted
    <3>4. \A q \in Requests : Awaits(q)' => Awaits(q)  BY <2>1, <3>1 DEF Shape, Awaits
    <3>5. AheadIsSilent' /\ OldIsSilent' /\ UnreadyIsSilent'
      BY <2>1, <3>1, <3>4 DEF WalkFits, AheadIsSilent, OldIsSilent, UnreadyIsSilent, Excused
    <3>6. QED  BY <3>2, <3>3, <3>5
  <2>3. CASE UNCHANGED <<answer, conn, todo>> /\ phase' \in {"second", "denied", "down"}
    BY <2>1, <2>3 DEF Shape, Waits, WalkFits, AheadIsSilent, OldIsSilent, UnreadyIsSilent, Excused,
                      Awaits
  <2>4. QED  BY <2>1, <2>2, <2>3
<1>3. CASE Select
  <2>1. /\ todo' = Streams /\ phase' = "walk" /\ ahead' = FALSE
        /\ \A r \in Streams : Readable(r) => r \in ready'
        /\ UNCHANGED <<sent, gone, conn, answer, silent, late>>
        /\ old' = IF ahead THEN Streams ELSE old
    BY <1>3 DEF Select, Aged, clients, history
  <2>2. OldIsSilent'
    BY <2>1 DEF OldIsSilent, AheadIsSilent, Awaits, Excused, Streams
  <2>3. UnreadyIsSilent'
    <3>1. SUFFICES ASSUME NEW r \in Streams, ~Readable(r), r \in old' PROVE r \in Excused'
      BY <2>1 DEF UnreadyIsSilent
    <3>2. Awaits(r)'  BY <2>1, <3>1 DEF Readable, Awaits
    <3>3. QED  BY <2>2, <3>1, <3>2 DEF OldIsSilent
  <2>4. QED  BY <2>1, <2>2, <2>3 DEF Shape, WalkFits, AheadIsSilent, Streams, Waits
<1>4. CASE Accept
  <2>1. /\ todo = {} /\ todo' = {} /\ phase' = "select"
        /\ UNCHANGED <<sent, gone, answer, old, ahead, silent>>
        /\ \/ /\ conn' = [r \in Requests |-> IF conn[r] = "backlog" THEN "header" ELSE conn[r]]
              /\ late' = IF ahead THEN late \cup {r \in Requests : conn[r] = "backlog"} ELSE late
           \/ UNCHANGED <<conn, late>>
    BY <1>4 DEF Accept, clients, time
  <2>2. Shape' /\ WalkFits' /\ UnreadyIsSilent'
    BY <2>1 DEF Shape, Conns, Accepted, WalkFits, UnreadyIsSilent
  <2>3. AheadIsSilent'  BY <2>1 DEF Shape, AheadIsSilent, Awaits, Excused
  <2>4. OldIsSilent'  BY <2>1 DEF Shape, WalkFits, OldIsSilent, Awaits, Excused, Accepted
  <2>5. QED  BY <2>2, <2>3, <2>4
<1>5. CASE Tick
  <2>1. /\ silent' = {r \in Requests : conn[r] \in Live}
        /\ UNCHANGED <<sent, gone, conn, answer, old, phase, todo, ready, late>>
    BY <1>5 DEF Tick, clients, poll
  <2>2. \A r \in Requests : conn[r] \in Accepted => r \in Excused'
    BY <2>1 DEF Live, Excused
  <2>3. \A r \in Requests : Awaits(r)' => conn[r] \in Accepted  BY <2>1 DEF Awaits, Accepted
  <2>4. AheadIsSilent' /\ OldIsSilent' /\ UnreadyIsSilent'
    BY <2>1, <2>2, <2>3 DEF AheadIsSilent, OldIsSilent, UnreadyIsSilent, WalkFits, Shape
  <2>5. QED  BY <2>1, <2>4 DEF Shape, WalkFits
<1>6. ASSUME NEW r \in Requests, Send(r) PROVE Silence'
  <2>1. /\ sent' = sent \cup {r} /\ silent' = silent \ {r}
        /\ conn[r] \in {"backlog", "header"}
        /\ late \subseteq late' /\ (conn[r] = "header" /\ phase # "select" => r \in late')
        /\ UNCHANGED <<gone, conn, answer, old, phase, todo, ready, ahead>>
    BY <1>6 DEF Send, Heard, poll, time
  <2>2. \A q \in Requests : Awaits(q)' => Awaits(q) /\ (q \in Excused => q \in Excused')
    BY <2>1 DEF Awaits, Excused
  <2>3. AheadIsSilent' /\ OldIsSilent'
    BY <2>1, <2>2 DEF AheadIsSilent, OldIsSilent, WalkFits
  <2>4. UnreadyIsSilent'
    BY <2>1 DEF UnreadyIsSilent, WalkFits, Excused, Accepted
  <2>5. QED  BY <2>1, <2>3, <2>4 DEF Shape, WalkFits
<1>7. ASSUME NEW r \in Requests, NEW a, NEW what, Open(r, a, what) PROVE Silence'
  <2>1. /\ conn[r] = "unused" /\ conn' = [conn EXCEPT ![r] = "backlog"]
        /\ silent' = silent \ {r}
        /\ UNCHANGED <<sent, gone, answer, old, phase, todo, ready, ahead, late>>
    BY <1>7 DEF Open, Opening, Heard, poll
  <2>2. Shape'  BY <2>1 DEF Shape, Conns
  <2>3. r \notin todo /\ r \notin old  BY <2>1 DEF WalkFits, Accepted
  <2>4. WalkFits'  BY <2>1, <2>3 DEF Shape, WalkFits
  <2>5. \A q \in Requests : Awaits(q)' => Awaits(q) /\ (q \in Excused => q \in Excused')
    BY <2>1 DEF Shape, Awaits, Excused
  <2>6. AheadIsSilent' /\ OldIsSilent'
    BY <2>1, <2>5 DEF AheadIsSilent, OldIsSilent, WalkFits
  <2>7. UnreadyIsSilent'  BY <2>1, <2>3 DEF UnreadyIsSilent, Excused
  <2>8. QED  BY <2>2, <2>4, <2>6, <2>7
<1>8. ASSUME UNCHANGED <<sent, conn, answer, old, todo, ready, ahead, silent, late>>,
             gone \subseteq gone',
             phase' = phase \/ (phase \in Waits /\ phase' \in Waits)
      PROVE  Silence'
  BY <1>8 DEF Shape, WalkFits, AheadIsSilent, OldIsSilent, UnreadyIsSilent, Excused, Awaits, Waits
<1>9. QED
  <2>1. CASE ServerStep
    <3>1. CASE PostLookup
      BY <3>1, <1>8 DEF PostLookup, clients, time, history, Waits
    <3>2. QED  BY <2>1, <3>1, <1>1, <1>2, <1>3, <1>4 DEF ServerStep
  <2>2. CASE GuiLogin \/ GuiSecond \/ GuiLogout \/ Elsewhere
    BY <2>2, <1>8 DEF GuiLogin, GuiSecond, GuiLogout, Elsewhere, clients, poll, time, history
  <2>3. ASSUME NEW rs \in SUBSET Requests, Leave(rs) PROVE Silence'
    BY <2>3, <1>8 DEF Leave, poll, time, history
  <2>4. CASE UNCHANGED bridgeVars
    BY <2>4, <1>8 DEF bridgeVars, clients, poll, time, history
  <2>5. QED  BY <2>1, <2>2, <2>3, <2>4, <1>5, <1>6, <1>7 DEF BridgeNext, BridgeStep

(* A stream is closed by its timeout only after it has been silent for     *)
(* that long, or it was heard or accepted after the poll had looked at the *)
(* clock (sandbird.c:388, 898, 917).                                       *)
THEOREM BridgeSilence == BridgeSpec => TimeoutIsSilence
<1>1. BridgeInit => Silence
  BY DEF BridgeInit, Silence, Shape, Conns, WalkFits, AheadIsSilent, OldIsSilent, UnreadyIsSilent
<1>2. Silence /\ [BridgeNext]_bridgeVars =>
        [\A r \in Requests : conn[r] # "timeout" /\ conn'[r] = "timeout"
                              => r \in silent \cup late]_bridgeVars
  <2> SUFFICES ASSUME Silence, BridgeNext, NEW r \in Requests,
                      conn[r] # "timeout", conn'[r] = "timeout"
               PROVE  r \in silent \cup late
    OBVIOUS
  <2>1. ASSUME NEW q \in Requests, Stream(q) PROVE r \in silent \cup late
    <3>1. CASE Wait(q)
      <4>1. q \in todo /\ q \notin ready /\ q \in old /\ q = r
        BY <3>1 DEF Wait, Turn, Current, Destroy, Silence, Shape
      <4>2. QED  BY <4>1 DEF Silence, UnreadyIsSilent, Excused
    <3>2. CASE Disconnected(q) \/ Flush(q) \/ Finish(q)
      BY <3>2 DEF Disconnected, Flush, Finish, Destroy, Silence, Shape
    <3>3. CASE Handle(q)
      <4>1. \E c \in {"status", "data"} : conn' = [conn EXCEPT ![q] = c]
        BY <3>3 DEF Handle, Complete, Reply, Goto
      <4>2. QED  BY <4>1 DEF Silence, Shape
    <3>4. QED  BY <2>1, <3>1, <3>2, <3>3 DEF Stream
  <2>2. ASSUME NEW q \in Requests, Waiting(q) PROVE FALSE
    <3>1. conn' = conn \/ \E c \in {"status", "data"} : conn' = [conn EXCEPT ![q] = c]
      BY <2>2 DEF Waiting, LoginAnswered, SecondAnswered, ListAnswered, Refuse, Reply
    <3>2. QED  BY <3>1 DEF Silence, Shape
  <2>3. ~(Select \/ PostLookup \/ Tick \/ GuiLogin \/ GuiSecond \/ GuiLogout \/ Elsewhere)
    BY DEF Select, PostLookup, Tick, GuiLogin, GuiSecond, GuiLogout, Elsewhere
  <2>4. ~Accept  BY DEF Accept, Silence, Shape
  <2>5. ASSUME NEW q \in Requests, Send(q) PROVE FALSE  BY <2>5 DEF Send
  <2>6. ASSUME NEW q \in Requests, NEW a, NEW what, Open(q, a, what) PROVE FALSE
    BY <2>6 DEF Open, Silence, Shape
  <2>7. ASSUME NEW rs, Leave(rs) PROVE FALSE  BY <2>7 DEF Leave
  <2>8. QED
    BY <2>1, <2>2, <2>3, <2>4, <2>5, <2>6, <2>7 DEF BridgeNext, BridgeStep, ServerStep
<1>3. QED  BY <1>1, <1>2, SilenceInductive, PTL DEF BridgeSpec, TimeoutIsSilence

-----------------------------------------------------------------------------
(* What becomes of a login of the extension: while it is in hand the       *)
(* handler is its, and nothing else is written for it than what the two    *)
(* steps give.                                                             *)
InHand == {"login", "second", "denied"}
IsLogin(r) == asked[r].kind = "login"

Written ==
    \A r \in Requests :
        conn[r] \in {"data", "rest", "flushed", "answered"} => answer[r] # NoAnswer
HandlerFits ==
    \A r \in Requests : Current(r) =>
        /\ phase \in InHand => IsLogin(r)
        /\ phase \in {"lookup", "list"} => ~IsLogin(r)
LoginAnswers ==
    \A r \in Requests : IsLogin(r) =>
        /\ answer[r] \in {NoAnswer, Refusal, [kind |-> "jwt"]}
        /\ conn[r] # "empty"
        /\ conn[r] = "status" => phase \in InHand /\ Current(r)
LeftWhenGone ==
    /\ \A r \in Requests : conn[r] = "gone" => r \in gone
    /\ \A r \in todo : r \in ready /\ conn[r] = "header" => r \in sent \cup gone

Logins == /\ Delivery /\ WalkFits /\ DOMAIN asked = Requests
          /\ Written /\ HandlerFits /\ LoginAnswers /\ LeftWhenGone

LEMMA CurrentIsOne ==
    ASSUME NEW r \in Requests, NEW q \in Requests, Current(r), Current(q)
    PROVE  q = r
BY DEF Current, Requests

(* The handler writes what fits its request, and returns. *)
LEMMA ReplyKeepsLogins ==
    ASSUME Logins, Delivery', WalkFits', NEW r \in Requests, NEW a, Reply(r, a),
           IsLogin(r) => a \in {Refusal, [kind |-> "jwt"]},
           phase \in {"walk"} \cup Waits, Current(r), phase = "walk" => conn[r] = "header",
           UNCHANGED <<asked, sent, gone, ready>>
    PROVE  Logins'
<1> DEFINE c == IF a = NoAnswer THEN "status" ELSE "data"
<1>1. /\ conn' = [conn EXCEPT ![r] = c] /\ answer' = [answer EXCEPT ![r] = a]
      /\ phase' = "walk" /\ todo' = todo \ {r}
  BY DEF Reply
<1>2. Written'  BY <1>1 DEF Logins, Delivery, Shape, Written
<1>3. HandlerFits'  BY <1>1 DEF HandlerFits, InHand
<1>4. LoginAnswers'
  <2>1. SUFFICES ASSUME NEW q \in Requests, IsLogin(q)
                 PROVE  /\ answer'[q] \in {NoAnswer, Refusal, [kind |-> "jwt"]}
                        /\ conn'[q] # "empty" /\ conn'[q] # "status"
    BY <1>1 DEF LoginAnswers, IsLogin
  <2>2. CASE q = r
    BY <1>1, <2>1, <2>2, AnswersDiffer DEF Logins, Delivery, Shape
  <2>3. CASE q # r
    <3>1. answer'[q] = answer[q] /\ conn'[q] = conn[q]
      BY <1>1, <2>3 DEF Logins, Delivery, Shape
    <3>2. conn[q] = "status" => FALSE
      <4>1. SUFFICES ASSUME conn[q] = "status" PROVE FALSE  OBVIOUS
      <4>2. Current(q)  BY <4>1, <2>1 DEF Logins, LoginAnswers
      <4>3. QED  BY <4>2, <2>3, CurrentIsOne
    <3>3. QED  BY <2>1, <3>1, <3>2 DEF Logins, LoginAnswers
  <2>4. QED  BY <2>2, <2>3
<1>5. LeftWhenGone'  BY <1>1 DEF Logins, Delivery, Shape, LeftWhenGone
<1>6. QED  BY <1>2, <1>3, <1>4, <1>5 DEF Logins

(* The stream at the head is looked at while nothing is in hand. *)
LEMMA TurnKeepsLogins ==
    ASSUME Logins, Delivery', WalkFits', NEW r \in Requests, phase = "walk", r \in todo,
           NEW c \in Conns, conn' = [conn EXCEPT ![r] = c] \/ conn' = conn, todo' = todo \ {r},
           c \in {"rest", "flushed", "answered"} => answer[r] # NoAnswer,
           c \notin {"status", "data"}, c = "empty" => conn[r] = "status", c = "gone" => r \in gone,
           UNCHANGED <<asked, sent, gone, answer, phase, ready>>
    PROVE  Logins'
<1>1. Written'  BY DEF Logins, Delivery, Shape, Written
<1>2. HandlerFits'  BY DEF HandlerFits, InHand
<1>3. \A q \in Requests : IsLogin(q) => conn[q] # "status"  BY DEF Logins, LoginAnswers, InHand
<1>4. LoginAnswers'  BY <1>3 DEF Logins, Delivery, Shape, LoginAnswers, IsLogin
<1>5. LeftWhenGone'  BY DEF Logins, Delivery, Shape, LeftWhenGone
<1>6. QED  BY <1>1, <1>2, <1>4, <1>5 DEF Logins

LEMMA LoginsInductive ==
    ASSUME Logins, [BridgeNext]_bridgeVars, Delivery', WalkFits'
    PROVE  Logins'
<1>1. ASSUME NEW r \in Requests, Wait(r) \/ Disconnected(r) \/ Flush(r) \/ Finish(r)
      PROVE  Logins'
  <2>1. /\ phase = "walk" /\ r \in todo /\ todo' = todo \ {r}
        /\ UNCHANGED <<asked, sent, gone, answer, phase, ready>>
    BY <1>1 DEF Wait, Disconnected, Flush, Finish, Turn, Current, Destroy, clients
  <2>2. CASE Wait(r)
    <3>1. conn' = [conn EXCEPT ![r] = "timeout"] \/ conn' = conn  BY <2>2 DEF Wait, Destroy
    <3>2. "timeout" \in Conns  BY DEF Conns, Ended
    <3>3. QED  BY <2>1, <3>1, <3>2, TurnKeepsLogins
  <2>3. CASE Disconnected(r)
    <3>1. conn' = [conn EXCEPT ![r] = "gone"]  BY <2>3 DEF Disconnected, Destroy
    <3>2. r \in gone  BY <2>1, <2>3 DEF Disconnected, Logins, LeftWhenGone
    <3>3. "gone" \in Conns  BY DEF Conns, Ended
    <3>4. QED  BY <2>1, <3>1, <3>2, <3>3, TurnKeepsLogins
  <2>4. CASE Flush(r)
    <3>1. answer[r] # NoAnswer  BY <2>4 DEF Flush, Logins, Written
    <3>2. \/ r \in gone /\ conn' = [conn EXCEPT ![r] = "gone"]
          \/ \E c \in {"flushed", "rest"} : conn' = [conn EXCEPT ![r] = c]
      BY <2>4 DEF Flush, Destroy
    <3>3. {"gone", "flushed", "rest"} \subseteq Conns  BY DEF Conns, Ended, Accepted
    <3>4. QED  BY <2>1, <3>1, <3>2, <3>3, TurnKeepsLogins
  <2>5. CASE Finish(r)
    <3>1. \/ conn[r] = "status" /\ conn' = [conn EXCEPT ![r] = "empty"]
          \/ conn[r] = "flushed" /\ conn' = [conn EXCEPT ![r] = "answered"]
      BY <2>5 DEF Finish, Destroy
    <3>2. conn[r] = "flushed" => answer[r] # NoAnswer  BY DEF Logins, Written
    <3>3. {"empty", "answered"} \subseteq Conns  BY DEF Conns, Ended
    <3>4. QED  BY <2>1, <3>1, <3>2, <3>3, TurnKeepsLogins
  <2>6. QED  BY <1>1, <2>2, <2>3, <2>4, <2>5
<1>2. ASSUME NEW r \in Requests, Handle(r) PROVE Logins'
  <2>1. /\ phase = "walk" /\ Current(r) /\ conn[r] = "header" /\ r \in ready
        /\ UNCHANGED <<asked, sent, gone, ready>>
    BY <1>2 DEF Handle, Complete, Turn, clients
  <2>2. ASSUME NEW a, Reply(r, a), ~IsLogin(r) PROVE Logins'
    BY <2>1, <2>2, ReplyKeepsLogins
  <2>3. ASSUME NEW p \in {"login", "lookup"}, Goto(r, p), IsLogin(r) <=> p = "login" PROVE Logins'
    <3>1. /\ conn' = [conn EXCEPT ![r] = "status"] /\ phase' = p
          /\ answer' = answer /\ todo' = todo
      BY <2>3 DEF Goto
    <3>2. \A q \in Requests : Current(q)' => q = r  BY <2>1, <3>1, CurrentIsOne DEF Current
    <3>3. HandlerFits'  BY <2>1, <2>3, <3>1, <3>2 DEF HandlerFits, IsLogin, InHand
    <3>4. \A q \in Requests : IsLogin(q) => conn[q] # "status"
      BY <2>1 DEF Logins, LoginAnswers, InHand
    <3>5. LoginAnswers'
      BY <2>1, <2>3, <3>1, <3>4 DEF Logins, Delivery, Shape, LoginAnswers, IsLogin, InHand, Current
    <3>6. Written' /\ LeftWhenGone'
      BY <2>1, <3>1 DEF Logins, Delivery, Shape, Written, LeftWhenGone
    <3>7. QED  BY <2>1, <3>3, <3>5, <3>6 DEF Logins
  <2>4. QED
    <3>1. \/ ~IsLogin(r) /\ \E a : Reply(r, a)
          \/ IsLogin(r) /\ Goto(r, "login")
          \/ ~IsLogin(r) /\ Goto(r, "lookup")
      BY <1>2 DEF Handle, Complete, IsLogin
    <3>2. QED  BY <2>2, <2>3, <3>1
<1>3. ASSUME NEW r \in Requests, Waiting(r) PROVE Logins'
  <2>1. Current(r) /\ phase \in Waits /\ UNCHANGED <<asked, sent, gone, ready>>
    BY <1>3 DEF Waiting, LoginAnswered, SecondAnswered, ListAnswered, Waits, clients
  <2>2. ASSUME NEW a, Reply(r, a), IsLogin(r) => a \in {Refusal, [kind |-> "jwt"]} PROVE Logins'
    BY <2>1, <2>2, ReplyKeepsLogins DEF Waits
  <2>3. ASSUME UNCHANGED <<answer, conn, todo>>,
               \/ phase = "login" /\ phase' \in {"second", "denied"}
               \/ phase = "list" /\ phase' = "down"
        PROVE  Logins'
    BY <2>1, <2>3
    DEF Logins, Written, HandlerFits, LoginAnswers, LeftWhenGone, IsLogin, InHand, Current
  <2>4. CASE LoginAnswered(r)
    <3>1. \/ Reply(r, Refusal)
          \/ /\ UNCHANGED <<answer, conn, todo>>
             /\ phase = "login" /\ phase' \in {"second", "denied"}
      BY <2>4 DEF LoginAnswered
    <3>2. QED  BY <2>2, <2>3, <3>1
  <2>5. CASE SecondAnswered(r)
    <3>1. Reply(r, [kind |-> "jwt"]) \/ Reply(r, Refusal)  BY <2>5 DEF SecondAnswered, Refuse
    <3>2. QED  BY <2>2, <3>1
  <2>6. CASE ListAnswered(r)
    <3>1. ~IsLogin(r)  BY <2>1, <2>6 DEF ListAnswered, Logins, HandlerFits
    <3>2. \/ \E a : Reply(r, a)
          \/ /\ UNCHANGED <<answer, conn, todo>>
             /\ phase = "list" /\ phase' = "down"
      BY <2>6 DEF ListAnswered
    <3>3. QED  BY <2>2, <2>3, <3>1, <3>2
  <2>7. QED  BY <1>3, <2>4, <2>5, <2>6 DEF Waiting
<1>4. CASE Select
  <2>1. /\ phase = "select" /\ phase' = "walk" /\ todo' = Streams
        /\ ready' = {r \in Streams : Readable(r)}
                       \cup (IF \E r \in Requests : conn[r] = "backlog" THEN {Listener} ELSE {})
        /\ UNCHANGED <<asked, sent, gone, conn, answer>>
    BY <1>4 DEF Select, clients
  <2>2. \A r \in Streams : r \in ready' => Readable(r)
    BY <2>1 DEF Streams, Requests, Listener
  <2>3. QED
    BY <2>1, <2>2 DEF Logins, Written, HandlerFits, LoginAnswers, LeftWhenGone, IsLogin, InHand,
                      Readable
<1>5. CASE Accept
  <2>1. /\ phase = "walk" /\ phase' = "select" /\ todo' = {}
        /\ UNCHANGED <<asked, gone, answer>>
        /\ \/ conn' = [r \in Requests |-> IF conn[r] = "backlog" THEN "header" ELSE conn[r]]
           \/ conn' = conn
    BY <1>5 DEF Accept, clients
  <2>2. QED
    BY <2>1 DEF Logins, Delivery, Shape, Written, HandlerFits, LoginAnswers, LeftWhenGone, IsLogin,
                InHand, Current
<1>6. ASSUME NEW r \in Requests, NEW a, NEW what, Open(r, a, what) PROVE Logins'
  <2>1. /\ conn[r] = "unused" /\ conn' = [conn EXCEPT ![r] = "backlog"]
        /\ asked' = [asked EXCEPT ![r] = a]
        /\ UNCHANGED <<sent, gone, answer, phase, todo, ready>>
    BY <1>6 DEF Open, Opening, poll
  <2>2. answer[r] = NoAnswer /\ r \notin todo
    BY <2>1 DEF Logins, Delivery, AnswerIsSent, WalkFits, Accepted, Ended
  <2>3. Written' /\ LeftWhenGone'
    BY <2>1 DEF Logins, Delivery, Shape, Written, LeftWhenGone
  <2>4. HandlerFits' /\ LoginAnswers'
    BY <2>1, <2>2 DEF Logins, Delivery, Shape, HandlerFits, LoginAnswers, IsLogin, Current
  <2>5. QED  BY <2>1, <2>3, <2>4 DEF Logins
<1>7. ASSUME UNCHANGED <<asked, conn, answer, todo, ready>>,
             sent \subseteq sent', gone \subseteq gone',
             phase' = phase \/ (phase = "lookup" /\ phase' = "list")
      PROVE  Logins'
  BY <1>7 DEF Logins, Written, HandlerFits, LoginAnswers, LeftWhenGone, IsLogin, InHand, Current
<1>8. QED
  <2>1. CASE ServerStep
    <3>1. CASE PostLookup  BY <3>1, <1>7 DEF PostLookup, clients
    <3>2. QED  BY <2>1, <3>1, <1>1, <1>2, <1>3, <1>4, <1>5 DEF ServerStep, Stream
  <2>2. CASE Tick \/ GuiLogin \/ GuiSecond \/ GuiLogout \/ Elsewhere
    BY <2>2, <1>7 DEF Tick, GuiLogin, GuiSecond, GuiLogout, Elsewhere, clients, poll
  <2>3. ASSUME NEW r \in Requests, Send(r) PROVE Logins'
    BY <2>3, <1>7 DEF Send, poll
  <2>4. ASSUME NEW rs \in SUBSET Requests, Leave(rs) PROVE Logins'
    BY <2>4, <1>7 DEF Leave, poll
  <2>5. CASE UNCHANGED bridgeVars  BY <2>5, <1>7 DEF bridgeVars, clients, poll
  <2>6. QED  BY <2>1, <2>2, <2>3, <2>4, <2>5, <1>6 DEF BridgeNext, BridgeStep

(* All that holds of the bridge in every state, for its clients to use. *)
BridgeInv == Silence /\ Logins

LEMMA BridgeInvariant == BridgeSpec => []BridgeInv
<1>1. BridgeInit => BridgeInv
  BY DEF BridgeInit, BridgeInv, Logins, Delivery, Silence, Shape, Conns, WalkFits, AheadIsSilent,
         OldIsSilent, UnreadyIsSilent, AnswerIsSent, UnreadyIsUnanswered, HandlerIsReady, Waits,
         AnswerDelivered, Ended, Written, HandlerFits, LoginAnswers, LeftWhenGone, IsLogin, NoAsk,
         InHand
<1>2. BridgeInv /\ [BridgeNext]_bridgeVars => BridgeInv'
  <2> SUFFICES ASSUME BridgeInv, [BridgeNext]_bridgeVars PROVE BridgeInv'
    OBVIOUS
  <2>1. Silence'  BY SilenceInductive DEF BridgeInv
  <2>2. Delivery'  BY DeliveryInductive DEF BridgeInv, Logins
  <2>3. Logins'  BY <2>1, <2>2, LoginsInductive DEF BridgeInv, Silence
  <2>4. QED  BY <2>1, <2>3 DEF BridgeInv
<1>3. QED  BY <1>1, <1>2, PTL DEF BridgeSpec

(* A login that has ended, of a client that stays, was answered by one of  *)
(* its steps, or closed unheard.                                           *)
LEMMA LoginEnds ==
    ASSUME BridgeInv, NEW r \in Requests, IsLogin(r), conn[r] \in Ended, r \notin gone
    PROVE  \/ conn[r] = "answered" /\ answer[r] \in {Refusal, [kind |-> "jwt"]}
           \/ conn[r] = "timeout" /\ answer[r] = NoAnswer
<1>1. /\ answer[r] # NoAnswer => conn[r] = "answered"
      /\ conn[r] = "answered" => answer[r] # NoAnswer
      /\ conn[r] # "empty" /\ conn[r] # "gone"
      /\ answer[r] \in {NoAnswer, Refusal, [kind |-> "jwt"]}
  BY DEF BridgeInv, Logins, Delivery, AnswerDelivered, Written, LoginAnswers, LeftWhenGone
<1>2. QED  BY <1>1 DEF Ended

(* What has ended stays as it is, and so does all when the program has     *)
(* stopped.                                                                *)
Over(r) == conn[r] \in Ended \/ phase = "down"
Keeps(r) == /\ conn'[r] # "unused" /\ asked'[r] = asked[r]
            /\ Over(r) => Over(r)' /\ conn'[r] = conn[r] /\ answer'[r] = answer[r]

LEMMA StaysOver ==
    ASSUME BridgeInv, [BridgeNext]_bridgeVars, NEW r \in Requests, conn[r] # "unused"
    PROVE  Keeps(r)
<1> USE DEF Over, Keeps
<1>1. conn \in [Requests -> Conns] /\ DOMAIN answer = Requests /\ DOMAIN asked = Requests
  BY DEF BridgeInv, Logins, Silence, Shape
<1>2. ASSUME NEW q \in Requests, q \in todo, phase # "down", asked' = asked,
             NEW c \in Conns \ {"unused"}, conn' = [conn EXCEPT ![q] = c] \/ conn' = conn,
             answer' = answer \/ \E a : answer' = [answer EXCEPT ![q] = a]
      PROVE  Keeps(r)
  <2>1. conn[q] \in Accepted  BY <1>2 DEF BridgeInv, Silence, WalkFits
  <2>2. Over(r) => r # q  BY <1>2, <2>1 DEF Accepted, Ended
  <2>3. QED  BY <1>1, <1>2, <2>2
<1>3. ASSUME NEW q \in Requests, Stream(q)
      PROVE  Keeps(r)
  <2>1. /\ q \in todo /\ phase = "walk" /\ asked' = asked
        /\ answer' = answer \/ \E a : answer' = [answer EXCEPT ![q] = a]
    BY <1>3 DEF Stream, Wait, Disconnected, Flush, Finish, Handle, Complete, Turn, Current, clients, Reply, Goto
  <2>2. \/ conn' = conn
        \/ \E c \in Ended \cup {"rest", "flushed", "status", "data"} : conn' = [conn EXCEPT ![q] = c]
    BY <1>3 DEF Stream, Wait, Disconnected, Flush, Finish, Handle, Complete, Destroy, Reply, Goto, Ended
  <2>3. /\ Ended \cup {"rest", "flushed", "status", "data"} \subseteq Conns \ {"unused"}
        /\ "gone" \in Ended
    BY DEF Conns, Accepted, Ended
  <2>4. CASE conn' = conn  BY <2>1, <2>3, <2>4, <1>2
  <2>5. QED  BY <2>1, <2>2, <2>3, <2>4, <1>2
<1>4. ASSUME NEW q \in Requests, Waiting(q)
      PROVE  Keeps(r)
  <2>1. /\ q \in todo /\ phase \in Waits /\ asked' = asked
        /\ \/ UNCHANGED <<conn, answer>>
           \/ \E a : Reply(q, a)
    BY <1>4 DEF Waiting, LoginAnswered, SecondAnswered, ListAnswered, Refuse, Current, clients, Waits
  <2>2. phase # "down" /\ {"status", "data"} \subseteq Conns \ {"unused"}
    BY <2>1 DEF Waits, Conns, Accepted
  <2>3. CASE UNCHANGED <<conn, answer>>  BY <2>1, <2>2, <2>3, <1>2
  <2>4. ASSUME NEW a, Reply(q, a)
        PROVE  /\ answer' = [answer EXCEPT ![q] = a]
               /\ \E c \in {"status", "data"} : conn' = [conn EXCEPT ![q] = c]
    BY <2>4 DEF Reply
  <2>5. QED  BY <2>1, <2>2, <2>3, <2>4, <1>2
<1>5. CASE Select \/ PostLookup
  BY <1>5 DEF Select, PostLookup, clients
<1>6. CASE Accept
  <2>1. /\ phase = "walk" /\ UNCHANGED <<asked, answer>>
        /\ \/ conn' = [q \in Requests |-> IF conn[q] = "backlog" THEN "header" ELSE conn[q]]
           \/ conn' = conn
    BY <1>6 DEF Accept, clients
  <2>2. QED  BY <1>1, <2>1 DEF Ended
<1>7. ASSUME NEW q \in Requests, NEW a, NEW what, Open(q, a, what)
      PROVE  Keeps(r)
  <2>1. /\ conn[q] = "unused" /\ conn' = [conn EXCEPT ![q] = "backlog"]
        /\ asked' = [asked EXCEPT ![q] = a] /\ UNCHANGED <<answer, phase>>
    BY <1>7 DEF Open, Opening, poll
  <2>2. QED  BY <1>1, <2>1
<1>8. ASSUME UNCHANGED <<asked, conn, answer, phase>>
      PROVE  Keeps(r)
  BY <1>8
<1>9. QED
  <2>1. CASE ServerStep  BY <2>1, <1>3, <1>4, <1>5, <1>6 DEF ServerStep
  <2>2. CASE Tick \/ GuiLogin \/ GuiSecond \/ GuiLogout \/ Elsewhere
    BY <2>2, <1>8 DEF Tick, GuiLogin, GuiSecond, GuiLogout, Elsewhere, clients, poll
  <2>3. ASSUME NEW q \in Requests, Send(q) PROVE UNCHANGED <<asked, conn, answer, phase>>
    BY <2>3 DEF Send, poll
  <2>4. ASSUME NEW rs \in SUBSET Requests, Leave(rs) PROVE UNCHANGED <<asked, conn, answer, phase>>
    BY <2>4 DEF Leave, poll
  <2>5. CASE UNCHANGED bridgeVars  BY <2>5, <1>8 DEF bridgeVars, clients, poll
  <2>6. QED  BY <2>1, <2>2, <2>3, <2>4, <2>5, <1>7, <1>8 DEF BridgeNext, BridgeStep

LEMMA StaysDown ==
    ASSUME [BridgeNext]_bridgeVars, phase = "down"
    PROVE  phase' = "down"
<1>1. ~ServerStep
  BY DEF ServerStep, Select, Accept, PostLookup, Stream, Wait, Disconnected, Flush, Finish, Handle,
         Turn, Waiting, LoginAnswered, SecondAnswered, ListAnswered
<1>2. QED
  BY <1>1 DEF BridgeNext, BridgeStep, Tick, GuiLogin, GuiSecond, GuiLogout, Elsewhere, Send, Open,
              Leave, poll, bridgeVars

-----------------------------------------------------------------------------
(* Types. *)

(* What is looked up is asked with a page, and such a request gets nothing *)
(* but lists.                                                              *)
AskedWhenOpen == \A r \in Requests : conn[r] # "unused" => asked[r] \in Asks
LooksUpPages ==
    phase \in {"lookup", "list"} => \A r \in Requests : Current(r) => asked[r] \in PageAsk
PagesGetLists ==
    \A r \in Requests :
        asked[r] \in PageAsk => answer[r] \in {NoAnswer, [kind |-> "[]"]} \cup ListAnswer

BridgeTyped == BridgeTypeOK /\ AskedWhenOpen /\ LooksUpPages /\ PagesGetLists

LEMMA AskKinds ==
    /\ \A a \in Asks : a.kind \notin {"loggedin", "login"} => a \in PageAsk
    /\ \A a \in PageAsk : a.kind \in {"page", "typed"} /\ a.page \in Pages
    /\ NoAsk \notin PageAsk
    /\ [kind |-> "loggedin"] \notin PageAsk /\ [kind |-> "login"] \notin PageAsk
BY DEF Asks, PageAsk, NoAsk

LEMMA AnswerKinds ==
    /\ {NoAnswer, Refusal, [kind |-> "yes"], [kind |-> "jwt"], [kind |-> "[]"]} \subseteq Answers
    /\ \A k \in {"list", "blank", "garbled"}, p \in Pages :
         [kind |-> k, page |-> p] \in ListAnswer \cap Answers
BY DEF Answers, ListAnswer

(* The handler writes what the type of its request allows. *)
LEMMA ReplyTyped ==
    ASSUME BridgeTyped, BridgeInv, BridgeInv', NEW r \in Requests, NEW a \in Answers, Reply(r, a),
           asked[r] \in PageAsk => a \in {NoAnswer, [kind |-> "[]"]} \cup ListAnswer,
           asked' = asked, conn[r] # "unused"
    PROVE  /\ answer' \in [Requests -> Answers]
           /\ AskedWhenOpen' /\ LooksUpPages' /\ PagesGetLists'
<1>1. /\ answer' = [answer EXCEPT ![r] = a] /\ phase' = "walk"
      /\ \E c \in {"status", "data"} : conn' = [conn EXCEPT ![r] = c]
  BY DEF Reply
<1>2. answer \in [Requests -> Answers] /\ conn \in [Requests -> Conns]
  BY DEF BridgeTyped, BridgeTypeOK
<1>3. answer' \in [Requests -> Answers]  BY <1>1, <1>2
<1>4. AskedWhenOpen'  BY <1>1, <1>2 DEF AskedWhenOpen, BridgeTyped
<1>5. LooksUpPages'  BY <1>1 DEF LooksUpPages
<1>6. PagesGetLists'  BY <1>1, <1>2 DEF PagesGetLists, BridgeTyped
<1>7. QED  BY <1>3, <1>4, <1>5, <1>6

(* A step that asks and answers nothing. *)
LEMMA QuietTyped ==
    ASSUME BridgeTyped, UNCHANGED <<asked, answer>>,
           \A r \in Requests : conn'[r] # "unused" => conn[r] # "unused",
           \/ phase' \notin {"lookup", "list"}
           \/ phase' = phase /\ todo' = todo
           \/ phase = "lookup" /\ phase' = "list" /\ todo' = todo
    PROVE  AskedWhenOpen' /\ LooksUpPages' /\ PagesGetLists'
<1>1. AskedWhenOpen' /\ PagesGetLists'  BY DEF BridgeTyped, AskedWhenOpen, PagesGetLists
<1>2. LooksUpPages'  BY DEF BridgeTyped, LooksUpPages, Current
<1>3. QED  BY <1>1, <1>2

LEMMA StreamTyped ==
    ASSUME BridgeTyped, BridgeInv, BridgeInv', NEW r \in Requests, Stream(r)
    PROVE  BridgeTyped'
<1>1. Shape /\ Shape'  BY DEF BridgeInv, Silence
<1>2. phase = "walk" /\ Current(r) /\ conn[r] # "unused"
  <2>1. phase = "walk" /\ Current(r)
    BY DEF Stream, Wait, Disconnected, Flush, Finish, Handle, Complete, Turn
  <2>2. conn[r] \in Accepted  BY <2>1 DEF BridgeInv, Silence, WalkFits, Current
  <2>3. QED  BY <2>1, <2>2 DEF Accepted
<1>3. /\ UNCHANGED <<asked, sent, gone, ready, ahead, left, jwt, key, gui, found, late>>
      /\ old' \subseteq old /\ silent' \subseteq silent
  BY DEF Stream, Wait, Disconnected, Flush, Finish, Handle, Complete, Destroy, Active, Heard, clients, time,
         backend, history
<1>4. ASSUME answer' \in [Requests -> Answers], AskedWhenOpen', LooksUpPages', PagesGetLists'
      PROVE  BridgeTyped'
  BY <1>1, <1>3, <1>4 DEF BridgeTyped, BridgeTypeOK, Shape
<1>5. CASE Handle(r)
  <2>1. ASSUME NEW a \in Answers, Reply(r, a),
               asked[r] \in PageAsk => a \in {NoAnswer, [kind |-> "[]"]} \cup ListAnswer
        PROVE  BridgeTyped'
    BY <1>2, <1>3, <1>4, <2>1, ReplyTyped
  <2>2. CASE asked[r].kind = "loggedin"
    <3>1. Reply(r, IF jwt # "none" THEN [kind |-> "yes"] ELSE Refusal)
      BY <1>5, <2>2 DEF Handle, Complete
    <3>2. asked[r] \notin PageAsk  BY <2>2, AskKinds
    <3>3. (IF jwt # "none" THEN [kind |-> "yes"] ELSE Refusal) \in Answers  BY AnswerKinds
    <3>4. QED  BY <2>1, <3>1, <3>2, <3>3
  <2>3. ASSUME NEW p \in {"login", "lookup"}, Goto(r, p), p = "lookup" => asked[r] \in PageAsk
        PROVE  BridgeTyped'
    <3>1. phase' = p /\ conn' = [conn EXCEPT ![r] = "status"] /\ UNCHANGED <<answer, todo>>
      BY <2>3 DEF Goto
    <3>2. \A q \in Requests : Current(q)' => q = r
      BY <1>2, <3>1 DEF Current, Requests
    <3>3. LooksUpPages'  BY <1>3, <2>3, <3>1, <3>2 DEF LooksUpPages
    <3>4. AskedWhenOpen'  BY <1>1, <1>2, <1>3, <3>1 DEF BridgeTyped, AskedWhenOpen, Shape
    <3>5. PagesGetLists' /\ answer' \in [Requests -> Answers]
      BY <1>3, <3>1 DEF BridgeTyped, BridgeTypeOK, PagesGetLists
    <3>6. QED  BY <1>4, <3>3, <3>4, <3>5
  <2>4. CASE asked[r].kind = "login"
    <3>1. Goto(r, "login")  BY <1>5, <2>4 DEF Handle, Complete
    <3>2. QED  BY <2>3, <3>1
  <2>5. CASE asked[r].kind \notin {"loggedin", "login"}
    <3>1. asked[r] \in PageAsk  BY <1>2, <2>5, AskKinds DEF BridgeTyped, AskedWhenOpen
    <3>2. Reply(r, NoAnswer) \/ Goto(r, "lookup")  BY <1>5, <2>5 DEF Handle, Complete
    <3>3. NoAnswer \in Answers  BY AnswerKinds
    <3>4. QED  BY <2>1, <2>3, <3>1, <3>2, <3>3
  <2>6. QED  BY <2>2, <2>4, <2>5
<1>6. CASE ~Handle(r)
  <2>1. /\ answer' = answer /\ phase' = phase
        /\ \A q \in Requests : conn'[q] # "unused" => conn[q] # "unused"
    <3>1. /\ answer' = answer /\ phase' = phase
          /\ conn' = conn \/ \E c : conn' = [conn EXCEPT ![r] = c]
      BY <1>6 DEF Stream, Wait, Disconnected, Flush, Finish, Destroy
    <3>2. QED  BY <1>1, <1>2, <3>1 DEF Shape
  <2>2. AskedWhenOpen' /\ LooksUpPages' /\ PagesGetLists'
    BY <1>2, <1>3, <2>1, QuietTyped
  <2>3. QED  BY <1>4, <2>1, <2>2 DEF BridgeTyped, BridgeTypeOK
<1>7. QED  BY <1>5, <1>6

LEMMA WaitingTyped ==
    ASSUME BridgeTyped, BridgeInv, BridgeInv', NEW r \in Requests, Waiting(r)
    PROVE  BridgeTyped'
<1>1. Shape /\ Shape'  BY DEF BridgeInv, Silence
<1>2. /\ phase \in Waits /\ Current(r) /\ conn[r] # "unused"
      /\ phase \in InHand => asked[r] \notin PageAsk
      /\ phase = "list" => asked[r] \in PageAsk
  <2>1. phase \in Waits /\ Current(r)
    BY DEF Waiting, LoginAnswered, SecondAnswered, ListAnswered, Waits
  <2>2. conn[r] \in Accepted  BY <2>1 DEF BridgeInv, Silence, WalkFits, Current
  <2>3. phase \in InHand => asked[r].kind = "login"
    BY <2>1 DEF BridgeInv, Logins, HandlerFits, IsLogin
  <2>4. QED  BY <2>1, <2>2, <2>3, AskKinds DEF Accepted, BridgeTyped, LooksUpPages
<1>3. /\ UNCHANGED <<asked, sent, gone, ready, ahead, left, old, gui, silent, late>>
      /\ jwt' \in {"none", "first", "full"} /\ key' \in Keys /\ found' \in BOOLEAN
  BY DEF Waiting, LoginAnswered, SecondAnswered, ListAnswered, FirstStep, Refuse, clients, time,
         backend, history, Keys, BridgeTyped, BridgeTypeOK
<1>4. ASSUME answer' \in [Requests -> Answers], AskedWhenOpen', LooksUpPages', PagesGetLists'
      PROVE  BridgeTyped'
  BY <1>1, <1>3, <1>4 DEF BridgeTyped, BridgeTypeOK, Shape
<1>5. ASSUME NEW a \in Answers, Reply(r, a),
             asked[r] \in PageAsk => a \in {NoAnswer, [kind |-> "[]"]} \cup ListAnswer
      PROVE  BridgeTyped'
  BY <1>2, <1>3, <1>4, <1>5, ReplyTyped
<1>6. ASSUME UNCHANGED <<answer, conn>>, phase' \notin {"lookup", "list"}
      PROVE  BridgeTyped'
  <2>1. AskedWhenOpen' /\ LooksUpPages' /\ PagesGetLists'  BY <1>3, <1>6, QuietTyped
  <2>2. QED  BY <1>4, <1>6, <2>1 DEF BridgeTyped, BridgeTypeOK
<1>7. CASE LoginAnswered(r)
  <2>1. asked[r] \notin PageAsk  BY <1>2, <1>7 DEF LoginAnswered, InHand
  <2>2. \/ Reply(r, Refusal)
        \/ UNCHANGED <<answer, conn>> /\ phase' \in {"second", "denied"}
    BY <1>7 DEF LoginAnswered
  <2>3. QED  BY <1>5, <1>6, <2>1, <2>2, AnswerKinds
<1>8. CASE SecondAnswered(r)
  <2>1. asked[r] \notin PageAsk  BY <1>2, <1>8 DEF SecondAnswered, InHand
  <2>2. Reply(r, [kind |-> "jwt"]) \/ Reply(r, Refusal)
    BY <1>8 DEF SecondAnswered, Refuse
  <2>3. QED  BY <1>5, <2>1, <2>2, AnswerKinds
<1>9. CASE ListAnswered(r)
  <2>1. asked[r].page \in Pages  BY <1>2, <1>9, AskKinds DEF ListAnswered
  <2>2. \/ Reply(r, [kind |-> "[]"])
        \/ \E k \in {"list", "blank", "garbled"} : Reply(r, [kind |-> k, page |-> asked[r].page])
        \/ UNCHANGED <<answer, conn>> /\ phase' = "down"
    BY <1>9 DEF ListAnswered
  <2>3. QED  BY <1>5, <1>6, <2>1, <2>2, AnswerKinds
<1>10. QED  BY <1>7, <1>8, <1>9 DEF Waiting

LEMMA BridgeTypedInductive ==
    ASSUME BridgeTyped, BridgeInv, BridgeInv', [BridgeNext]_bridgeVars
    PROVE  BridgeTyped'
<1>1. Shape /\ Shape' /\ BridgeTypeOK
  BY DEF BridgeInv, Silence, BridgeTyped
<1>2. ASSUME UNCHANGED <<asked, answer>>, BridgeTypeOK',
             conn' = conn,
             \/ phase' \notin {"lookup", "list"}
             \/ phase' = phase /\ todo' = todo
             \/ phase = "lookup" /\ phase' = "list" /\ todo' = todo
      PROVE  BridgeTyped'
  BY <1>2, QuietTyped DEF BridgeTyped
<1>3. ASSUME NEW what \in Bounded, Spend(what) PROVE left' \in [Bounded -> Nat]
  BY <1>1, <1>3 DEF Spend, BridgeTypeOK
<1>4. CASE Select
  <2>1. BridgeTypeOK'
    BY <1>1, <1>4 DEF Select, Streams, Aged, BridgeTypeOK, Shape, clients, backend, history
  <2>2. QED  BY <1>2, <1>4, <2>1 DEF Select, clients
<1>5. CASE Accept
  <2>1. BridgeTypeOK'
    BY <1>1, <1>5 DEF Accept, BridgeTypeOK, Shape, clients, time, backend
  <2>2. /\ UNCHANGED <<asked, answer>> /\ phase' = "select"
        /\ \A r \in Requests : conn'[r] # "unused" => conn[r] # "unused"
    BY <1>1, <1>5 DEF Accept, clients
  <2>3. AskedWhenOpen' /\ LooksUpPages' /\ PagesGetLists'  BY <2>2, QuietTyped
  <2>4. QED  BY <2>1, <2>3 DEF BridgeTyped
<1>6. CASE PostLookup
  <2>1. BridgeTypeOK'
    BY <1>1, <1>6 DEF PostLookup, BridgeTypeOK, Shape, clients, time, backend, history
  <2>2. QED  BY <1>2, <1>6, <2>1 DEF PostLookup, clients
<1>7. CASE Tick
  <2>1. left' \in [Bounded -> Nat]  BY <1>3, <1>7 DEF Tick, Bounded
  <2>2. BridgeTypeOK'
    BY <1>1, <1>7, <2>1 DEF Tick, BridgeTypeOK, Shape, clients, poll, backend
  <2>3. QED  BY <1>2, <1>7, <2>2 DEF Tick, clients, poll
<1>8. CASE GuiLogin \/ GuiLogout
  <2>1. left' \in [Bounded -> Nat]  BY <1>3, <1>8 DEF GuiLogin, GuiLogout, Bounded
  <2>2. /\ jwt' \in {"none", "first", "full"} /\ key' \in Keys
        /\ gui' \in Seq({"second", "denied"})
    BY <1>1, <1>8 DEF GuiLogin, GuiLogout, FirstStep, Keys, BridgeTypeOK
  <2>3. BridgeTypeOK'
    BY <1>1, <1>8, <2>1, <2>2 DEF GuiLogin, GuiLogout, BridgeTypeOK, Shape, clients, poll, history
  <2>4. QED  BY <1>2, <1>8, <2>3 DEF GuiLogin, GuiLogout, clients, poll
<1>9. CASE GuiSecond
  <2>1. jwt' \in {"none", "first", "full"} /\ gui' \in Seq({"second", "denied"})
    <3>1. gui \in Seq({"second", "denied"}) /\ gui # <<>> /\ gui' = Front(gui)
      BY <1>1, <1>9 DEF GuiSecond, BridgeTypeOK
    <3>2. gui' \in Seq({"second", "denied"})  BY <3>1 DEF Front
    <3>3. QED  BY <1>9, <3>2 DEF GuiSecond
  <2>2. BridgeTypeOK'
    BY <1>1, <1>9, <2>1 DEF GuiSecond, BridgeTypeOK, Shape, clients, poll, time, history
  <2>3. QED  BY <1>2, <1>9, <2>2 DEF GuiSecond, clients, poll
<1>10. CASE Elsewhere
  <2>1. left' \in [Bounded -> Nat]  BY <1>3, <1>10 DEF Elsewhere, Bounded
  <2>2. BridgeTypeOK'
    BY <1>1, <1>10, <2>1 DEF Elsewhere, BridgeTypeOK, Shape, clients, poll, backend, history
  <2>3. QED  BY <1>2, <1>10, <2>2 DEF Elsewhere, clients, poll
<1>11. ASSUME NEW r \in Requests, Send(r) PROVE BridgeTyped'
  <2>1. BridgeTypeOK'
    BY <1>1, <1>11 DEF Send, Heard, BridgeTypeOK, Shape, poll, time, backend
  <2>2. QED  BY <1>2, <1>11, <2>1 DEF Send, poll
<1>12. ASSUME NEW rs \in SUBSET Requests, Leave(rs) PROVE BridgeTyped'
  <2>1. BridgeTypeOK'
    BY <1>1, <1>12 DEF Leave, BridgeTypeOK, Shape, poll, time, backend, history
  <2>2. QED  BY <1>2, <1>12, <2>1 DEF Leave, poll
<1>13. ASSUME NEW r \in Requests, NEW a \in Asks, NEW what \in Bounded, Open(r, a, what)
       PROVE  BridgeTyped'
  <2>1. left' \in [Bounded -> Nat]  BY <1>3, <1>13 DEF Open
  <2>2. /\ conn[r] = "unused" /\ conn' = [conn EXCEPT ![r] = "backlog"]
        /\ asked' = [asked EXCEPT ![r] = a] /\ silent' \subseteq silent
        /\ UNCHANGED <<answer, phase, todo, ready, sent, gone, old, ahead, jwt, key, gui, found, late>>
    BY <1>13 DEF Open, Opening, Heard, poll, backend
  <2>3. asked' \in [Requests -> Asks \cup {NoAsk}]  BY <1>1, <2>2 DEF BridgeTypeOK
  <2>4. BridgeTypeOK'  BY <1>1, <2>1, <2>2, <2>3 DEF BridgeTypeOK, Shape
  <2>5. AskedWhenOpen'
    BY <1>1, <2>2 DEF BridgeTyped, BridgeTypeOK, AskedWhenOpen
  <2>6. LooksUpPages'
    <3>1. \A q \in todo : q # r
      BY <2>2 DEF BridgeInv, Silence, WalkFits, Accepted
    <3>2. QED
      BY <1>1, <2>2, <3>1 DEF BridgeTyped, BridgeTypeOK, LooksUpPages, Current
  <2>7. PagesGetLists'
    <3>1. answer[r] = NoAnswer
      BY <2>2 DEF BridgeInv, Logins, Delivery, AnswerIsSent, Ended
    <3>2. QED  BY <1>1, <2>2, <3>1 DEF BridgeTyped, BridgeTypeOK, PagesGetLists
  <2>8. QED  BY <2>4, <2>5, <2>6, <2>7 DEF BridgeTyped
<1>14. CASE UNCHANGED bridgeVars
  <2>1. BridgeTypeOK'
    BY <1>1, <1>14 DEF BridgeTypeOK, bridgeVars, clients, poll, time, backend, history
  <2>2. QED  BY <1>2, <1>14, <2>1 DEF bridgeVars, clients, poll
<1>15. QED
  BY <1>4, <1>5, <1>6, <1>7, <1>8, <1>9, <1>10, <1>11, <1>12, <1>13, <1>14, StreamTyped, WaitingTyped
  DEF BridgeNext, BridgeStep, ServerStep

LEMMA BridgeTypedInit == BridgeInit => BridgeTyped
<1>1. <<>> \in Seq({"second", "denied"})  OBVIOUS
<1>2. SUFFICES ASSUME BridgeInit PROVE BridgeTyped  OBVIOUS
<1>3. gui \in Seq({"second", "denied"})  BY <1>1, <1>2 DEF BridgeInit
<1>4. QED
  BY <1>2, <1>3, BoundsNat, AnswerKinds, AskKinds
  DEF BridgeInit, BridgeTyped, BridgeTypeOK, AskedWhenOpen, LooksUpPages, PagesGetLists, Conns, Keys

LEMMA BridgeTypedHolds == BridgeSpec => []BridgeTyped
<1>1. BridgeTyped /\ BridgeInv /\ BridgeInv' /\ [BridgeNext]_bridgeVars => BridgeTyped'
  BY BridgeTypedInductive
<1>2. QED  BY <1>1, BridgeTypedInit, BridgeInvariant, PTL DEF BridgeSpec

(* Connections, streams and the session keep their types, for any number   *)
(* of requests and whatever the clients do.                                *)
THEOREM BridgeTyping == BridgeSpec => []BridgeTypeOK
<1>1. BridgeTyped => BridgeTypeOK  BY DEF BridgeTyped
<1>2. QED  BY <1>1, BridgeTypedHolds, PTL

-----------------------------------------------------------------------------
(* While jwt is the first step's, a login past it is going on.  The        *)
(* browser's own second step leaves its phase only with an answer, those   *)
(* of the GUI, which nest, end only with one each, and each sets the JWT.  *)
LEMMA FirstStepInductive ==
    BridgeTypeOK /\ FirstStepPending /\ [BridgeNext]_bridgeVars => FirstStepPending'
<1> SUFFICES ASSUME BridgeTypeOK, FirstStepPending, [BridgeNext]_bridgeVars PROVE FirstStepPending'
  OBVIOUS
<1> USE DEF FirstStepPending
<1>1. ASSUME NEW r \in Requests, Stream(r) PROVE FirstStepPending'
  <2>1. UNCHANGED backend /\ phase = "walk"
    BY <1>1 DEF Stream, Wait, Disconnected, Flush, Finish, Handle, Complete, Turn
  <2>2. QED  BY <2>1 DEF backend
<1>2. ASSUME NEW r \in Requests, Waiting(r) PROVE FirstStepPending'
  <2>1. CASE LoginAnswered(r)  BY <2>1 DEF LoginAnswered, FirstStep
  <2>2. CASE SecondAnswered(r)  BY <2>2 DEF SecondAnswered, Refuse
  <2>3. CASE ListAnswered(r)  BY <2>3 DEF ListAnswered, backend
  <2>4. QED  BY <1>2, <2>1, <2>2, <2>3 DEF Waiting
<1>3. CASE Select \/ Accept \/ PostLookup
  <2>1. UNCHANGED backend /\ phase \in {"select", "walk", "lookup"}
    BY <1>3 DEF Select, Accept, PostLookup
  <2>2. QED  BY <2>1 DEF backend
<1>4. CASE GuiLogin
  <2>1. PICK g \in {"second", "denied"} : gui' = Append(gui, g) /\ FirstStep(g)
    BY <1>4 DEF GuiLogin
  <2>2. jwt' = "first" => g = "second"  BY <2>1 DEF FirstStep
  <2>3. Len(gui') \in Nat \ {0} /\ gui'[Len(gui')] = g  BY <2>1 DEF BridgeTypeOK
  <2>4. g \in ToSet(gui')  BY <2>3 DEF ToSet
  <2>5. QED  BY <2>2, <2>4
<1>5. CASE GuiSecond \/ GuiLogout
  BY <1>5 DEF GuiSecond, GuiLogout
<1>6. ASSUME UNCHANGED <<poll, backend>> PROVE FirstStepPending'
  BY <1>6 DEF poll, backend
<1>7. QED
  <2>1. CASE BridgeStep
    BY <2>1, <1>1, <1>2, <1>3, <1>4, <1>5, <1>6 DEF BridgeStep, ServerStep, Tick
  <2>2. ASSUME NEW r \in Requests, NEW a, NEW what, Open(r, a, what) PROVE FirstStepPending'
    BY <2>2, <1>6 DEF Open
  <2>3. CASE Elsewhere \/ (\E r \in Requests : Send(r)) \/ \E rs \in SUBSET Requests : Leave(rs)
    BY <2>3, <1>6 DEF Elsewhere, Send, Leave
  <2>4. CASE UNCHANGED bridgeVars  BY <2>4, <1>6 DEF bridgeVars
  <2>5. QED  BY <2>1, <2>2, <2>3, <2>4 DEF BridgeNext

(* Of a session there is more than the first step, or a login past it is   *)
(* still going on, however logins nest and overlap in the two threads      *)
(* (backend_client.cpp:204, 296; browser_extension_communicator.cpp:127).  *)
THEOREM BridgeFirstStep == BridgeSpec => []FirstStepPending
<1>1. BridgeInit => FirstStepPending  BY DEF BridgeInit, FirstStepPending
<1>2. QED  BY <1>1, FirstStepInductive, BridgeTyping, PTL DEF BridgeSpec

-----------------------------------------------------------------------------
(* What a list shows. *)

(* What is written as a list is of a page whose accounts do not spoil it. *)
ListIsWhole ==
    \A r \in Requests :
        answer[r].kind = "list" => ~Holds(answer[r].page, {Percent, Quote, Backslash})

(* Only ListAnswered writes a list, and it looks at the accounts first. *)
LEMMA ListWholeInductive ==
    BridgeTypeOK /\ ListIsWhole /\ [BridgeNext]_bridgeVars => ListIsWhole'
<1>1. SUFFICES ASSUME BridgeTypeOK, ListIsWhole, [BridgeNext]_bridgeVars PROVE ListIsWhole'
  OBVIOUS
<1>2. CASE UNCHANGED answer  BY <1>1, <1>2 DEF ListIsWhole, Holds, StoredFor, Site
<1>3. ASSUME NEW r \in Requests, NEW a, Reply(r, a),
             a.kind = "list" => ~Holds(a.page, {Percent, Quote, Backslash})
      PROVE  ListIsWhole'
  <2>1. answer' = [answer EXCEPT ![r] = a] /\ answer \in [Requests -> Answers]
    BY <1>1, <1>3 DEF Reply, BridgeTypeOK
  <2>2. QED  BY <2>1, <1>1, <1>3 DEF ListIsWhole
<1>4. ASSUME NEW r \in Requests, Handle(r) PROVE ListIsWhole'
  <2>1. \/ UNCHANGED answer
        \/ \E a \in {[kind |-> "yes"], Refusal, NoAnswer} : Reply(r, a)
    BY <1>4 DEF Handle, Goto
  <2>2. QED  BY <2>1, <1>2, <1>3 DEF Refusal, NoAnswer
<1>5. ASSUME NEW r \in Requests, Waiting(r) PROVE ListIsWhole'
  <2>1. CASE LoginAnswered(r)
    BY <2>1, <1>2, <1>3 DEF LoginAnswered, Refusal
  <2>2. CASE SecondAnswered(r)
    BY <2>2, <1>3 DEF SecondAnswered, Refuse, Refusal
  <2>3. CASE ListAnswered(r)
    <3> DEFINE p == asked[r].page
               Special(chars) == key = WrongKey \/ (key = UserKey /\ Holds(p, chars))
               special == Special({Percent, Quote, Backslash})
    <3>1. \/ Reply(r, [kind |-> "[]"])
          \/ /\ ~special
             /\ Reply(r, [kind |-> IF key = UserKey THEN "list" ELSE "blank", page |-> p])
          \/ Reply(r, [kind |-> "garbled", page |-> p])
          \/ UNCHANGED answer
      BY <2>3 DEF ListAnswered
    <3>2. CASE Reply(r, [kind |-> "[]"])  BY <3>2, <1>3
    <3>3. CASE Reply(r, [kind |-> "garbled", page |-> p])  BY <3>3, <1>3
    <3>4. CASE /\ ~special
               /\ Reply(r, [kind |-> IF key = UserKey THEN "list" ELSE "blank", page |-> p])
      <4>1. CASE key = UserKey  BY <3>4, <4>1, <1>3
      <4>2. CASE key # UserKey  BY <3>4, <4>2, <1>3
      <4>3. QED  BY <4>1, <4>2
    <3>5. QED  BY <3>1, <3>2, <3>3, <3>4, <1>2
  <2>4. QED  BY <1>5, <2>1, <2>2, <2>3 DEF Waiting
<1>6. ASSUME BridgeNext, ~\E r \in Requests : Handle(r) \/ Waiting(r) PROVE UNCHANGED answer
  BY <1>6 DEF BridgeNext, BridgeStep, ServerStep, Stream, Select, Accept, PostLookup, Wait,
     Disconnected, Flush, Finish, Tick, GuiLogin, GuiSecond, GuiLogout, Elsewhere, Send, Open,
     Leave, backend, poll, time
<1>7. QED  BY <1>1, <1>2, <1>4, <1>5, <1>6 DEF bridgeVars

(* Whatever its clients ask and whatever the GUI does meanwhile, the list  *)
(* a page is given shows the accounts of its site as they were stored: for *)
(* every vault, every address and every key                                *)
(* (backend_client.cpp:395-423, browser_extension_communicator.cpp:158).   *)
THEOREM BridgeLists == BridgeSpec => []ListShowsVault
<1>1. BridgeInit => ListIsWhole  BY DEF BridgeInit, ListIsWhole, NoAnswer
<1>2. BridgeTypeOK /\ ListIsWhole => ListShowsVault
  <2>1. SUFFICES ASSUME BridgeTypeOK, ListIsWhole, NEW r \in Requests, answer[r].kind = "list"
                 PROVE  ParsedList(ListText[answer[r].page]) = StoredFor(answer[r].page)
    BY DEF ListShowsVault
  <2>2. answer[r] \in Answers  BY <2>1 DEF BridgeTypeOK
  <2>3. answer[r].page \in Pages
    BY <2>1, <2>2 DEF Answers, ListAnswer, NoAnswer, Refusal
  <2>4. QED  BY <2>1, <2>3, ListIsStored DEF ListIsWhole
<1>3. QED  BY <1>1, <1>2, ListWholeInductive, BridgeTyping, PTL DEF BridgeSpec

-----------------------------------------------------------------------------
(* The bridge implements Service. *)

(* The handler has run only for requests that were sent. *)
HandledIsSent ==
    \A r \in Requests : conn[r] \in {"status", "data", "rest", "flushed"} => r \in sent

LEMMA HandledIsSentInductive ==
    ASSUME HandledIsSent, BridgeInv, [BridgeNext]_bridgeVars
    PROVE  HandledIsSent'
<1> USE DEF HandledIsSent
<1>1. conn \in [Requests -> Conns]  BY DEF BridgeInv, Silence, Shape
<1>2. ASSUME UNCHANGED conn, sent \subseteq sent' PROVE HandledIsSent'
  BY <1>2
<1>3. ASSUME NEW r \in Requests, NEW c, conn' = conn \/ conn' = [conn EXCEPT ![r] = c], sent' = sent,
             c \in {"status", "data", "rest", "flushed"} => r \in sent
      PROVE  HandledIsSent'
  BY <1>1, <1>3
<1>4. ASSUME NEW r \in Requests, Wait(r) \/ Disconnected(r) \/ Finish(r) PROVE HandledIsSent'
  <2>1. sent' = sent /\ (conn' = conn \/ \E c \in Ended : conn' = [conn EXCEPT ![r] = c])
    BY <1>4 DEF Wait, Disconnected, Finish, Destroy, Ended, clients
  <2>2. QED  BY <1>3, <2>1 DEF Ended
<1>5. ASSUME NEW r \in Requests, Flush(r) PROVE HandledIsSent'
  <2>1. sent' = sent /\ conn[r] \in {"data", "rest"}
        /\ \E c : conn' = [conn EXCEPT ![r] = c]
    BY <1>5 DEF Flush, Destroy, clients
  <2>2. QED  BY <1>3, <2>1
<1>6. ASSUME NEW r \in Requests, Handle(r) PROVE HandledIsSent'
  <2>1. sent' = sent /\ r \in sent /\ \E c : conn' = [conn EXCEPT ![r] = c]
    BY <1>6 DEF Handle, Complete, Reply, Goto, clients
  <2>2. QED  BY <1>3, <2>1
<1>7. ASSUME NEW r \in Requests, Waiting(r) PROVE HandledIsSent'
  <2>1. phase \in Waits /\ Current(r) /\ sent' = sent
        /\ (conn' = conn \/ \E c : conn' = [conn EXCEPT ![r] = c])
    BY <1>7 DEF Waiting, LoginAnswered, SecondAnswered, ListAnswered, Refuse, Reply, Waits, clients
  <2>2. conn[r] = "status"
    BY <2>1 DEF BridgeInv, Logins, Delivery, HandlerIsReady
  <2>3. QED  BY <1>3, <2>1, <2>2
<1>8. CASE Accept
  BY <1>1, <1>8 DEF Accept, clients
<1>9. ASSUME NEW r \in Requests, NEW a, NEW what, Open(r, a, what) PROVE HandledIsSent'
  BY <1>3, <1>9 DEF Open
<1>10. CASE Select \/ PostLookup \/ Tick \/ GuiLogin \/ GuiSecond \/ GuiLogout \/ Elsewhere
  BY <1>2, <1>10 DEF Select, PostLookup, Tick, GuiLogin, GuiSecond, GuiLogout, Elsewhere, clients
<1>11. ASSUME NEW r \in Requests, Send(r) PROVE HandledIsSent'
  BY <1>2, <1>11 DEF Send
<1>12. ASSUME NEW rs, Leave(rs) PROVE HandledIsSent'
  BY <1>2, <1>12 DEF Leave
<1>13. CASE UNCHANGED bridgeVars  BY <1>2, <1>13 DEF bridgeVars, clients
<1>14. QED
  BY <1>4, <1>5, <1>6, <1>7, <1>8, <1>9, <1>10, <1>11, <1>12, <1>13
  DEF BridgeNext, BridgeStep, ServerStep, Stream

(* Most steps are nothing to the service. *)
LEMMA ServiceStays ==
    ASSUME UNCHANGED <<asked, sent, gone, answer>>,
           \A r \in Requests : conn'[r] = conn[r] \/ {conn[r], conn'[r]} \subseteq Live
    PROVE  UNCHANGED Promise!vars
<1>1. \A r \in Requests : /\ conn'[r] = "unused" <=> conn[r] = "unused"
                          /\ conn'[r] \in Ended <=> conn[r] \in Ended
                          /\ conn'[r] = "answered" <=> conn[r] = "answered"
  BY DEF Live, Accepted, Ended
<1>2. QED  BY <1>1 DEF Promise!vars, Standing, Given

(* A stream that is destroyed ends its request, which is given the answer  *)
(* when it was sent to the end.                                            *)
LEMMA DestroyServes ==
    ASSUME NEW r \in Requests, NEW why \in Ended, Destroy(r, why),
           conn \in [Requests -> Conns], conn[r] \in Accepted,
           UNCHANGED <<asked, sent, gone, answer>>,
           IF why = "answered" THEN answer[r] # NoAnswer ELSE answer[r] = NoAnswer \/ r \in gone
    PROVE  Promise!Next
<1>1. conn' = [conn EXCEPT ![r] = why]  BY DEF Destroy
<1>2. Standing[r] = "open" /\ Standing' = [Standing EXCEPT ![r] = "ended"]
  BY <1>1 DEF Accepted, Ended, Standing
<1>3. CASE why = "answered"
  <2>1. Given' = [Given EXCEPT ![r] = answer[r]]  BY <1>1, <1>3 DEF Given
  <2>2. Promise!Deliver(r)  BY <1>2, <1>3, <2>1 DEF Promise!Deliver
  <2>3. QED  BY <2>2 DEF Promise!Next
<1>4. CASE why # "answered"
  <2>1. Given' = Given  BY <1>1, <1>4 DEF Accepted, Given
  <2>2. Promise!End(r)  BY <1>2, <1>4, <2>1 DEF Promise!End
  <2>3. QED  BY <2>2 DEF Promise!Next
<1>5. QED  BY <1>3, <1>4

(* What the handler writes is what the service writes. *)
LEMMA ReplyServes ==
    ASSUME NEW r \in Requests, NEW a \in Fitting(asked[r]) \cup {NoAnswer}, Reply(r, a),
           conn \in [Requests -> Conns], answer \in [Requests -> Answers], asked[r] \in Asks,
           conn[r] \in Accepted, answer[r] = NoAnswer, r \in sent,
           UNCHANGED <<asked, sent, gone>>
    PROVE  [Promise!Next]_(Promise!vars)
<1>1. /\ answer' = [answer EXCEPT ![r] = a]
      /\ \E c \in {"status", "data"} : conn' = [conn EXCEPT ![r] = c]
  BY DEF Reply
<1>2. \A q \in Requests : conn'[q] = conn[q] \/ {conn[q], conn'[q]} \subseteq Live
  BY <1>1 DEF Live, Accepted
<1>3. CASE a = NoAnswer
  <2>1. answer' = answer  BY <1>1, <1>3
  <2>2. QED  BY <1>2, <2>1, ServiceStays
<1>4. CASE a \in Fitting(asked[r])
  <2>1. Standing[r] = "open"  BY DEF Accepted, Ended, Standing
  <2>2. Standing' = Standing /\ Given' = Given
    <3>1. \A q \in Requests : /\ conn'[q] = "unused" <=> conn[q] = "unused"
                              /\ conn'[q] \in Ended <=> conn[q] \in Ended
                              /\ conn'[q] = "answered" <=> conn[q] = "answered"
      BY <1>2 DEF Live, Accepted, Ended
    <3>2. \A q \in Requests : conn[q] = "answered" => answer'[q] = answer[q]
      BY <1>1 DEF Accepted
    <3>3. QED  BY <3>1, <3>2 DEF Standing, Given
  <2>3. a \in [q \in Asks |-> Fitting(q)][asked[r]]  BY <1>4
  <2>4. Promise!Write(r)  BY <1>1, <2>1, <2>2, <2>3 DEF Promise!Write
  <2>5. QED  BY <2>4 DEF Promise!Next
<1>5. QED  BY <1>3, <1>4

(* What fits each kind of question. *)
LEMMA FittingKinds ==
    ASSUME NEW a
    PROVE  /\ a.kind = "loggedin" => Fitting(a) = {[kind |-> "yes"], Refusal}
           /\ a.kind = "login" => Fitting(a) = {[kind |-> "jwt"], Refusal}
           /\ a \in PageAsk =>
                 Fitting(a) = {[kind |-> "[]"]} \cup {l \in ListAnswer : l.page = a.page}
<1>1. a \in PageAsk => a.kind \notin {"loggedin", "login"}  BY AskKinds
<1>2. QED  BY <1>1 DEF Fitting

LEMMA StreamServes ==
    ASSUME BridgeTyped, BridgeInv, HandledIsSent, NEW r \in Requests, Stream(r)
    PROVE  [Promise!Next]_(Promise!vars)
<1>1. /\ conn \in [Requests -> Conns] /\ answer \in [Requests -> Answers]
      /\ Current(r) /\ conn[r] \in Accepted /\ UNCHANGED <<asked, sent, gone>>
  <2>1. phase = "walk" /\ Current(r) /\ UNCHANGED <<asked, sent, gone>>
    BY DEF Stream, Wait, Disconnected, Flush, Finish, Handle, Complete, Turn, clients
  <2>2. conn[r] \in Accepted  BY <2>1 DEF BridgeInv, Silence, WalkFits, Current
  <2>3. QED  BY <2>1, <2>2 DEF BridgeTyped, BridgeTypeOK
<1>2. conn[r] \in {"header", "status"} => answer[r] = NoAnswer
  BY DEF BridgeInv, Logins, Delivery, AnswerIsSent, Ended
<1>3. ASSUME conn' = conn \/ \E c \in Live : conn' = [conn EXCEPT ![r] = c], answer' = answer
      PROVE  [Promise!Next]_(Promise!vars)
  <2>1. \A q \in Requests : conn'[q] = conn[q] \/ {conn[q], conn'[q]} \subseteq Live
    BY <1>1, <1>3 DEF Live
  <2>2. QED  BY <1>1, <1>3, <2>1, ServiceStays
<1>4. CASE Wait(r)
  <2>1. answer[r] = NoAnswer  BY <1>1, <1>4 DEF Wait, Current, BridgeInv, Logins, Delivery, UnreadyIsUnanswered
  <2>2. answer' = answer /\ (conn' = conn \/ Destroy(r, "timeout"))  BY <1>4 DEF Wait
  <2>3. "timeout" \in Ended  BY DEF Ended
  <2>4. QED  BY <1>1, <1>3, <2>1, <2>2, <2>3, DestroyServes
<1>5. CASE Disconnected(r)
  <2>1. answer[r] = NoAnswer /\ answer' = answer /\ Destroy(r, "gone")
    BY <1>2, <1>5 DEF Disconnected
  <2>2. "gone" \in Ended  BY DEF Ended
  <2>3. QED  BY <1>1, <2>1, <2>2, DestroyServes
<1>6. CASE Flush(r)
  <2>1. /\ answer' = answer
        /\ \/ r \in gone /\ Destroy(r, "gone")
           \/ \E c \in Live : conn' = [conn EXCEPT ![r] = c]
    BY <1>6 DEF Flush, Live, Accepted
  <2>2. "gone" \in Ended  BY DEF Ended
  <2>3. QED  BY <1>1, <1>3, <2>1, <2>2, DestroyServes
<1>7. CASE Finish(r)
  <2>1. CASE conn[r] = "status"
    <3>1. answer[r] = NoAnswer /\ answer' = answer /\ Destroy(r, "empty")
      BY <1>2, <1>7, <2>1 DEF Finish
    <3>2. "empty" \in Ended  BY DEF Ended
    <3>3. QED  BY <1>1, <3>1, <3>2, DestroyServes
  <2>2. CASE conn[r] = "flushed"
    <3>1. answer[r] # NoAnswer /\ answer' = answer /\ Destroy(r, "answered")
      BY <1>7, <2>2 DEF Finish, BridgeInv, Logins, Written
    <3>2. "answered" \in Ended  BY DEF Ended
    <3>3. QED  BY <1>1, <3>1, <3>2, DestroyServes
  <2>3. QED  BY <1>7, <2>1, <2>2 DEF Finish
<1>8. CASE Handle(r)
  <2>1. r \in sent /\ conn[r] = "header" /\ answer[r] = NoAnswer  BY <1>2, <1>8 DEF Handle, Complete
  <2>2. asked[r] \in Asks  BY <2>1 DEF BridgeTyped, AskedWhenOpen
  <2>3. ASSUME NEW a \in Fitting(asked[r]) \cup {NoAnswer}, Reply(r, a)
        PROVE  [Promise!Next]_(Promise!vars)
    BY <1>1, <2>1, <2>2, <2>3, ReplyServes
  <2>4. ASSUME NEW p, Goto(r, p) PROVE [Promise!Next]_(Promise!vars)
    <3>1. answer' = answer /\ conn' = [conn EXCEPT ![r] = "status"]  BY <2>4 DEF Goto
    <3>2. QED  BY <1>3, <3>1 DEF Live, Accepted
  <2>5. CASE asked[r].kind = "loggedin"
    <3>1. Reply(r, IF jwt # "none" THEN [kind |-> "yes"] ELSE Refusal)
      BY <1>8, <2>5 DEF Handle
    <3>2. (IF jwt # "none" THEN [kind |-> "yes"] ELSE Refusal) \in Fitting(asked[r])
      BY <2>5, FittingKinds
    <3>3. QED  BY <2>3, <3>1, <3>2
  <2>6. CASE asked[r].kind = "login"
    <3>1. Goto(r, "login")  BY <1>8, <2>6 DEF Handle
    <3>2. QED  BY <2>4, <3>1
  <2>7. CASE asked[r].kind \notin {"loggedin", "login"}
    <3>1. Reply(r, NoAnswer) \/ Goto(r, "lookup")  BY <1>8, <2>7 DEF Handle
    <3>2. QED  BY <2>3, <2>4, <3>1
  <2>8. QED  BY <2>5, <2>6, <2>7
<1>9. QED  BY <1>4, <1>5, <1>6, <1>7, <1>8 DEF Stream

LEMMA WaitingServes ==
    ASSUME BridgeTyped, BridgeInv, HandledIsSent, NEW r \in Requests, Waiting(r)
    PROVE  [Promise!Next]_(Promise!vars)
<1>1. /\ phase \in Waits /\ Current(r) /\ UNCHANGED <<asked, sent, gone>>
  BY DEF Waiting, LoginAnswered, SecondAnswered, ListAnswered, Waits, clients
<1>2. conn[r] = "status"  BY <1>1 DEF BridgeInv, Logins, Delivery, HandlerIsReady
<1>3. /\ conn \in [Requests -> Conns] /\ answer \in [Requests -> Answers]
      /\ conn[r] \in Accepted /\ answer[r] = NoAnswer /\ r \in sent /\ asked[r] \in Asks
  BY <1>2 DEF BridgeTyped, BridgeTypeOK, AskedWhenOpen, HandledIsSent, Accepted, BridgeInv, Logins,
              Delivery, AnswerIsSent, Ended
<1>4. ASSUME NEW a \in Fitting(asked[r]), Reply(r, a) PROVE [Promise!Next]_(Promise!vars)
  BY <1>1, <1>3, <1>4, ReplyServes
<1>5. ASSUME UNCHANGED <<conn, answer>> PROVE [Promise!Next]_(Promise!vars)
  BY <1>1, <1>5, ServiceStays
<1>6. CASE LoginAnswered(r) \/ SecondAnswered(r)
  <2>1. asked[r].kind = "login"
    <3>1. phase \in InHand  BY <1>6 DEF LoginAnswered, SecondAnswered, InHand
    <3>2. QED  BY <1>1, <3>1 DEF BridgeInv, Logins, HandlerFits, IsLogin
  <2>2. Refusal \in Fitting(asked[r]) /\ [kind |-> "jwt"] \in Fitting(asked[r])
    BY <2>1, FittingKinds
  <2>3. Reply(r, Refusal) \/ Reply(r, [kind |-> "jwt"]) \/ UNCHANGED <<conn, answer>>
    BY <1>6 DEF LoginAnswered, SecondAnswered, Refuse
  <2>4. QED  BY <1>4, <1>5, <2>2, <2>3
<1>7. CASE ListAnswered(r)
  <2>1. asked[r] \in PageAsk  BY <1>1, <1>7 DEF ListAnswered, BridgeTyped, LooksUpPages
  <2>2. asked[r].page \in Pages  BY <2>1, AskKinds
  <2>3. /\ [kind |-> "[]"] \in Fitting(asked[r])
        /\ \A k \in {"list", "blank", "garbled"} :
              [kind |-> k, page |-> asked[r].page] \in Fitting(asked[r])
    BY <2>1, <2>2, AnswerKinds, FittingKinds
  <2>4. \/ Reply(r, [kind |-> "[]"])
        \/ \E k \in {"list", "blank", "garbled"} : Reply(r, [kind |-> k, page |-> asked[r].page])
        \/ UNCHANGED <<conn, answer>>
    BY <1>7 DEF ListAnswered
  <2>5. QED  BY <1>4, <1>5, <2>3, <2>4
<1>8. QED  BY <1>6, <1>7 DEF Waiting

LEMMA StepServes ==
    ASSUME BridgeTyped, BridgeInv, HandledIsSent, [BridgeNext]_bridgeVars
    PROVE  [Promise!Next]_(Promise!vars)
<1>1. conn \in [Requests -> Conns] /\ asked \in [Requests -> Asks \cup {NoAsk}]
  BY DEF BridgeTyped, BridgeTypeOK
<1>2. ASSUME UNCHANGED <<asked, sent, gone, answer, conn>> PROVE [Promise!Next]_(Promise!vars)
  BY <1>2, ServiceStays
<1>3. CASE Select \/ PostLookup \/ Tick \/ GuiLogin \/ GuiSecond \/ GuiLogout \/ Elsewhere
  BY <1>2, <1>3 DEF Select, PostLookup, Tick, GuiLogin, GuiSecond, GuiLogout, Elsewhere, clients
<1>4. CASE Accept
  <2>1. UNCHANGED <<asked, sent, gone, answer>>  BY <1>4 DEF Accept, clients
  <2>2. \A q \in Requests : conn'[q] = conn[q] \/ {conn[q], conn'[q]} \subseteq Live
    BY <1>4 DEF Accept, Live, Accepted
  <2>3. QED  BY <2>1, <2>2, ServiceStays
<1>5. ASSUME NEW r \in Requests, Send(r) PROVE [Promise!Next]_(Promise!vars)
  <2>1. /\ conn[r] \in {"backlog", "header"} /\ sent' = sent \cup {r}
        /\ UNCHANGED <<asked, gone, conn, answer>>
    BY <1>5 DEF Send
  <2>2. answer[r] = NoAnswer  BY <2>1 DEF BridgeInv, Logins, Delivery, AnswerIsSent, Ended
  <2>3. Standing[r] = "open"  BY <2>1 DEF Ended, Standing
  <2>4. Promise!Send(r)  BY <2>1, <2>2, <2>3 DEF Promise!Send, Standing, Given
  <2>5. QED  BY <2>4 DEF Promise!Next
<1>6. ASSUME NEW r \in Requests, NEW a \in Asks, NEW what, Open(r, a, what)
      PROVE  [Promise!Next]_(Promise!vars)
  <2>1. /\ conn[r] = "unused" /\ conn' = [conn EXCEPT ![r] = "backlog"]
        /\ asked' = [asked EXCEPT ![r] = a] /\ UNCHANGED <<sent, gone, answer>>
    BY <1>6 DEF Open, Opening
  <2>2. Standing[r] = "idle" /\ Standing' = [Standing EXCEPT ![r] = "open"] /\ Given' = Given
    BY <1>1, <2>1 DEF Ended, Standing, Given
  <2>3. Promise!Ask(r)  BY <2>1, <2>2 DEF Promise!Ask
  <2>4. QED  BY <2>3 DEF Promise!Next
<1>7. ASSUME NEW rs \in SUBSET Requests, Leave(rs) PROVE [Promise!Next]_(Promise!vars)
  <2>1. gone' = gone \cup rs /\ UNCHANGED <<asked, sent, conn, answer>>  BY <1>7 DEF Leave
  <2>2. Promise!Leave  BY <2>1 DEF Promise!Leave, Standing, Given
  <2>3. QED  BY <2>2 DEF Promise!Next
<1>8. CASE UNCHANGED bridgeVars  BY <1>2, <1>8 DEF bridgeVars, clients
<1>9. QED
  BY <1>3, <1>4, <1>5, <1>6, <1>7, <1>8, StreamServes, WaitingServes
  DEF BridgeNext, BridgeStep, ServerStep

(* The bridge keeps what Service promises, whatever its clients do: each   *)
(* request is answered at most once, with what fits its own question, and  *)
(* nobody who stays is cut off (browser_extension_communicator.cpp:68-191, *)
(* sandbird.c:449-551).                                                    *)
THEOREM BridgeServes == BridgeSpec => ServiceKept
<1>1. BridgeInit => Promise!Init /\ HandledIsSent
  <2>1. BridgeInit => /\ Standing = [r \in Requests |-> "idle"]
                      /\ Given = [r \in Requests |-> NoAnswer]
    BY DEF BridgeInit, Standing, Given, Ended
  <2>2. QED  BY <2>1 DEF BridgeInit, Promise!Init, HandledIsSent
<1>2. HandledIsSent /\ BridgeInv /\ [BridgeNext]_bridgeVars => HandledIsSent'
  BY HandledIsSentInductive
<1>3. BridgeTyped /\ BridgeInv /\ HandledIsSent /\ [BridgeNext]_bridgeVars
        => [Promise!Next]_(Promise!vars)
  BY StepServes
<1>4. QED
  BY <1>1, <1>2, <1>3, BridgeInvariant, BridgeTypedHolds, PTL DEF BridgeSpec, ServiceKept, Promise!Spec
=============================================================================
