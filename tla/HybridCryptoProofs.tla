------------------------- MODULE HybridCryptoProofs -------------------------
(***************************************************************************)
(* What is proved of encrypt() and decrypt() for fields and plaintexts of  *)
(* every size, any number of keys and spellings, and any text that may     *)
(* arrive.                                                                 *)
(***************************************************************************)
EXTENDS HybridCrypto, SequenceTheorems, TLAPS

FieldNames == {"encryptedAesKey", "iv", "aesCiphertext", "authTag", "noise"}

Byte == [field : FieldNames, sealing : Sealings \cup {None}, at : Nat]

Text == [bytes : Seq(Byte), spelling : Spellings]

LEMMA FieldIsSeq ==
  ASSUME NEW s \in Sealings, NEW f \in FieldNames, NEW n \in Nat
  PROVE  Field(f, s, n) \in Seq(Byte) /\ Len(Field(f, s, n)) = n
<1>1. \A i \in 1..n : [field |-> f, sealing |-> s, at |-> i] \in Byte
  BY DEF Byte
<1> QED
  BY <1>1 DEF Field

LEMMA FieldsOfPackage ==
  ASSUME NEW s \in Sealings
  PROVE  /\ WrappedKey(s) \in Seq(Byte) /\ Len(WrappedKey(s)) = RSA_ENCRYPTED_KEY_BYTES
         /\ Iv(s) \in Seq(Byte) /\ Len(Iv(s)) = GCM_IV_BYTES
         /\ Body(s) \in Seq(Byte) /\ Len(Body(s)) \in Nat
         /\ Tag(s) \in Seq(Byte) /\ Len(Tag(s)) = GCM_TAG_BYTES
<1>1. /\ RSA_ENCRYPTED_KEY_BYTES \in Nat /\ GCM_IV_BYTES \in Nat /\ GCM_TAG_BYTES \in Nat
      /\ Size[s.plaintext] \in Nat
  BY CryptoConstants DEF Sealings, CryptoConstants
<1>2. WrappedKey(s) \in Seq(Byte) /\ Len(WrappedKey(s)) = RSA_ENCRYPTED_KEY_BYTES
  BY <1>1, FieldIsSeq DEF WrappedKey, FieldNames
<1>3. Iv(s) \in Seq(Byte) /\ Len(Iv(s)) = GCM_IV_BYTES
  BY <1>1, FieldIsSeq DEF Iv, FieldNames
<1>4. Body(s) \in Seq(Byte) /\ Len(Body(s)) \in Nat
  BY <1>1, FieldIsSeq DEF Body, FieldNames
<1>5. Tag(s) \in Seq(Byte) /\ Len(Tag(s)) = GCM_TAG_BYTES
  BY <1>1, FieldIsSeq DEF Tag, FieldNames
<1> QED
  BY <1>2, <1>3, <1>4, <1>5

\* A block of the first field tells its sealing.
LEMMA OneSessionPerBlock ==
  ASSUME NEW s \in Sealings, NEW t \in Sealings, WrappedKey(s) = WrappedKey(t)
  PROVE  s = t
<1>1. WrappedKey(s)[1].sealing = s /\ WrappedKey(t)[1].sealing = t
  BY CryptoConstants DEF WrappedKey, Field, CryptoConstants
<1> QED
  BY <1>1

-----------------------------------------------------------------------------

\* The part of a concatenation between two places, when it is one of its members.
LEMMA MiddleSlice ==
  ASSUME NEW S, NEW a \in Seq(S), NEW b \in Seq(S), NEW c \in Seq(S)
  PROVE  SubSeq((a \o b) \o c, Len(a) + 1, Len(a) + Len(b)) = b
<1> DEFINE all == (a \o b) \o c
           cut == SubSeq(all, Len(a) + 1, Len(a) + Len(b))
<1>1. /\ Len(a) \in Nat /\ Len(b) \in Nat /\ Len(c) \in Nat
      /\ a \o b \in Seq(S) /\ Len(a \o b) = Len(a) + Len(b)
      /\ \A i \in 1..Len(b) : (a \o b)[Len(a) + i] = b[i]
  BY ConcatProperties
<1>2. /\ all \in Seq(S) /\ Len(all) = Len(a) + Len(b) + Len(c)
      /\ \A i \in 1..(Len(a) + Len(b)) : all[i] = (a \o b)[i]
  BY <1>1, ConcatProperties
<1>3. \A i \in (Len(a) + 1)..(Len(a) + Len(b)) : all[i] \in S
  BY <1>1, <1>2
<1> HIDE DEF all
<1>4. /\ cut \in Seq(S) /\ Len(cut) = Len(b)
      /\ \A i \in 1..Len(b) : cut[i] = all[Len(a) + i]
  BY <1>1, <1>3
<1> HIDE DEF cut
<1>5. \A i \in 1..Len(b) : cut[i] = b[i]
  <2> TAKE i \in 1..Len(b)
  <2>1. cut[i] = all[Len(a) + i] /\ Len(a) + i \in 1..(Len(a) + Len(b))
    BY <1>1, <1>4
  <2>2. all[Len(a) + i] = (a \o b)[Len(a) + i]
    BY <1>2, <2>1
  <2> QED
    BY <1>1, <2>1, <2>2
<1>6. cut = b
  BY <1>4, <1>5, SeqEqual
<1> QED
  BY <1>6 DEF cut, all

LEMMA FourParts ==
  ASSUME NEW S, NEW k \in Seq(S), NEW v \in Seq(S), NEW b \in Seq(S), NEW t \in Seq(S),
         NEW all, all = ((k \o v) \o b) \o t
  PROVE  /\ all \in Seq(S)
         /\ Len(all) = Len(k) + Len(v) + Len(b) + Len(t)
         /\ SubSeq(all, 1, Len(k)) = k
         /\ SubSeq(all, Len(k) + 1, Len(k) + Len(v)) = v
         /\ SubSeq(all, Len(k) + Len(v) + 1, Len(k) + Len(v) + Len(b)) = b
         /\ SubSeq(all, Len(k) + Len(v) + Len(b) + 1, Len(all)) = t
<1> DEFINE e == SubSeq(k, 1, 0)
<1>1. /\ Len(k) \in Nat /\ Len(v) \in Nat /\ Len(b) \in Nat /\ Len(t) \in Nat
      /\ e \in Seq(S) /\ Len(e) = 0 /\ e = <<>>
  OBVIOUS
<1>2. k \o v \in Seq(S) /\ Len(k \o v) = Len(k) + Len(v)
  BY ConcatProperties
<1>3. (k \o v) \o b \in Seq(S) /\ Len((k \o v) \o b) = Len(k) + Len(v) + Len(b)
  BY <1>2, ConcatProperties
<1>4. all \in Seq(S) /\ Len(all) = Len(k) + Len(v) + Len(b) + Len(t)
  BY <1>3, ConcatProperties
<1>5. b \o t \in Seq(S) /\ v \o (b \o t) \in Seq(S)
  <2>1. b \o t \in Seq(S)
    BY ConcatProperties
  <2> QED
    BY <2>1, ConcatProperties
<1>6. all = (k \o v) \o (b \o t)
  BY <1>2, ConcatAssociative
<1>7. all = (e \o k) \o (v \o (b \o t))
  <2>1. all = k \o (v \o (b \o t))
    <3>1. PICK r \in Seq(S) : r = b \o t
      BY <1>5
    <3>2. (k \o v) \o r = k \o (v \o r)
      BY <1>1, ConcatAssociative, SMTT(30)
    <3> QED
      BY <1>6, <3>1, <3>2, Zenon
  <2>2. e \o k = k
    BY <1>1, ConcatEmptySeq
  <2> QED
    BY <2>1, <2>2
<1>8. all = all \o e
  BY <1>1, <1>4, ConcatEmptySeq
<1>9. SubSeq(all, 1, Len(k)) = k
  <2>1. SubSeq((e \o k) \o (v \o (b \o t)), Len(e) + 1, Len(e) + Len(k)) = k
    BY <1>1, <1>5, MiddleSlice
  <2> QED
    BY <1>1, <1>7, <2>1
<1>10. SubSeq(all, Len(k) + 1, Len(k) + Len(v)) = v
  BY <1>5, <1>6, MiddleSlice
<1>11. SubSeq(all, Len(k) + Len(v) + 1, Len(k) + Len(v) + Len(b)) = b
  <2>1. SubSeq(all, Len(k \o v) + 1, Len(k \o v) + Len(b)) = b
    BY <1>2, MiddleSlice
  <2> QED
    BY <1>2, <2>1
<1>12. SubSeq(all, Len(k) + Len(v) + Len(b) + 1, Len(all)) = t
  <2> DEFINE f == (k \o v) \o b
  <2>1. SubSeq((f \o t) \o e, Len(f) + 1, Len(f) + Len(t)) = t
    BY <1>1, <1>3, MiddleSlice
  <2> QED
    BY <1>3, <1>4, <1>8, <2>1
<1> QED
  BY <1>4, <1>9, <1>10, <1>11, <1>12

\* decrypt() cuts a package exactly where encrypt() joined it.
LEMMA SlicesOfPackage ==
  ASSUME NEW s \in Sealings
  PROVE  LET all == Packed(s)
             ivAt == RSA_ENCRYPTED_KEY_BYTES
             bodyAt == ivAt + GCM_IV_BYTES
             tagAt == Len(all) - GCM_TAG_BYTES
         IN /\ all \in Seq(Byte) /\ Len(all) >= bodyAt + GCM_TAG_BYTES
            /\ Subarray(all, 0, ivAt) = WrappedKey(s)
            /\ Subarray(all, ivAt, bodyAt) = Iv(s)
            /\ Subarray(all, bodyAt, tagAt) = Body(s)
            /\ Subarray(all, tagAt, Len(all)) = Tag(s)
<1>1. /\ WrappedKey(s) \in Seq(Byte) /\ Len(WrappedKey(s)) = RSA_ENCRYPTED_KEY_BYTES
      /\ Iv(s) \in Seq(Byte) /\ Len(Iv(s)) = GCM_IV_BYTES
      /\ Body(s) \in Seq(Byte) /\ Len(Body(s)) \in Nat
      /\ Tag(s) \in Seq(Byte) /\ Len(Tag(s)) = GCM_TAG_BYTES
      /\ RSA_ENCRYPTED_KEY_BYTES \in Nat /\ GCM_IV_BYTES \in Nat /\ GCM_TAG_BYTES \in Nat
  BY FieldsOfPackage, CryptoConstants DEF CryptoConstants
<1>2. PICK k, v, b, t : k = WrappedKey(s) /\ v = Iv(s) /\ b = Body(s) /\ t = Tag(s)
  OBVIOUS
<1>3. PICK all : all = ((k \o v) \o b) \o t
  OBVIOUS
<1>4. all = Packed(s)
  BY <1>2, <1>3 DEF Packed
<1>5. k \in Seq(Byte) /\ v \in Seq(Byte) /\ b \in Seq(Byte) /\ t \in Seq(Byte)
  BY <1>1, <1>2
<1>6. /\ all \in Seq(Byte)
      /\ Len(all) = Len(k) + Len(v) + Len(b) + Len(t)
      /\ SubSeq(all, 1, Len(k)) = k
      /\ SubSeq(all, Len(k) + 1, Len(k) + Len(v)) = v
      /\ SubSeq(all, Len(k) + Len(v) + 1, Len(k) + Len(v) + Len(b)) = b
      /\ SubSeq(all, Len(k) + Len(v) + Len(b) + 1, Len(all)) = t
  BY <1>3, <1>5, FourParts
<1>7. /\ Len(k) = RSA_ENCRYPTED_KEY_BYTES /\ Len(v) = GCM_IV_BYTES
      /\ Len(t) = GCM_TAG_BYTES /\ Len(b) \in Nat
  BY <1>1, <1>2
<1>8. PICK ivAt, bodyAt, tagAt : /\ ivAt = RSA_ENCRYPTED_KEY_BYTES
                                /\ bodyAt = ivAt + GCM_IV_BYTES
                                /\ tagAt = Len(all) - GCM_TAG_BYTES
  OBVIOUS
<1>9. /\ ivAt = Len(k) /\ bodyAt = Len(k) + Len(v) /\ tagAt = Len(k) + Len(v) + Len(b)
      /\ Len(all) >= bodyAt + GCM_TAG_BYTES
  <2>1. PICK lk, lv, lb, lt, la : /\ lk = Len(k) /\ lv = Len(v) /\ lb = Len(b)
                                  /\ lt = Len(t) /\ la = Len(all)
    OBVIOUS
  <2>2. /\ lk = RSA_ENCRYPTED_KEY_BYTES /\ lv = GCM_IV_BYTES /\ lt = GCM_TAG_BYTES
        /\ lk \in Nat /\ lv \in Nat /\ lb \in Nat /\ lt \in Nat
    BY <1>1, <1>7, <2>1
  <2>3. la = lk + lv + lb + lt
    BY <1>6, <2>1
  <2>4. ivAt = lk /\ bodyAt = lk + lv /\ tagAt = la - lt
    BY <1>8, <2>1, <2>2
  <2>5. tagAt = lk + lv + lb /\ la >= bodyAt + lt
    BY <2>2, <2>3, <2>4
  <2> QED
    BY <2>1, <2>2, <2>4, <2>5
<1>10. SubSeq(all, 0 + 1, ivAt) = k
  BY <1>6, <1>9
<1>11. /\ SubSeq(all, ivAt + 1, bodyAt) = v
       /\ SubSeq(all, bodyAt + 1, tagAt) = b
       /\ SubSeq(all, tagAt + 1, Len(all)) = t
  BY <1>6, <1>9
<1>12. /\ Subarray(all, 0, ivAt) = WrappedKey(s)
       /\ Subarray(all, ivAt, bodyAt) = Iv(s)
       /\ Subarray(all, bodyAt, tagAt) = Body(s)
       /\ Subarray(all, tagAt, Len(all)) = Tag(s)
  BY <1>2, <1>10, <1>11 DEF Subarray
<1>13. all \in Seq(Byte)
  BY <1>6
<1> QED
  BY <1>4, <1>8, <1>9, <1>12, <1>13
-----------------------------------------------------------------------------

\* A package opens with the key it was sealed for, to what was sealed, and with no
\* other, in every spelling: whatever the sizes, decrypt() undoes encrypt().
THEOREM DecryptUndoesEncrypt ==
  ASSUME NEW s \in Sealings, NEW key \in Keys, NEW txt, Decode(txt) = Packed(s)
  PROVE  Decrypt(txt, key) = IF key = s.key THEN Parsed[s.plaintext] ELSE None
<1> DEFINE all == Decode(txt)
           ivAt == RSA_ENCRYPTED_KEY_BYTES
           bodyAt == ivAt + GCM_IV_BYTES
           tagAt == Len(all) - GCM_TAG_BYTES
           opened == {x \in SessionsOf(Subarray(all, 0, ivAt), key) :
                        Finishes(x, Subarray(all, ivAt, bodyAt),
                                 Subarray(all, bodyAt, tagAt), Subarray(all, tagAt, Len(all)))}
<1>1. /\ ~(Len(all) < bodyAt + GCM_TAG_BYTES)
      /\ Subarray(all, 0, ivAt) = WrappedKey(s)
      /\ Subarray(all, ivAt, bodyAt) = Iv(s)
      /\ Subarray(all, bodyAt, tagAt) = Body(s)
      /\ Subarray(all, tagAt, Len(all)) = Tag(s)
  <2>1. all \in Seq(Byte) /\ Len(all) >= bodyAt + GCM_TAG_BYTES
    BY SlicesOfPackage
  <2>2. Len(all) \in Nat /\ bodyAt + GCM_TAG_BYTES \in Nat
    BY <2>1, CryptoConstants DEF CryptoConstants
  <2> QED
    BY <2>1, <2>2, SlicesOfPackage
<1>2. opened = IF key = s.key THEN {s} ELSE {}
  BY <1>1, OneSessionPerBlock DEF SessionsOf, Finishes
<1>3. Decrypt(txt, key) = IF opened = {} THEN None
                          ELSE Parsed[(CHOOSE x \in opened : TRUE).plaintext]
  BY <1>1 DEF Decrypt
<1> HIDE DEF opened, all
<1>4. CASE key = s.key
  <2>1. (CHOOSE x \in opened : TRUE) = s
    BY <1>2, <1>4
  <2> QED
    BY <1>2, <1>3, <1>4, <2>1
<1>5. CASE key # s.key
  BY <1>2, <1>3, <1>5
<1> QED
  BY <1>4, <1>5

\* Whatever text arrives, if it opens it decodes to a package that was sealed for this
\* key, from its first byte to its last: the slices leave no byte unchecked.
THEOREM OnlySealedPackagesOpen ==
  ASSUME NEW txt \in Text, NEW key \in Keys, Decrypt(txt, key) # None
  PROVE  \E s \in Sealings :
           s.key = key /\ Decode(txt) = Packed(s) /\ Decrypt(txt, key) = Parsed[s.plaintext]
<1> DEFINE all == Decode(txt)
           ivAt == RSA_ENCRYPTED_KEY_BYTES
           bodyAt == ivAt + GCM_IV_BYTES
           tagAt == Len(all) - GCM_TAG_BYTES
           opened == {x \in SessionsOf(Subarray(all, 0, ivAt), key) :
                        Finishes(x, Subarray(all, ivAt, bodyAt),
                                 Subarray(all, bodyAt, tagAt), Subarray(all, tagAt, Len(all)))}
           s == CHOOSE x \in opened : TRUE
<1>0. all \in Seq(Byte)
  BY DEF Text, Decode
<1>1. /\ ~(Len(all) < bodyAt + GCM_TAG_BYTES) /\ opened # {}
      /\ Decrypt(txt, key) = Parsed[s.plaintext]
  BY DEF Decrypt
<1>2. s \in opened
  BY <1>1
<1>3. /\ s \in Sealings /\ s.key = key
      /\ Subarray(all, 0, ivAt) = WrappedKey(s)
      /\ Subarray(all, ivAt, bodyAt) = Iv(s)
      /\ Subarray(all, bodyAt, tagAt) = Body(s)
      /\ Subarray(all, tagAt, Len(all)) = Tag(s)
  BY <1>2 DEF SessionsOf, Finishes
<1>4. /\ ivAt \in Nat \ {0} /\ GCM_IV_BYTES \in Nat /\ GCM_TAG_BYTES \in Nat
      /\ Len(all) \in Nat /\ bodyAt \in Nat /\ tagAt \in Nat
      /\ ivAt <= bodyAt /\ bodyAt <= tagAt /\ tagAt <= Len(all)
  BY <1>0, <1>1, CryptoConstants DEF CryptoConstants
<1> HIDE DEF s, all, ivAt, bodyAt, tagAt, opened
<1>5. SubSeq(all, 1, ivAt) \o SubSeq(all, ivAt + 1, bodyAt) = SubSeq(all, 1, bodyAt)
  BY <1>0, <1>4, ConcatAdjacentSubSeq
<1>6. SubSeq(all, 1, bodyAt) \o SubSeq(all, bodyAt + 1, tagAt) = SubSeq(all, 1, tagAt)
  BY <1>0, <1>4, ConcatAdjacentSubSeq
<1>7. SubSeq(all, 1, tagAt) \o SubSeq(all, tagAt + 1, Len(all)) = all
  <2>1. PICK n : n = Len(all)
    OBVIOUS
  <2>2. PICK m : m = tagAt
    OBVIOUS
  <2>3. 1 \in 1..Len(all) + 1 /\ m \in 1 - 1..Len(all) /\ n \in m..Len(all)
    BY <1>4, <2>1, <2>2
  <2>4. SubSeq(all, 1, m) \o SubSeq(all, m + 1, n) = SubSeq(all, 1, n)
    BY <1>0, <2>3, ConcatAdjacentSubSeq
  <2> QED
    BY <1>0, <2>1, <2>2, <2>4, SubSeqFull
<1>8. /\ WrappedKey(s) = SubSeq(all, 1, ivAt)
      /\ Iv(s) = SubSeq(all, ivAt + 1, bodyAt)
      /\ Body(s) = SubSeq(all, bodyAt + 1, tagAt)
      /\ Tag(s) = SubSeq(all, tagAt + 1, Len(all))
  BY <1>3 DEF Subarray
<1>9. all = ((WrappedKey(s) \o Iv(s)) \o Body(s)) \o Tag(s)
  BY <1>5, <1>6, <1>7, <1>8
<1>10. all = Packed(s)
  BY <1>9 DEF Packed
<1> QED
  BY <1>1, <1>3, <1>10 DEF all

\* No text opens with two keys.  This, with the types of what opens, is what
\* BridgeIngestion assumes of InstructionOf, for the text TextOf[c] with hash c.
THEOREM WhatIngestionAssumes ==
  ASSUME NEW Hashes, NEW Instructions,
         Parsed \in [Plaintexts -> Instructions \cup {None}],
         NEW TextOf \in [Hashes -> Text]
  PROVE  LET InstructionOf == [k \in Keys |-> [c \in Hashes |-> Decrypt(TextOf[c], k)]]
         IN  /\ InstructionOf \in [Keys -> [Hashes -> Instructions \cup {None}]]
             /\ \A c \in Hashes, k, l \in Keys :
                  InstructionOf[k][c] # None /\ InstructionOf[l][c] # None => k = l
<1>1. ASSUME NEW c \in Hashes, NEW k \in Keys
      PROVE  Decrypt(TextOf[c], k) \in Instructions \cup {None}
  <2>1. CASE Decrypt(TextOf[c], k) # None
    <3>1. PICK s \in Sealings : Decrypt(TextOf[c], k) = Parsed[s.plaintext]
      BY <2>1, OnlySealedPackagesOpen
    <3>2. s.plaintext \in Plaintexts
      BY DEF Sealings
    <3> QED
      BY <3>1, <3>2
  <2> QED
    BY <2>1
<1>2. ASSUME NEW c \in Hashes, NEW k \in Keys, NEW l \in Keys,
             Decrypt(TextOf[c], k) # None, Decrypt(TextOf[c], l) # None
      PROVE  k = l
  <2>1. PICK s \in Sealings : s.key = k /\ Decode(TextOf[c]) = Packed(s)
    BY <1>2, OnlySealedPackagesOpen
  <2>2. Decrypt(TextOf[c], l) = IF l = s.key THEN Parsed[s.plaintext] ELSE None
    BY <2>1, DecryptUndoesEncrypt
  <2> QED
    BY <1>2, <2>1, <2>2
<1> QED
  BY <1>1, <1>2

-----------------------------------------------------------------------------

\* Of a text on its way, however often bytes of it are changed, cut off or replaced and
\* the rest spelled anew: its package opens while the bytes are whole, in every
\* spelling, and nothing else does.
THEOREM TransitIsSafe == CryptoSpec => [](WholePackageOpens /\ OnlyWholePackagesOpen)
<1> DEFINE Inv == text \in Text
<1>1. CryptoInit => Inv
  <2> SUFFICES ASSUME CryptoInit PROVE Inv
    OBVIOUS
  <2>1. PICK s \in Sealings : text = Encrypt(s)
    BY DEF CryptoInit
  <2>2. Packed(s) \in Seq(Byte)
    BY SlicesOfPackage
  <2> QED
    BY <2>1, <2>2, CryptoConstants DEF Encrypt, Text, CryptoConstants
<1>2. Inv /\ [CryptoNext]_cryptoVars => Inv'
  <2> SUFFICES ASSUME Inv, [CryptoNext]_cryptoVars PROVE Inv'
    OBVIOUS
  <2> DEFINE bytes == text.bytes
  <2>0. bytes \in Seq(Byte) /\ text.spelling \in Spellings
    BY DEF Text
  <2>1. CASE UNCHANGED cryptoVars
    BY <2>1 DEF cryptoVars
  <2>2. ASSUME NEW n \in 1..Len(text.bytes), FlipByte(n) PROVE Inv'
    <3>1. Noise \in Byte
      BY DEF Noise, Byte, FieldNames
    <3>2. [bytes EXCEPT ![n] = Noise] \in Seq(Byte)
      BY <2>0, <3>1, ExceptSeq
    <3>3. text' = [text EXCEPT !.bytes = [bytes EXCEPT ![n] = Noise]]
      BY <2>2 DEF FlipByte
    <3> QED
      BY <3>2, <3>3 DEF Text
  <2>3. ASSUME NEW n \in 1..Len(text.bytes), Truncate(n - 1) PROVE Inv'
    <3>1. SubSeq(bytes, 1, n - 1) \in Seq(Byte)
      BY <2>0
    <3>2. text' = [text EXCEPT !.bytes = SubSeq(bytes, 1, n - 1)]
      BY <2>3 DEF Truncate
    <3> QED
      BY <3>1, <3>2 DEF Text
  <2>4. ASSUME NEW n \in 1..Len(text.bytes), NEW s \in Sealings, Mix(n, s) PROVE Inv'
    <3> DEFINE other == Packed(s)
               mixed == SubSeq(bytes, 1, n) \o SubSeq(other, n + 1, Len(other))
    <3>1. text' = [text EXCEPT !.bytes = mixed]
      BY <2>4 DEF Mix
    <3>2. other \in Seq(Byte)
      BY SlicesOfPackage
    <3> HIDE DEF other
    <3>3. SubSeq(bytes, 1, n) \in Seq(Byte) /\ SubSeq(other, n + 1, Len(other)) \in Seq(Byte)
      BY <2>0, <3>2
    <3>4. mixed \in Seq(Byte)
      BY <3>3, ConcatProperties
    <3> HIDE DEF mixed
    <3> QED
      BY <3>1, <3>4 DEF Text
  <2>5. ASSUME NEW spelling \in Spellings, Respell(spelling) PROVE Inv'
    BY <2>5 DEF Respell, Text
  <2> QED
    BY <2>1, <2>2, <2>3, <2>4, <2>5 DEF CryptoNext
<1>3. Inv => WholePackageOpens
  BY DecryptUndoesEncrypt DEF WholePackageOpens
<1>4. Inv => OnlyWholePackagesOpen
  BY OnlySealedPackagesOpen DEF OnlyWholePackagesOpen
<1> QED
  BY <1>1, <1>2, <1>3, <1>4, PTL DEF CryptoSpec

\* A package that arrives whole opens, with its own key and with no other.
THEOREM WholePackagesOpen == CryptoSpec => []WholePackageOpens
<1>1. WholePackageOpens /\ OnlyWholePackagesOpen => WholePackageOpens
  OBVIOUS
<1> QED
  BY <1>1, TransitIsSafe, PTL
=============================================================================
