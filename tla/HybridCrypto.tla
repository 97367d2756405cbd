---------------------------- MODULE HybridCrypto ----------------------------
(***************************************************************************)
(* HybridCryptoService: the text a phone seals a payment into, what may    *)
(* befall it on its way, and what the server's decrypt() makes of it.      *)
(*                                                                         *)
(* A byte is known by the field it was made for, the sealing that made it  *)
(* and its place in the field.  RSA-OAEP and AES-GCM are external: a block *)
(* yields the session key only if it is a whole block made for this key,   *)
(* and the cipher finishes only with all of what it made with that session *)
(* key.                                                                    *)
(*                                                                         *)
(* What travels is a Base64 text of those bytes.  Node decodes such texts  *)
(* leniently: white space and foreign characters are skipped, the padding  *)
(* may be missing, the unused bits of the last character may be set, and   *)
(* "-_" stand for "+/".  So a text is the bytes it decodes to and the way  *)
(* it spells them, and toString('base64') knows one spelling only.         *)
(***************************************************************************)
EXTENDS Integers, Sequences

CONSTANTS Keys,        \* the server's key pairs
          Plaintexts,  \* the JSON texts sealed
          Sessions,    \* what else makes a sealing unique: its AES key and IV
          Size,        \* plaintext -> its number of bytes
          Parsed,      \* plaintext -> instruction, None if JSON.parse() throws
          None,
          Spellings,   \* the ways to spell bytes in Base64
          Canonical,   \* the spelling of toString('base64')
          RSA_ENCRYPTED_KEY_BYTES, GCM_IV_BYTES, GCM_TAG_BYTES,
          MaxDamage    \* bound on what befalls one package, for model checking only

ASSUME CryptoConstants ==
  /\ RSA_ENCRYPTED_KEY_BYTES \in Nat \ {0}
  /\ GCM_IV_BYTES \in Nat /\ GCM_TAG_BYTES \in Nat
  /\ Size \in [Plaintexts -> Nat]
  /\ Canonical \in Spellings

Sealings == [plaintext : Plaintexts, key : Keys, session : Sessions]

\* The bytes of a field, in order.
Field(field, sealing, n) ==
  [i \in 1..n |-> [field |-> field, sealing |-> sealing, at |-> i]]

WrappedKey(s) == Field("encryptedAesKey", s, RSA_ENCRYPTED_KEY_BYTES)
Iv(s) == Field("iv", s, GCM_IV_BYTES)
Body(s) == Field("aesCiphertext", s, Size[s.plaintext])
Tag(s) == Field("authTag", s, GCM_TAG_BYTES)

\* Mutant: the fields in another order than decrypt() cuts them.
PackedIvFirst(s) == Iv(s) \o WrappedKey(s) \o Body(s) \o Tag(s)

\* The package of sealing s, in the wire format.
Packed(s) == WrappedKey(s) \o Iv(s) \o Body(s) \o Tag(s)

\* encrypt(), with the random choices of sealing s
Encrypt(s) == [bytes |-> Packed(s), spelling |-> Canonical]

-----------------------------------------------------------------------------

\* Buffer.from(text, 'base64'): every spelling of the same bytes decodes to them.
Decode(txt) == txt.bytes

\* privateDecrypt(): the sealings whose AES key this block gives away.
SessionsOf(block, key) == {s \in Sealings : s.key = key /\ block = WrappedKey(s)}

\* Mutant: update() without final().
FinishesUnchecked(s, iv, body, tag) == iv = Iv(s) /\ body = Body(s)

\* decipher.update(), then final() with the tag set
Finishes(s, iv, body, tag) == iv = Iv(s) /\ body = Body(s) /\ tag = Tag(s)

\* Buffer.subarray(), for places within the buffer
Subarray(all, start, end) == SubSeq(all, start + 1, end)

\* decrypt(), None when it throws
Decrypt(txt, key) ==
  LET all == Decode(txt)
      ivAt == RSA_ENCRYPTED_KEY_BYTES
      bodyAt == ivAt + GCM_IV_BYTES
      tagAt == Len(all) - GCM_TAG_BYTES
      opened == {s \in SessionsOf(Subarray(all, 0, ivAt), key) :
                   Finishes(s, Subarray(all, ivAt, bodyAt), Subarray(all, bodyAt, tagAt),
                            Subarray(all, tagAt, Len(all)))}
  IN IF Len(all) < bodyAt + GCM_TAG_BYTES \/ opened = {} THEN None
     ELSE Parsed[(CHOOSE s \in opened : TRUE).plaintext]

-----------------------------------------------------------------------------

VARIABLES text,    \* what arrives
          damage   \* how often something befell it

cryptoVars == <<text, damage>>

CryptoInit == text \in {Encrypt(s) : s \in Sealings} /\ damage = 0

\* A byte no sealing made.
Noise == [field |-> "noise", sealing |-> None, at |-> 0]

FlipByte(i) == text' = [text EXCEPT !.bytes[i] = Noise]

Truncate(n) == text' = [text EXCEPT !.bytes = SubSeq(@, 1, n)]

\* A reassembly that takes the rest from the package of sealing s.
Mix(n, s) ==
  text' = [text EXCEPT !.bytes = SubSeq(@, 1, n) \o SubSeq(Packed(s), n + 1, Len(Packed(s)))]

\* A transport that wraps the lines, drops the padding or spells the text anew.
Respell(spelling) == text' = [text EXCEPT !.spelling = spelling]

CryptoNext ==
  /\ damage < MaxDamage /\ damage' = damage + 1
  /\ \/ \E n \in 1..Len(text.bytes) :
          \/ FlipByte(n)
          \/ Truncate(n - 1)
          \/ \E s \in Sealings : Mix(n, s)
     \/ \E spelling \in Spellings : Respell(spelling)

CryptoSpec == CryptoInit /\ [][CryptoNext]_cryptoVars

\* A package that arrives whole, in whatever spelling, opens with the key it was sealed
\* for, to what was sealed, and with no other key: encrypt() packs the fields in the
\* order and sizes decrypt() cuts them.
WholePackageOpens ==
  \A s \in Sealings : Decode(text) = Packed(s) =>
    \A k \in Keys : Decrypt(text, k) = IF k = s.key THEN Parsed[s.plaintext] ELSE None

\* hybridCryptoService.js: "If any byte of the ciphertext, IV, or auth tag was tampered
\* with, decipher.final() will immediately throw".  The four slices decrypt() cuts
\* cover the decoded bytes with no gap and no overlap: what opens decodes, byte for
\* byte, to a package some phone sealed for this key, never to a mixture or a
\* fragment.  That is said of the bytes; of the text see AlteredTextStaysShut.
OnlyWholePackagesOpen ==
  \A k \in Keys : Decrypt(text, k) # None =>
    \E s \in Sealings :
      s.key = k /\ Decode(text) = Packed(s) /\ Decrypt(text, k) = Parsed[s.plaintext]

\* README: "If any intermediary tampers with even a single bit of the packet, the
\* server's cryptographic authentication tag check fails".  Of the text a packet
\* carries: what opens is, character for character, a text encrypt() made, and so has
\* the SHA-256 by which a second copy of the payment is told from a new one.
\* Refuted: the tag covers the bytes, hashCiphertext() the text.
AlteredTextStaysShut ==
  \A k \in Keys : Decrypt(text, k) # None => \E s \in Sealings : text = Encrypt(s)
=============================================================================
