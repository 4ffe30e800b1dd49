------------------------------- MODULE Codec -------------------------------
(***************************************************************************)
(* What the desktop application makes of a text on its way to the server   *)
(* and back: encryption and base64 (backend_client.cpp), the list of the   *)
(* server, and the answer to the browser extension                         *)
(* (browser_extension_communicator.cpp, sandbird.c).                       *)
(*                                                                         *)
(* A text is a sequence of character codes, 0 to 255; a scheme ("http://") *)
(* counts as one character more.                                           *)
(***************************************************************************)
EXTENDS Integers, SequencesExt

CONSTANTS BlockSize,   \* AES_BLOCK_SIZE
          NoKey        \* the empty key, after a logout

ASSUME BlockSizePositive == BlockSize \in Nat \ {0}

Byte == 0 .. 255
Text == Seq(Byte)

Null == 0
Space == 32
Quote == 34
Percent == 37
Ampersand == 38
Plus == 43
Slash == 47
Equals == 61
QuestionMark == 63
Backslash == 92
Http == 256             \* "http://" and "https://"
Https == 257
HttpsColon == <<104, 116, 116, 112, 115, 58>>

CString == Seq(Byte \ {Null})

(* The text before the first of the characters stop: a C string ends at 0. *)
LengthBefore(s, stop) ==
    CHOOSE n \in 0 .. Len(s) : /\ \A k \in 1 .. n : s[k] \notin stop
                               /\ n = Len(s) \/ s[n + 1] \in stop
Before(s, stop) == SubSeq(s, 1, LengthBefore(s, stop))

-----------------------------------------------------------------------------
(* base64_chars, and the search in it. *)
CharOf(n) == CASE n < 26 -> n + 65
               [] n \in 26 .. 51 -> n + 71
               [] n \in 52 .. 61 -> n - 4
               [] n = 62 -> 43
               [] OTHER -> 47

ValueOf(c) == CASE c \in 65 .. 90 -> c - 65
                [] c \in 97 .. 122 -> c - 71
                [] c \in 48 .. 57 -> c + 4
                [] c = 43 -> 62
                [] OTHER -> 63

(* Beyond the end a group is filled with null characters. *)
At(s, i) == IF i <= Len(s) THEN s[i] ELSE 0

(* base64_encode: of a group of i < 3 bytes the first i + 1 characters     *)
(* count, the others are '='.                                              *)
EncodedValue(a, b, c, j) == CASE j = 0 -> a \div 4
                              [] j = 1 -> (a % 4) * 16 + b \div 16
                              [] j = 2 -> (b % 16) * 4 + c \div 64
                              [] j = 3 -> c % 64

Base64Encode(s) ==
    [k \in 1 .. 4 * ((Len(s) + 2) \div 3) |->
        LET g == 3 * ((k - 1) \div 4)
            j == (k - 1) % 4
        IN  IF g + j > Len(s) THEN Equals
            ELSE CharOf(EncodedValue(At(s, g + 1), At(s, g + 2), At(s, g + 3), j))]

(* Fault: the last group is dropped when it is not full. *)
DecodedFullGroups(n) == 3 * (n \div 4)

(* A last group of i < 4 characters gives i - 1 bytes. *)
DecodedLength(n) == 3 * (n \div 4) + (IF n % 4 = 0 THEN 0 ELSE (n % 4) - 1)

(* base64_decode: up to the first '='. *)
DecodedByte(a, b, j) == CASE j = 0 -> (a * 4 + b \div 16) % 256
                          [] j = 1 -> ((a % 16) * 16 + b \div 4) % 256
                          [] j = 2 -> ((a % 4) * 64 + b) % 256

Base64Decode(e) ==
    [k \in 1 .. DecodedLength(LengthBefore(e, {Equals})) |->
        LET i == (4 * ((k - 1) \div 3)) + ((k - 1) % 3) + 1
        IN  DecodedByte(ValueOf(e[i]), ValueOf(e[i + 1]), (k - 1) % 3)]

-----------------------------------------------------------------------------
(* Stand for AES_cbc_encrypt over all blocks, with the constant first      *)
(* vector: the same text under the same key is the same cipher text, and   *)
(* only the same key gives it back.                                        *)
CbcEncrypt(k, s) == [i \in 1 .. Len(s) |-> (s[i] + k) % 256]
CbcDecrypt(k, s) == [i \in 1 .. Len(s) |-> (s[i] - k) % 256]

Padding(n) == IF n % BlockSize = 0 THEN 0 ELSE BlockSize - (n % BlockSize)
Padded(s) == [i \in 1 .. Len(s) + Padding(Len(s)) |-> At(s, i)]

(* aes_256_cbc_encode and _decode: an empty key gives an empty text, and   *)
(* what is not a whole block is left out.                                  *)
AesEncode(k, s) == IF k = NoKey THEN <<>> ELSE CbcEncrypt(k, Padded(s))
AesDecode(k, s) == IF k = NoKey THEN <<>>
                   ELSE CbcDecrypt(k, SubSeq(s, 1, Len(s) - (Len(s) % BlockSize)))

(* encryptWithKey, decryptWithKey: the padding is what c_str() cuts off.   *)
EncryptWithKey(k, s) == Base64Encode(AesEncode(k, s))
DecryptWithKey(k, e) == Before(AesDecode(k, Base64Decode(e)), {Null})

-----------------------------------------------------------------------------
(* The positions of a finite set, from the first to the last. *)
InOrder(P) ==
    [k \in 1 .. Cardinality(P) |-> CHOOSE i \in P : Cardinality({j \in P : j <= i}) = k]

(* parseJSONArray: what stands between each two quotes. *)
ParseJSONArray(s) ==
    LET q == InOrder({i \in 1 .. Len(s) : s[i] = Quote})
    IN  [i \in 1 .. Len(q) \div 2 |-> SubSeq(s, q[2 * i - 1] + 1, q[2 * i] - 1)]

(* The strings of a list in quotes, as json.dumps and event_handler write  *)
(* them; what else the two write holds no quote.                           *)
Quoted(f) ==
    LET first[k \in 0 .. Len(f)] ==
            IF k = 0 THEN <<>> ELSE first[k - 1] \o (<<Quote>> \o f[k] \o <<Quote>>)
    IN  first[Len(f)]

(* view-accounts: the accounts of a site, of which all fields are cipher   *)
(* texts, as one list of names and passwords in turn.                      *)
ViewAccounts(vault, site) ==
    LET found == InOrder({i \in 1 .. Len(vault) : vault[i].site = site})
        Field(i) == LET a == vault[found[(i + 1) \div 2]]
                    IN  IF i % 2 = 1 THEN a.name ELSE a.password
    IN  Quoted([i \in 1 .. 2 * Len(found) |-> Field(i)])

(* getAccountsForWebsite: a name that comes twice keeps its last password. *)
AccountsIn(k, data) ==
    LET c == ParseJSONArray(data)
        Name(i) == DecryptWithKey(k, c[2 * i - 1])
        n == Len(c) \div 2
    IN  {<<Name(i), DecryptWithKey(k, c[2 * i])>> :
            i \in {i \in 1 .. n : \A j \in i + 1 .. n : Name(j) # Name(i)}}

(* The list event_handler writes, in the order of a QHash, which is any,   *)
(* and what JSON.parse makes of it in the extension.                       *)
Email == <<101>>
Password == <<112>>
JSONList(pairs) ==
    LET s == SetToSeq(pairs)
        Field(i) == LET a == s[(i + 3) \div 4]
                    IN  <<Email, a[1], Password, a[2]>>[((i - 1) % 4) + 1]
    IN  Quoted([i \in 1 .. 4 * Len(s) |-> Field(i)])

ParsedList(text) ==
    LET w == ParseJSONArray(text)
    IN  {<<w[4 * i - 2], w[4 * i]>> : i \in 1 .. Len(w) \div 4}

-----------------------------------------------------------------------------
(* url_decode of the variable url: the extension does not encode the       *)
(* address it asks about, so its own query ends the value.  An address     *)
(* has two hexadecimal digits after each %, and no %00; that it is cut     *)
(* after 999 characters, far behind the site, is left out.                 *)
HexToInt(c) == CASE c \in 48 .. 57 -> c - 48
                 [] c \in 65 .. 70 -> c - 55
                 [] c \in 97 .. 102 -> c - 87

HexDigit == 48 .. 57 \cup 65 .. 70 \cup 97 .. 102
Escaped(s, i) == HexToInt(s[i + 1]) * 16 + HexToInt(s[i + 2])

AddressChar == (Byte \ {Null}) \cup {Http, Https}

IsAddress(s) ==
    /\ s \in Seq(AddressChar)
    /\ \A i \in 1 .. Len(s) : s[i] = Percent =>
          i + 2 <= Len(s) /\ {s[i + 1], s[i + 2]} \subseteq HexDigit /\ Escaped(s, i) # 0

UrlDecode(s) ==
    LET from[i \in 1 .. Len(s) + 1] ==
            CASE i > Len(s) -> <<>>
              [] i <= Len(s) /\ s[i] = Percent -> <<Escaped(s, i)>> \o from[i + 3]
              [] i <= Len(s) /\ s[i] = Plus -> <<Space>> \o from[i + 1]
              [] OTHER -> <<s[i]>> \o from[i + 1]
    IN  from[1]

UrlEnd == {9, 10, 13, Space, Ampersand, QuestionMark}
UrlVar(address) == UrlDecode(Before(address, UrlEnd))

(* stripURL: of an address with both schemes only the first kind is        *)
(* removed.  Without a slash, remove(-1, ...) takes the last character.    *)
StripURL(u) ==
    LET scheme == IF Http \in ToSet(u) THEN Http ELSE Https
        kept == InOrder({i \in 1 .. Len(u) : u[i] # scheme})
        v == [k \in 1 .. Len(kept) |-> u[kept[k]]]
        n == LengthBefore(v, {Slash, Https})
    IN  CASE n = Len(v) -> SubSeq(v, 1, n - 1)
          [] n < Len(v) /\ v[n + 1] = Slash -> SubSeq(v, 1, n)
          [] OTHER -> SubSeq(v, 1, n) \o HttpsColon
=============================================================================
