------------------------------- MODULE Crypt --------------------------------
(***************************************************************************)
(* The codings of luaclib-src/lua-crypt.cpp: base64 and hex on real bytes; *)
(* DES with its paddings on a scaled block (two bytes of two bits, whose   *)
(* permutation, key schedule and S-boxes are parameters); and the exchange *)
(* of keys modulo a prime on words of W bits.  A text is encoded, may have *)
(* foreign characters put into it (base64), and is decoded.                *)
(***************************************************************************)
EXTENDS Integers, Sequences, SequencesExt

CONSTANTS
    Texts,          \* bytes encoded by base64 and hex
    Blocks,         \* texts encoded by DES
    Schedule,       \* Schedule[key]: the 16 subkeys des_main_ks makes of a key
    SBox,           \* SBox[k][x]: what DES_ROUND mixes a half with
    Permutation,    \* the initial permutation, a function of pairs of halves
    W, P, G         \* word width, prime and generator of the key exchange

VARIABLES
    job,            \* what is done: kind, and text, key, padding mode or keys
    wire,           \* the text encoded, or the keys exchanged
    back,           \* the text decoded, or the secrets
    pc              \* encode, decode or done

vars == <<job, wire, back, pc>>

Error == <<-9>>

-----------------------------------------------------------------------------
(* base64 *)

Pad == 61
\* encoding and b64index: the characters A-Z, a-z, 0-9, +, /.
encoding(d) ==
    CASE d < 26 -> d + 65
      [] d >= 26 /\ d < 52 -> d + 71
      [] d >= 52 /\ d < 62 -> d - 4
      [] d = 62 -> 43
      [] d = 63 -> 47

b64index(c) ==
    CASE c = Pad -> -2
      [] \E d \in 0 .. 63 : encoding(d) = c -> CHOOSE d \in 0 .. 63 : encoding(d) = c
      [] OTHER -> -1

Group(v) == <<encoding(v \div 262144), encoding((v \div 4096) % 64), encoding((v \div 64) % 64), encoding(v % 64)>>

RECURSIVE base64_encode(_)
base64_encode(t) ==
    CASE t = <<>> -> <<>>
      [] Len(t) = 1 -> <<encoding(t[1] \div 4), encoding((t[1] % 4) * 16), Pad, Pad>>
      [] Len(t) = 2 -> LET v == t[1] * 256 + t[2]
                       IN  <<encoding(v \div 1024), encoding((v \div 16) % 64), encoding((v % 16) * 4), Pad>>
      [] Len(t) > 2 -> Group(t[1] * 65536 + t[2] * 256 + t[3]) \o base64_encode(SubSeq(t, 4, Len(t)))

\* A group of two bytes.
TwoBytes(c) == LET v == c[1] * 1024 + c[2] * 16 + c[3] \div 4 IN <<v \div 256, v % 256>>

\* The bytes of a group of four indices.
Ungroup(c) ==
    LET padding == Len(SelectSeq(c, LAMBDA d : d = -2))
        v == c[1] * 262144 + c[2] * 4096 + c[3] * 64 + c[4]
    IN  CASE padding = 0 -> <<v \div 65536, (v \div 256) % 256, v % 256>>
          [] padding = 1 /\ c[4] = -2 /\ c[3] % 4 = 0 -> TwoBytes(c)
          [] padding = 2 /\ c[4] = -2 /\ c[3] = -2 /\ c[2] % 16 = 0 -> <<c[1] * 4 + c[2] \div 16>>
          [] OTHER -> Error

\* Characters that are no digits are skipped, but not after the last group.
RECURSIVE base64_decode(_, _)
base64_decode(s, c) ==
    CASE Len(c) = 4 -> LET head == Ungroup(c)
                           rest == base64_decode(s, <<>>)
                       IN  IF head = Error \/ rest = Error THEN Error ELSE head \o rest
      [] Len(c) < 4 /\ s = <<>> -> IF c = <<>> THEN <<>> ELSE Error
      [] Len(c) < 4 /\ s # <<>> ->
            LET i == b64index(s[1])
            IN  IF i = -1 THEN (IF Len(s) = 1 THEN Error ELSE base64_decode(Tail(s), c))
                ELSE base64_decode(Tail(s), Append(c, i))

-----------------------------------------------------------------------------
(* hex *)

Digit(d) == IF d < 10 THEN d + 48 ELSE d + 87
to_hex(t) == FlattenSeq([i \in DOMAIN t |-> <<Digit(t[i] \div 16), Digit(t[i] % 16)>>])

\* The macro HEX on an unsigned byte.
HEX(c) == IF c >= 48 /\ c <= 57 THEN c - 48 ELSE (c - 87) % 256

from_hex(s) ==
    IF Len(s) % 2 = 1 \/ \E i \in DOMAIN s : HEX(s[i]) > 16 THEN Error
    ELSE [i \in 1 .. Len(s) \div 2 |-> (HEX(s[2 * i - 1]) * 16 + HEX(s[2 * i])) % 256]

-----------------------------------------------------------------------------
(* DES: a block is a pair of halves. *)

Xor(a, b) == (((a % 2) + (b % 2)) % 2) + 2 * ((a \div 2 + b \div 2) % 2)

\* Two rounds: DES_ROUND(Y, X); DES_ROUND(X, Y).
DES_ROUND(k, from, to) == Xor(to, SBox[k][from])

des_crypt(sk, block) ==
    LET ip == Permutation[block]
        Two(b, i) == LET x == DES_ROUND(sk[2 * i - 1], b[2], b[1])
                     IN  <<x, DES_ROUND(sk[2 * i], x, b[2])>>
        out == FoldLeft(Two, ip, [i \in 1 .. 8 |-> i])
    IN  CHOOSE b \in DOMAIN Permutation : Permutation[b] = <<out[2], out[1]>>

\* The paddings of a block of two bytes; 2 stands for 0x80.
add_padding(t, mode) ==
    LET n == 2 - Len(t)
    IN  t \o (IF mode = "iso7816_4" THEN SubSeq(<<2, 0>>, 1, n) ELSE [i \in 1 .. n |-> n])

remove_iso7816_4(t) ==
    CASE t[Len(t)] = 2 -> 1
      [] t[Len(t)] = 0 /\ t[Len(t) - 1] = 2 -> 2
      [] OTHER -> 0

remove_pkcs7(t) ==
    LET n == t[Len(t)] IN IF n <= 2 /\ \A i \in 1 .. n : t[Len(t) + 1 - i] = n THEN n ELSE 0

RECURSIVE des_encode(_, _, _)
des_encode(sk, t, mode) ==
    IF Len(t) < 2 THEN des_crypt(sk, add_padding(t, mode))
    ELSE des_crypt(sk, SubSeq(t, 1, 2)) \o des_encode(sk, SubSeq(t, 3, Len(t)), mode)

DecodeKeys(sk) == Reverse(sk)

des_decode(sk, s, mode) ==
    LET t == FlattenSeq([i \in 1 .. Len(s) \div 2 |-> des_crypt(DecodeKeys(sk), SubSeq(s, 2 * i - 1, 2 * i))])
        n == IF mode = "iso7816_4" THEN remove_iso7816_4(t) ELSE remove_pkcs7(t)
    IN  IF s = <<>> \/ Len(s) % 2 = 1 THEN Error
        ELSE IF n <= 0 \/ n > 2 THEN Error ELSE SubSeq(t, 1, Len(t) - n)

-----------------------------------------------------------------------------
(* Key exchange, on unsigned words of W bits. *)

U(n) == n % 2 ^ W

RECURSIVE mul_loop(_, _, _)
mul_loop(a, b, m) ==
    IF b = 0 THEN m
    ELSE mul_loop(IF a >= P - a THEN U(U(a * 2) - P) ELSE U(a * 2),
                  b \div 2,
                  IF b % 2 = 0 THEN m ELSE IF m >= P - a THEN U(m - (P - a)) ELSE U(m + a))

mul_mod_p(a, b) == mul_loop(a, b, 0)

RECURSIVE pow_mod_p(_, _)
pow_mod_p(a, b) ==
    IF b = 1 THEN a
    ELSE LET t == pow_mod_p(a, b \div 2)
             s == mul_mod_p(t, t)
         IN  IF b % 2 = 1 THEN mul_mod_p(s, a) ELSE s

powmodp(a, b) == pow_mod_p(IF a > P THEN a % P ELSE a, b)

dhsecret(x, y) == IF x = 0 \/ y = 0 THEN -1 ELSE powmodp(x, y)

dhexchange(x) == IF x = 0 THEN -1 ELSE powmodp(G, x)

\* A random key is not 0: when its bytes cancel out its first bit is set.
randomkey(k) == IF Xor(k[1], k[2]) = 0 THEN <<k[1] + (1 - (k[1] % 2)), k[2]>> ELSE k

\* A key of two bytes as a word, the low byte first.
Word(k) == k[1] + 4 * k[2]

-----------------------------------------------------------------------------
Keys == {Word(randomkey(k)) : k \in [1 .. 2 -> 0 .. 3]}

Jobs ==
    [kind : {"base64", "hex"}, text : Texts]
    \cup [kind : {"des"}, text : Blocks, key : DOMAIN Schedule, mode : {"iso7816_4", "pkcs7"}]
    \cup [kind : {"dh"}, a : Keys, b : Keys]

Encode ==
    /\ pc = "encode"
    /\ wire' = (CASE job.kind = "base64" -> base64_encode(job.text)
                  [] job.kind = "hex" -> to_hex(job.text)
                  [] job.kind = "des" -> des_encode(Schedule[job.key], job.text, job.mode)
                  [] job.kind = "dh" -> <<dhexchange(job.a), dhexchange(job.b)>>)
    /\ pc' = "decode"
    /\ UNCHANGED <<job, back>>

\* A character that is no digit gets into a base64 text, before its last character.
Foreign(p) ==
    /\ pc = "decode" /\ job.kind = "base64" /\ Len(wire) % 4 = 0
    /\ p \in DOMAIN wire
    /\ wire' = InsertAt(wire, p, 10)
    /\ UNCHANGED <<job, back, pc>>

Decode ==
    /\ pc = "decode"
    /\ back' = (CASE job.kind = "base64" -> base64_decode(wire, <<>>)
                  [] job.kind = "hex" -> from_hex(wire)
                  [] job.kind = "des" -> des_decode(Schedule[job.key], wire, job.mode)
                  [] job.kind = "dh" -> <<dhsecret(wire[2], job.a), dhsecret(wire[1], job.b)>>)
    /\ pc' = "done"
    /\ UNCHANGED <<job, wire>>

Init == job \in Jobs /\ wire = <<>> /\ back = <<>> /\ pc = "encode"

Next ==
    \/ Encode
    \/ \E p \in DOMAIN wire : Foreign(p)
    \/ Decode

Spec == Init /\ [][Next]_vars

-----------------------------------------------------------------------------
\* Every variable keeps its type.
TypeOK ==
    /\ pc \in {"encode", "decode", "done"}
    /\ \A i \in DOMAIN wire : wire[i] \in 0 .. 255

\* What is encoded by base64, hex or DES, with either padding, decodes to the same
\* text, also when foreign characters have been put into a base64 text.
DecodesBack == pc = "done" /\ job.kind # "dh" => back = job.text

\* Both sides of a key exchange get the same secret, the power of the generator modulo
\* the prime, although the words wrap around in the multiplication.
SameSecret ==
    pc = "done" /\ job.kind = "dh" =>
        /\ back[1] = back[2]
        /\ wire[1] = (G ^ job.a) % P
=============================================================================
