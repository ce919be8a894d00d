---------------------------------- MODULE Aes ---------------------------------
(***************************************************************************)
(* AES-256 of one block, as crypto/IGE.ts decrypts it: with tables that    *)
(* join a step's substitution and mixing, and round keys that were mixed   *)
(* before.  A byte is the set of its bits, and so a polynomial over two    *)
(* elements: exclusive or is the symmetric difference.  A word is four     *)
(* bytes, the highest first.                                               *)
(***************************************************************************)
EXTENDS Integers, Sequences, SequencesExt, FiniteSetsExt

CONSTANTS
    KeySeeds,       \* of keys <<a, b>>: their bytes are a * i + b
    BlockSeeds      \* of blocks

AesAssumption == KeySeeds \cup BlockSeeds \subseteq Nat \X Nat

VARIABLES
    key, block,     \* what is encrypted: the seeds
    tables,         \* of this module of the code: sbox, invSbox, td
    ek,             \* words of expandDecKey: those of encryption
    dk,             \* and of decryption
    s, round,       \* of encryption and then of decBlock
    out             \* what it gives

vars == <<key, block, tables, ek, dk, s, round, out>>

Byte == SUBSET (0 .. 7)
ByteOf(n) == {b \in 0 .. 7 : (n \div 2 ^ b) % 2 = 1}
Number(x) == SumSet({2 ^ b : b \in x})

Xor(x, y) == (x \ y) \cup (y \ x)
Shift(x, n) == {b + n : b \in x}
Low(x) == x \cap (0 .. 7)
XorWords(v, w) == [j \in 1 .. 4 |-> Xor(v[j], w[j])]

-----------------------------------------------------------------------------
\* initTables().
XTime(x) == Low(Xor(Shift(x, 1), IF 7 \in x THEN {0, 1, 3, 4, 8} ELSE {}))

\* The powers of 3 and those of its inverse, in the order the loop meets them.
NextP(p) == Low(Xor(Xor(p, Shift(p, 1)), IF 7 \in p THEN {0, 1, 3, 4, 8} ELSE {}))
NextQ(q) ==
    LET q1 == Xor(q, Shift(q, 1))
        q2 == Xor(q1, Shift(q1, 2))
        q4 == Low(Xor(q2, Shift(q2, 4)))
    IN Xor(q4, IF 7 \in q4 THEN {0, 3} ELSE {})

Powers ==
    FoldLeft(LAMBDA pairs, k : Append(pairs, <<NextP(Last(pairs)[1]), NextQ(Last(pairs)[2])>>),
             <<<<{0}, {0}>>>>, [k \in 1 .. 254 |-> k])

Rotate(x, n) == {(b + n) % 8 : b \in x}

Substitute(x) ==
    Xor(Xor(Xor(Xor(Xor(x, Rotate(x, 1)), Rotate(x, 2)), Rotate(x, 3)), Rotate(x, 4)), {0, 1, 5, 6})

\* Mutant: the third table is the second.
RowsTwice(m9, mb, md, me) ==
    <<<<me, m9, md, mb>>, <<mb, me, m9, md>>, <<mb, me, m9, md>>, <<m9, md, mb, me>>>>

Rows(m9, mb, md, me) ==
    <<<<me, m9, md, mb>>, <<mb, me, m9, md>>, <<md, mb, me, m9>>, <<m9, md, mb, me>>>>

TdOf(j) ==
    LET x2 == XTime(j)
        x4 == XTime(x2)
        x8 == XTime(x4)
    IN Rows(Xor(x8, j), Xor(Xor(x8, x2), j), Xor(Xor(x8, x4), j), Xor(Xor(x8, x4), x2))

Tables ==
    LET powers == Powers
        inv == [x \in Byte |-> IF x = {} THEN {} ELSE LET k == CHOOSE i \in DOMAIN powers : powers[i][1] = x
                                                      IN powers[k][2]]
        sbox == [x \in Byte |-> Substitute(inv[x])]
        invSbox == [y \in Byte |-> CHOOSE x \in Byte : sbox[x] = y]
    IN [sbox |-> sbox, invSbox |-> invSbox, td |-> [i \in Byte |-> TdOf(invSbox[i])]]

-----------------------------------------------------------------------------
\* expandDecKey().
Bytes(seed, n) == [i \in 1 .. n |-> ByteOf((seed[1] * (i - 1) + seed[2]) % 256)]
Words(bytes) == [w \in 1 .. Len(bytes) \div 4 |-> SubSeq(bytes, 4 * w - 3, 4 * w)]

Nk == 8
Nr == 14
Rcon == <<{0}, {1}, {2}, {3}, {4}, {5}, {6}, {7}, {0, 1, 3, 4}, {1, 2, 4, 5}>>

SubWord(w) == [j \in 1 .. 4 |-> tables.sbox[w[j]]]

\* Word i of the keys, counted from 0, from those before it.
NextWord(i) ==
    LET t == ek[i]
        turned == SubWord(<<t[2], t[3], t[4], t[1]>>)
    IN XorWords(ek[i - Nk + 1],
                CASE i % Nk = 0 -> [turned EXCEPT ![1] = Xor(@, Rcon[i \div Nk])]
                  [] i % Nk = 4 -> SubWord(t)
                  [] OTHER      -> t)

\* One word of a step: a table for each of four bytes, and a word of the key.
Joined(b1, b2, b3, b4, w) ==
    XorWords(XorWords(XorWords(XorWords(tables.td[b1][1], tables.td[b2][2]), tables.td[b3][3]),
                      tables.td[b4][4]), w)

Zero == <<{}, {}, {}, {}>>

\* The words in the order of decryption, those between the ends mixed.
Reversed(words) ==
    [i \in 1 .. 4 * (Nr + 1) |->
        LET r == (i - 1) \div 4
            w == words[4 * (Nr - r) + ((i - 1) % 4) + 1]
        IN IF r \in {0, Nr} THEN w
           ELSE Joined(tables.sbox[w[1]], tables.sbox[w[2]], tables.sbox[w[3]], tables.sbox[w[4]], Zero)]

-----------------------------------------------------------------------------
\* The standard's encryption, which the code leaves to node:crypto.
Multiply(x, y) ==
    FoldLeft(LAMBDA z, b : Xor(XTime(z), IF b \in y THEN x ELSE {}), {}, <<7, 6, 5, 4, 3, 2, 1, 0>>)

MixColumn(w) ==
    [j \in 1 .. 4 |->
        LET at(n) == w[((j - 1 + n) % 4) + 1]
        IN Xor(Xor(Multiply(at(0), {1}), Multiply(at(1), {0, 1})), Xor(at(2), at(3)))]

SubAndShift(state) ==
    [c \in 1 .. 4 |-> [j \in 1 .. 4 |-> tables.sbox[state[((c + j - 2) % 4) + 1][j]]]]

AddKey(state, words, r) == [c \in 1 .. 4 |-> XorWords(state[c], words[4 * r + c])]

EncRound ==
    /\ Len(ek) = 4 * (Nr + 1) /\ dk = <<>> /\ round < Nr
    /\ s' = LET state == SubAndShift(s) IN
            AddKey([c \in 1 .. 4 |-> IF round + 1 = Nr THEN state[c] ELSE MixColumn(state[c])], ek, round + 1)
    /\ round' = round + 1
    /\ UNCHANGED <<key, block, tables, ek, dk, out>>

-----------------------------------------------------------------------------
Init ==
    /\ key \in KeySeeds /\ block \in BlockSeeds
    /\ tables = Tables
    /\ ek = Words(Bytes(key, 4 * Nk)) /\ dk = <<>>
    /\ s = AddKey(Words(Bytes(block, 16)), ek, 0) /\ round = 0 /\ out = <<>>

Expand ==
    /\ Len(ek) < 4 * (Nr + 1)
    /\ ek' = Append(ek, NextWord(Len(ek)))
    /\ UNCHANGED <<key, block, tables, dk, s, round, out>>

\* The rest of expandDecKey(), and decBlock() of what is encrypted begins.
Begin ==
    /\ round = Nr /\ dk = <<>>
    /\ dk' = Reversed(ek)
    /\ s' = AddKey(s, dk', 0)
    /\ round' = 1
    /\ UNCHANGED <<key, block, tables, ek, out>>

\* Byte j of word c comes from the word that is j behind it.
From(c, j) == s[((c - j + 4) % 4) + 1][j]

DecRound ==
    /\ dk # <<>> /\ round \in 1 .. Nr - 1
    /\ s' = [c \in 1 .. 4 |-> Joined(From(c, 1), From(c, 2), From(c, 3), From(c, 4), dk[4 * round + c])]
    /\ round' = round + 1
    /\ UNCHANGED <<key, block, tables, ek, dk, out>>

DecLast ==
    /\ dk # <<>> /\ round = Nr /\ out = <<>>
    /\ out' = [c \in 1 .. 4 |->
                  XorWords([j \in 1 .. 4 |-> tables.invSbox[From(c, j)]], dk[4 * Nr + c])]
    /\ UNCHANGED <<key, block, tables, ek, dk, s, round>>

Next == Expand \/ EncRound \/ Begin \/ DecRound \/ DecLast

Spec == Init /\ [][Next]_vars

-----------------------------------------------------------------------------
\* The tables are those of the field: the substitution is of the inverse, and what is substituted
\* back is mixed back (IGE.ts:15-54).
TablesFit ==
    Len(ek) = Nk =>
        \A x \in Byte :
           /\ tables.invSbox[tables.sbox[x]] = x
           /\ x # {} => \E y \in Byte : Multiply(x, y) = {0} /\ tables.sbox[x] = Substitute(y)

\* A block that was encrypted as the standard says is decrypted to what it was (IGE.ts:56-184).
BlockReadsBack == out # <<>> => out = Words(Bytes(block, 16))

\* The standard's encryption gives the standard's own example.
KnownAnswer ==
    (round = Nr /\ dk = <<>> /\ key = <<1, 0>> /\ block = <<17, 0>>) =>
        [c \in 1 .. 4 |-> [j \in 1 .. 4 |-> Number(s[c][j])]] =
        <<<<142, 162, 183, 202>>, <<81, 103, 69, 191>>, <<234, 252, 73, 144>>, <<75, 73, 96, 137>>>>
=============================================================================
