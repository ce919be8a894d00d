-------------------------------- MODULE Ciphers -------------------------------
(***************************************************************************)
(* The chaining of crypto/IGE.ts, which is made of that of node:crypto,    *)
(* and the search of crypto/Factorizator.ts.  A block is a set of bits,    *)
(* exclusive or is the symmetric difference, and a key is what it does to  *)
(* one block; Aes has how a block is decrypted.                            *)
(***************************************************************************)
EXTENDS Integers, Sequences, SequencesExt, FiniteSetsExt

CONSTANTS
    Bits,           \* of a block
    MaxBlocks,      \* bound: blocks of a text
    Numbers         \* that are factorized

CiphersAssumption ==
    /\ MaxBlocks \in Nat
    /\ Numbers \subseteq Nat /\ \A n \in Numbers : n > 3

VARIABLES
    kind,           \* what is done: "ige" or "factorize"
    plain, rest,    \* the text: whole blocks, and bytes of one more
    key, iv,        \* key, and the two blocks of the vector
    cipher,
    result,         \* what decryptIge() gives, and factorize()
    pq, y, c, m,    \* of factorize(), as there
    g, r, q, x, ys, k, i,
    at              \* and where it is

vars == <<kind, plain, rest, key, iv, cipher, result, pq, y, c, m, g, r, q, x, ys, k, i, at>>

Block == SUBSET Bits
Xor(a, b) == (a \ b) \cup (b \ a)

\* Two keys: one that turns blocks round, and one that is no sum of its bits.
BlockKeys ==
    LET order == SetToSeq(Block)
        turned == [n \in DOMAIN order |-> order[(n % Len(order)) + 1]]
        index(b) == CHOOSE n \in DOMAIN order : order[n] = b
    IN {[b \in Block |-> turned[index(b)]],
        [b \in Block |-> IF b = {} THEN Bits ELSE IF b = Bits THEN {} ELSE b]}

Back(f, b) == CHOOSE a \in Block : f[a] = b

-----------------------------------------------------------------------------
\* node:crypto's chaining: each block is joined with the one that was encrypted before it.
Cbc(f, first, text) ==
    Tail(FoldLeft(LAMBDA done, b : Append(done, f[Xor(b, Last(done))]), <<first>>, text))

\* What is joined with block j before the code gives it to that chaining.
\* Mutant: the second block is joined with the first of the vector.
WhitenedByFirst(text, j) ==
    IF j = 1 THEN text[1] ELSE IF j = 2 THEN Xor(text[2], iv[1]) ELSE Xor(text[j], text[j - 2])

Whitened(text, j) ==
    IF j = 1 THEN text[1] ELSE IF j = 2 THEN Xor(text[2], iv[2]) ELSE Xor(text[j], text[j - 2])

EncryptIge(text) ==
    LET d == Cbc(key, iv[1], [j \in DOMAIN text |-> Whitened(text, j)])
    IN [j \in DOMAIN text |-> IF j = 1 THEN Xor(d[1], iv[2]) ELSE Xor(d[j], text[j - 1])]

\* decryptIge(): the blocks it has before it, encrypted and plain, are those of the vector at first.
DecryptIge(text) ==
    FoldLeft(LAMBDA done, b :
                [pc |-> b, pp |-> Xor(Back(key, Xor(b, done.pp)), done.pc),
                 out |-> Append(done.out, Xor(Back(key, Xor(b, done.pp)), done.pc))],
             [pc |-> iv[1], pp |-> iv[2], out |-> <<>>], text).out

\* The mode's definition.
Ige(text) ==
    Tail(FoldLeft(LAMBDA done, j :
                     Append(done, Xor(key[Xor(text[j], Last(done))], IF j = 1 THEN iv[2] ELSE text[j - 1])),
                  <<iv[1]>>, [j \in DOMAIN text |-> j]))

-----------------------------------------------------------------------------
NoNumbers == y = 0 /\ c = 0 /\ m = 0 /\ g = 0 /\ r = 0 /\ q = 0 /\ x = 0 /\ ys = 0 /\ k = 0 /\ i = 0
Unchanged == UNCHANGED <<kind, plain, rest, key, iv, cipher, pq, c, m>>

GCD[a \in Nat, b \in Nat] == IF b = 0 THEN a ELSE GCD[b, a % b]
Distance(a, b) == IF a < b THEN b - a ELSE a - b
Next2(n) == (n * n + c) % pq

Init ==
    \/ /\ kind = "ige" /\ at = "encrypt" /\ pq = 0 /\ NoNumbers
       /\ rest \in {0, 1} /\ plain \in BoundedSeq(Block, MaxBlocks - rest)
       /\ key \in BlockKeys /\ iv \in Block \X Block
       /\ cipher = <<>> /\ result = <<>>
    \/ /\ kind = "factorize" /\ at = "start" /\ pq \in Numbers /\ NoNumbers
       /\ plain = <<>> /\ rest = 0 /\ key = <<>> /\ iv = <<>> /\ cipher = <<>> /\ result = <<>>

\* Random bytes fill the last block up.
Encrypt ==
    /\ at = "encrypt" /\ at' = "decrypt"
    /\ \E filled \in IF rest = 0 THEN {plain} ELSE {Append(plain, b) : b \in Block} :
          cipher' = EncryptIge(filled) /\ plain' = filled
    /\ UNCHANGED <<kind, rest, key, iv, result, pq, y, c, m, g, r, q, x, ys, k, i>>

Decrypt ==
    /\ at = "decrypt" /\ at' = "done"
    /\ result' = DecryptIge(cipher)
    /\ UNCHANGED <<kind, plain, rest, key, iv, cipher, pq, y, c, m, g, r, q, x, ys, k, i>>

-----------------------------------------------------------------------------
\* factorize(): an even number at once, the others from three random numbers.
Start ==
    /\ at = "start"
    /\ IF pq % 2 = 0
       THEN /\ result' = <<2, pq \div 2>> /\ at' = "done"
            /\ UNCHANGED <<y, c, m, g, r, q, x, ys, k, i>>
       ELSE /\ y' \in 1 .. pq - 1 /\ c' \in 1 .. pq - 1 /\ m' \in 1 .. pq - 1
            /\ g' = 1 /\ r' = 1 /\ q' = 1 /\ x' = y' /\ ys' = 0 /\ k' = 0 /\ i' = 0
            /\ at' = "skip" /\ UNCHANGED result
    /\ UNCHANGED <<kind, plain, rest, key, iv, cipher, pq>>

\* r steps that nothing is looked for in.
Skip ==
    /\ at = "skip"
    /\ IF i < r
       THEN y' = Next2(y) /\ i' = i + 1 /\ UNCHANGED <<at, ys>>
       ELSE ys' = y /\ i' = 0 /\ at' = "collect" /\ UNCHANGED y
    /\ UNCHANGED <<result, g, r, q, x, k>> /\ Unchanged

\* At most m steps whose distances are multiplied.
Condition == IF m < r - k THEN m ELSE r - k

Collect ==
    /\ at = "collect" /\ i < Condition
    /\ y' = Next2(y)
    /\ q' = (q * Distance(x, y')) % pq
    /\ i' = i + 1
    /\ UNCHANGED <<result, g, r, x, ys, k, at>> /\ Unchanged

\* What they have in common with the number; the inner loop, or the outer one, goes on.
Found == GCD[q, pq]

Divide ==
    /\ at = "collect" /\ i = Condition
    /\ g' = Found /\ i' = 0
    /\ IF k + m < r /\ Found = 1
       THEN k' = k + m /\ ys' = y /\ UNCHANGED <<at, r, x>>
       ELSE /\ r' = 2 * r /\ k' = 0 /\ UNCHANGED ys
            /\ IF Found = 1 THEN at' = "skip" /\ x' = y
               ELSE at' = (IF Found = pq THEN "back" ELSE "divided") /\ UNCHANGED x
    /\ UNCHANGED <<result, y, q>> /\ Unchanged

\* All factors at once: the last steps again, one by one.
StepBack ==
    LET step == Next2(ys)
        factor == GCD[Distance(x, step), pq]
    IN /\ at = "back"
       /\ ys' = step /\ g' = factor
       /\ at' = IF factor > 1 THEN "divided" ELSE "back"
       /\ UNCHANGED <<result, y, r, q, x, k, i>> /\ Unchanged

Divided ==
    /\ at = "divided" /\ at' = "done"
    /\ result' = LET other == pq \div g IN IF g < other THEN <<g, other>> ELSE <<other, g>>
    /\ UNCHANGED <<y, g, r, q, x, ys, k, i>> /\ Unchanged

Next == Encrypt \/ Decrypt \/ Start \/ Skip \/ Collect \/ Divide \/ StepBack \/ Divided

Spec == Init /\ [][Next]_vars

-----------------------------------------------------------------------------
\* What is encrypted is what the mode's definition gives, of whole blocks, and is decrypted to
\* what it was (IGE.ts:200-298).
ChainsReadBack ==
    kind = "ige" =>
        /\ at # "encrypt" => cipher = Ige(plain)
        /\ at = "done" => result = plain

\* The two numbers are those the server multiplied, the smaller first, or 1 and the number itself
\* when all factors came at once, one by one too (Factorizator.ts:25-74).
FactorsFound ==
    (kind = "factorize" /\ at = "done") =>
        /\ result[1] * result[2] = pq /\ result[1] <= result[2]
        /\ result[1] = 1 => Distance(x, ys) % pq = 0

\* It ends, whatever the random numbers are: a number on its way comes back within as many steps.
FactorizeEnds == r <= 4 * pq
=============================================================================
