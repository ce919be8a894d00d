------------------------------- MODULE Passwords -------------------------------
(***************************************************************************)
(* Two-step verification: what Password.ts computes of a password, with    *)
(* small numbers, and how client/2fa.ts and signInWithPassword() of        *)
(* client/auth.ts use it, when others change the password between the      *)
(* answer they compute with and the request they make.                     *)
(*                                                                         *)
(* A hash is a sequence of what is hashed, but for those that are numbers: *)
(* x, k and u.                                                             *)
(***************************************************************************)
EXTENDS Integers, Sequences, FiniteSetsExt

CONSTANTS
    Prime, Generator,
    Words,          \* passwords
    Randoms,        \* exponents: a of the client, b of the server
    MinBits,        \* what a power may be near zero or the prime: less than so many bits
    Callers,
    MaxCodes,       \* bound: codes of an email that are typed
    None

PasswordsAssumption ==
    /\ Prime \in Nat /\ Generator \in 2 .. Prime - 1 /\ MinBits \in Nat
    /\ Words \subseteq 1 .. 3 /\ Randoms \subseteq Nat /\ MaxCodes \in Nat
    /\ None \notin Words /\ Callers \subseteq Nat

VARIABLES
    account,        \* of the server: its salt and verifier, or 0 and 0; and history: its password
    settings,       \* those that wait for the code of an email
    algos,          \* and the algorithms it asks for: of the password and for a new one
    epoch,          \* counted when settings change: what was asked before is of no use
    pc,             \* of a caller
    param,          \* what it was called with
    pwd,            \* what getPassword() gave
    password,       \* what it sends: InputCheckPasswordSRP or InputCheckPasswordEmpty
    digest,         \* newSettings: salt and hash
    error,          \* that it ended with, or the last one it was asked about
    codes           \* that were typed

vars == <<account, settings, algos, epoch, pc, param, pwd, password, digest, error, codes>>

-----------------------------------------------------------------------------
ModExp(base, exponent) ==
    LET power[e \in Nat] ==
            IF e = 0 THEN 1
            ELSE LET half == power[e \div 2] IN (half * half * (IF e % 2 = 1 THEN base ELSE 1)) % Prime
    IN power[exponent]
BigIntMod(n) == ((n % Prime) + Prime) % Prime

\* Bits of a number, and the next power is the first above it.
BitLength(n) == Min({b \in 0 .. 20 : n < 2 ^ b})

IsGoodLarge(n) == n > 0 /\ Prime - n > 0
IsGoodModExpFirst(n) == Prime - n >= 0 /\ BitLength(Prime - n) >= MinBits /\ BitLength(n) >= MinBits

\* The hash of a password between salts; other passwords give other numbers.
ComputeHash(salt, word) == ((5 * salt + 7 * word) % (Prime - 2)) + 1

\* checkPrimeAndGood() knows one prime, with generators that are good for it.
CheckPrimeAndGood(algo) == algo = "known"

ComputeDigest(salt, word) == ModExp(Generator, ComputeHash(salt, word))

HashOf(a, b) == (3 * a + 5 * b) % 7
Multiplier == 3
Proof(A, B, secret, salt) == <<A, B, secret, salt>>

\* Mutant: the hash is not multiplied.
ExponentOfSum(a, u, x) == a + u + x

Exponent(a, u, x) == a + u * x

\* What computeCheck() throws before it computes.
Refused(asked) ==
    CASE asked.algo \in {"none", "unknown"}       -> "Unsupported password algorithm"
      [] asked.B = 0                       -> "Undefined srp_b"
      [] ~CheckPrimeAndGood(asked.algo)    -> "bad /g in password"
      [] ~IsGoodLarge(asked.B)             -> "bad b in check"
      [] OTHER                             -> ""

\* The random exponents it accepts.
GoodRandoms(B) == {a \in Randoms : IsGoodModExpFirst(ModExp(Generator, a)) /\ HashOf(ModExp(Generator, a), B) > 0}

GB(asked, word) ==
    BigIntMod(asked.B - BigIntMod(Multiplier * ModExp(Generator, ComputeHash(asked.salt, word))))

Srp(asked, word, a) ==
    LET A == ModExp(Generator, a)
        S == ModExp(GB(asked, word), Exponent(a, HashOf(A, asked.B), ComputeHash(asked.salt, word)))
    IN [srpId |-> asked.srpId, A |-> A, M1 |-> Proof(A, asked.B, S, asked.salt)]

Empty == [srpId |-> 0]

-----------------------------------------------------------------------------
Init ==
    /\ \E word \in Words \cup {None} :
          account = IF word = None THEN [salt |-> 0, v |-> 0, word |-> None]
                    ELSE [salt |-> 1, v |-> ComputeDigest(1, word), word |-> word]
    /\ algos \in {<<"known", "known">>, <<"other prime", "known">>, <<"unknown", "known">>, <<"known", "unknown">>,
                 <<"known", "other prime">>}
    /\ settings = <<>> /\ epoch = 1 /\ codes = 0
    /\ pc = [c \in Callers |-> "idle"] /\ param = [c \in Callers |-> <<>>] /\ pwd = [c \in Callers |-> <<>>]
    /\ password = [c \in Callers |-> Empty] /\ digest = [c \in Callers |-> <<>>]
    /\ error = [c \in Callers |-> ""]

server == <<account, settings, algos, epoch>>

Goto(c, at) == pc' = [pc EXCEPT ![c] = at]
Fails(c, with) == Goto(c, "failed") /\ error' = [error EXCEPT ![c] = with]

\* updateTwoFaSettings(), with or without isCheckPassword, and signInWithPassword(); its callback
\* gives a password anew each time.  Callers have numbers, and begin in their order.
Begin(c) ==
    /\ pc[c] = "idle" /\ \A d \in Callers : d < c => pc[d] # "idle"
    /\ \E does \in {"update", "check", "sign in"}, current, new \in Words \cup {None},
          email \in {"none", "given", "no callbacks"} :
          /\ does # "update" => new = None /\ email = "none"
          /\ param' = [param EXCEPT ![c] = [does |-> does, current |-> current, new |-> new, email |-> email]]
          /\ IF does # "sign in" /\ current = None /\ new = None THEN Fails(c, "Neither")
             ELSE IF email = "no callbacks" THEN Fails(c, "email without callbacks")
             ELSE Goto(c, "asks") /\ UNCHANGED error
    /\ UNCHANGED <<server, pwd, password, digest, codes>>

\* The server's answer, with a number that is good for one check, or an algorithm it or the client
\* does not know; the salt for a new password.
GetPassword(c) ==
    /\ pc[c] = "asks" /\ Goto(c, "asked")
    /\ \E b \in IF account.v = 0 THEN {0} ELSE Randoms :
          pwd' = [pwd EXCEPT ![c] =
                     [hasPassword |-> account.v # 0, salt |-> account.salt, b |-> b, srpId |-> epoch,
                      algo |-> IF account.v = 0 THEN "none" ELSE algos[1], newAlgo |-> algos[2],
                      B |-> IF account.v = 0 THEN 0
                            ELSE (Multiplier * account.v + ModExp(Generator, b)) % Prime]]
    /\ UNCHANGED <<server, param, password, digest, error, codes>>

\* Random bytes are added to the salt of the new algorithm.
Extended(salt, random) == 2 * salt + random

\* signInWithPassword(): without a callback it ends; what fails is told, and tried again until the
\* caller has enough.
SignInFails(c, with) ==
    /\ error' = [error EXCEPT ![c] = with]
    /\ \/ Goto(c, "asks")
       \/ Goto(c, "failed")

\* What computes, from the answer to the request: all three callers.
Compute(c) ==
    LET p == param[c]
        asked == pwd[c]
        current == IF p.does # "sign in" /\ ~asked.hasPassword THEN None ELSE p.current
        fails(with) == /\ IF p.does = "sign in" THEN SignInFails(c, with) ELSE Fails(c, with)
                       /\ UNCHANGED <<password, digest>>
    IN /\ pc[c] = "asked"
       /\ CASE p.does = "sign in" /\ p.current = None ->
                  Fails(c, "Account has 2FA enabled.") /\ UNCHANGED <<password, digest>>
            [] current # None /\ Refused(asked) # "" -> fails(Refused(asked))
            [] current # None /\ Refused(asked) = "" /\ ~IsGoodModExpFirst(GB(asked, current)) ->
                  fails("bad gB")
            [] OTHER ->
                  /\ IF current = None THEN password' = [password EXCEPT ![c] = Empty]
                     ELSE \E a \in GoodRandoms(asked.B) :
                             password' = [password EXCEPT ![c] = Srp(asked, current, a)]
                  /\ CASE p.does # "update" -> Goto(c, "checks") /\ UNCHANGED <<digest, error>>
                       [] p.does = "update" /\ asked.newAlgo = "unknown" ->
                             Fails(c, "Unknown password encryption method") /\ UNCHANGED digest
                       [] p.does = "update" /\ p.new # None /\ ~CheckPrimeAndGood(asked.newAlgo) ->
                             Fails(c, "bad p/g in password") /\ UNCHANGED digest
                       [] OTHER ->
                             /\ \E random \in {0, 1} :
                                   LET salt == Extended(asked.salt + 1, random) IN
                                   digest' = [digest EXCEPT ![c] =
                                                 IF p.new = None THEN [salt |-> 0, v |-> 0, word |-> None]
                                                 ELSE [salt |-> salt, v |-> ComputeDigest(salt, p.new), word |-> p.new]]
                             /\ Goto(c, "updates") /\ UNCHANGED error
       /\ UNCHANGED <<server, param, pwd, codes>>

-----------------------------------------------------------------------------
\* The server's side: the number is good for one check of the settings it was made for.
Accepts(c) ==
    LET sent == password[c]
        S == ModExp(sent.A * ModExp(account.v, HashOf(sent.A, pwd[c].B)), pwd[c].b)
    IN /\ sent.srpId = epoch /\ account.v # 0
       /\ sent.M1 = Proof(sent.A, pwd[c].B, S, account.salt)

Wrong(c) == IF password[c].srpId \notin {0, epoch} THEN "SRP_ID_INVALID" ELSE "PASSWORD_HASH_INVALID"

CheckPassword(c) ==
    /\ pc[c] = "checks"
    /\ IF Accepts(c) THEN Goto(c, "done") /\ UNCHANGED error
       ELSE IF param[c].does = "sign in" THEN SignInFails(c, Wrong(c)) ELSE Fails(c, Wrong(c))
    /\ UNCHANGED <<server, param, pwd, password, digest, codes>>

Store(new) == account' = new /\ epoch' = epoch + 1 /\ UNCHANGED algos

\* UpdatePasswordSettings: with an email it waits for a code.
Update(c) ==
    /\ pc[c] = "updates"
    /\ IF ~(IF account.v = 0 THEN password[c] = Empty ELSE password[c] # Empty /\ Accepts(c))
       THEN Fails(c, Wrong(c)) /\ UNCHANGED server
       ELSE IF param[c].email = "given" /\ param[c].new # None
       THEN Goto(c, "confirms") /\ settings' = <<c>> /\ epoch' = epoch + 1 /\ UNCHANGED <<account, algos, error>>
       ELSE Goto(c, "done") /\ Store(digest[c]) /\ settings' = <<>> /\ UNCHANGED error
    /\ UNCHANGED <<param, pwd, password, digest, codes>>

\* The loop that asks for the code, until one is right: errors are only told.
Confirm(c) ==
    /\ pc[c] = "confirms" /\ codes < MaxCodes /\ codes' = codes + 1
    /\ \E code \in {"empty", "wrong", "right"} :
          IF code = "right" /\ settings = <<c>>
          THEN Goto(c, "done") /\ Store(digest[c]) /\ settings' = <<>> /\ UNCHANGED error
          ELSE /\ error' = [error EXCEPT ![c] = CASE code = "empty"    -> "Code is empty"
                                                  [] settings = <<c>>  -> "CODE_INVALID"
                                                  [] OTHER             -> "EMAIL_HASH_EXPIRED"]
               /\ UNCHANGED <<server, pc>>
    /\ UNCHANGED <<param, pwd, password, digest>>

Next ==
    \E c \in Callers :
       Begin(c) \/ GetPassword(c) \/ Compute(c) \/ CheckPassword(c) \/ Update(c) \/ Confirm(c)

Spec == Init /\ [][Next]_vars

-----------------------------------------------------------------------------
\* A proof that was computed of the account's password is the one the server computes, while what it
\* was asked with is of the account's settings (Password.ts:225-317).
RightIsAccepted ==
    \A c \in Callers :
        (pc[c] \in {"checks", "updates"} /\ password[c].srpId = epoch /\ param[c].current = account.word) =>
            Accepts(c)

\* The account's verifier is that of its password, after updates that wait for codes and those of
\* others: whoever set it signs in with it (2fa.ts:78-137).
VerifierFits ==
    account.v # 0 =>
        account.v = ModExp(Generator, ComputeHash(account.salt, account.word))
=============================================================================
