-------------------------------- MODULE Login --------------------------------
(***************************************************************************)
(* client/auth.ts: signing in with a phone number and a code, an email     *)
(* address where the server wants one, a new account, a password, or with  *)
(* a QR code that another client scans while this one polls for new tokens.*)
(* start() begins the first; the second may be chosen instead of it.       *)
(*                                                                         *)
(* Callbacks of the application may give anything, and throw.              *)
(***************************************************************************)
EXTENDS Integers, FiniteSets

CONSTANTS
    PhoneIsFunction,        \* phoneNumber of the parameters is a callback
    MaxTries                \* bound: requests that fail

ASSUME LoginAssumption == PhoneIsFunction \in BOOLEAN /\ MaxTries \in Nat

VARIABLES
    account,                \* at the server: registered, with a password, at another DC, terms
    authorized,             \* the server knows the key as signed in
    code,                   \* what the server expects: the hash it gave last, 0 for none
    hashes,                 \* how many it gave
    flow,                   \* the coroutine of the sign-in
    phoneCodeHash, phoneCode,       \* its variables
    staleHash,              \* history: that hash was kept though an email was verified since
    poll,                   \* the coroutine that asks for tokens
    stop,                   \* isScanningComplete
    scanned, update,        \* the other client has scanned, and the update about it
    aborted,                \* of the abort signal
    cause,                  \* history: the last error
    tries

serverVars == <<authorized, code, hashes>>
hashVars == <<phoneCodeHash, staleHash>>
phoneVars == <<hashVars, phoneCode>>
qrVars == <<poll, stop, scanned, update, aborted>>
loginVars == <<account, serverVars, flow, phoneVars, qrVars, cause, tries>>

Try == tries < MaxTries /\ tries' = tries + 1

\* onError decides whether to go on at phase again.
Asks(again, why) ==
    /\ Try /\ cause' = why
    /\ flow' \in {again, "threw"}

Throws(why) == flow' = "threw" /\ cause' = why
Moves(phase) == flow' = phase /\ UNCHANGED <<cause, tries>>

-----------------------------------------------------------------------------
\* signInUser.

NewHash(h) == code' = h /\ hashes' = h /\ phoneCodeHash' = h /\ staleHash' = FALSE

NumberFails(why) ==
    IF PhoneIsFunction THEN Asks("number", why) ELSE Try /\ Throws(why)

\* Mutant: the hash from before the code was sent again.
FirstHash == code' = hashes + 2 /\ hashes' = hashes + 2 /\ phoneCodeHash' = hashes + 1 /\ staleHash' = FALSE

\* ResendCode, where an SMS is forced.
SentAgain == NewHash(hashes + 2)

\* A server that signs in at once makes sendCode throw.
SendCode ==
    /\ flow = "number"
    /\ \/ /\ NewHash(hashes + 1) \/ SentAgain
          /\ Moves("code") \/ Moves("email")
          /\ UNCHANGED authorized
       \/ NumberFails("error") /\ UNCHANGED <<serverVars, hashVars>>
       \/ /\ ~account.password /\ account.registered
          /\ NumberFails("signed in by sendCode")
          /\ authorized' = TRUE /\ UNCHANGED <<code, hashes, hashVars>>
    /\ UNCHANGED <<account, phoneCode, qrVars>>

\* The phoneNumber callback throws RESTART_AUTH_WITH_QR.
ChooseQr ==
    /\ flow = "number" /\ PhoneIsFunction
    /\ Moves("qr")
    /\ UNCHANGED <<account, serverVars, phoneVars, qrVars>>

\* What verifyEmail gives is a new code with a hash of its own.
TakesHash == NewHash(hashes + 1) /\ UNCHANGED authorized

\* Or it is no auth.sentCode but one that is to be paid for, or the account is signed in.
KeepsHash ==
    /\ staleHash' = TRUE /\ UNCHANGED phoneCodeHash
    /\ \/ code' = hashes + 1 /\ hashes' = hashes + 1 /\ UNCHANGED authorized
       \/ /\ account.registered /\ ~account.password
          /\ code' = 0 /\ authorized' = TRUE /\ UNCHANGED hashes

VerifyEmail ==
    /\ flow = "email"
    /\ \/ (TakesHash \/ KeepsHash) /\ Moves("code")
       \/ NumberFails("error") /\ UNCHANGED <<serverVars, hashVars>>
    /\ UNCHANGED <<account, phoneCode, qrVars>>

\* The phoneCode callback, or, when it throws, the code from the last time.
TypeCode ==
    /\ flow = "code"
    /\ Moves("signIn")
    /\ phoneCode' \in {"right", "wrong", "empty", phoneCode}
    /\ UNCHANGED <<account, serverVars, hashVars, qrVars>>

\* It throws RESTART_AUTH: signInUser is called anew.
RestartAuth ==
    /\ flow = "code" /\ Try
    /\ flow' = "number" /\ phoneCode' = "empty" /\ UNCHANGED <<cause, hashVars>>
    /\ UNCHANGED <<account, serverVars, qrVars>>

\* Who signs in with a code or a scan may need a password.
SignIn ==
    /\ flow = "signIn"
    /\ \/ /\ phoneCode = "right" /\ phoneCodeHash = code
          /\ IF account.password THEN Moves("password") /\ UNCHANGED authorized
             ELSE IF ~account.registered THEN Moves("names") /\ UNCHANGED authorized
             ELSE Moves("done") /\ authorized' = TRUE
          /\ UNCHANGED <<code, hashes>>
       \/ /\ (phoneCode # "right" \/ phoneCodeHash # code)
          /\ Asks("code", IF phoneCode = "right" THEN "expired" ELSE "error")
          /\ UNCHANGED serverVars
    /\ UNCHANGED <<account, phoneVars, qrVars>>

\* The server forgets a code.
Expire ==
    /\ flow \in {"code", "signIn"} /\ code # 0 /\ Try
    /\ code' = 0
    /\ UNCHANGED <<account, authorized, hashes, flow, phoneVars, qrVars, cause>>

\* SignUp, then AcceptTermsOfService; when that fails, the names are asked for and
\* SignUp is sent again, to an account that exists by now.
SignUp ==
    /\ flow = "names"
    /\ \/ /\ ~account.registered
          /\ account' = [account EXCEPT !.registered = TRUE] /\ authorized' = TRUE
          /\ Moves(IF account.terms THEN "terms" ELSE "done")
       \/ Asks("names", IF account.registered THEN "occupied" ELSE "error")
          /\ UNCHANGED <<account, authorized>>
    /\ UNCHANGED <<code, hashes, phoneVars, qrVars>>

AcceptTerms ==
    /\ flow = "terms"
    /\ Moves("done") \/ Asks("names", "occupied")
    /\ UNCHANGED <<account, serverVars, phoneVars, qrVars>>

\* signInWithPassword.
CheckPassword ==
    /\ flow = "password"
    /\ \/ Moves("done") /\ authorized' = TRUE
       \/ Asks("password", "error") /\ UNCHANGED authorized
       \/ Try /\ Throws("no password callback") /\ UNCHANGED authorized
    /\ UNCHANGED <<account, code, hashes, phoneVars, qrVars>>

-----------------------------------------------------------------------------
\* signInUserWithQrCode.

StartQr ==
    /\ flow = "qr"
    /\ IF aborted THEN Throws("abort") /\ UNCHANGED <<tries, poll>>
       ELSE Moves("waiting") /\ poll' = "asking"
    /\ UNCHANGED <<account, serverVars, phoneVars, stop, scanned, update, aborted>>

\* What ExportLoginToken gives: the scan is the end of the tokens.
Token ==
    IF ~scanned THEN "token" ELSE IF account.away THEN "migrate"
    ELSE IF account.password THEN "password needed" ELSE "success"

Stopped == stop \/ aborted

\* The poll: an answer that is not a token makes it throw, and the sign-in with it
\* as long as that waits, also when the answer is that the scan succeeded.
PollAnswer ==
    /\ poll = "asking"
    /\ IF Token = "token" THEN poll' = "showing" /\ UNCHANGED <<stop, flow, cause, authorized>>
       ELSE /\ poll' = "failed"
            /\ authorized' = (authorized \/ Token = "success")
            /\ IF flow = "waiting" THEN stop' = TRUE /\ Throws("unexpected")
               ELSE UNCHANGED <<stop, flow, cause>>
    /\ UNCHANGED <<account, code, hashes, phoneVars, scanned, update, aborted, tries>>

\* Mutant: one token is asked for.
PollOnce ==
    /\ poll = "showing" /\ poll' = "ended"
    /\ UNCHANGED <<account, serverVars, flow, phoneVars, stop, scanned, update, aborted, cause, tries>>

\* After the callback or its timeout, and a sleep.
PollAgain ==
    /\ poll = "showing"
    /\ poll' = IF Stopped THEN "ended" ELSE "asking"
    /\ UNCHANGED <<account, serverVars, flow, phoneVars, stop, scanned, update, aborted, cause, tries>>

\* A request for a token fails, or the callback throws.
PollFails ==
    /\ poll \in {"asking", "showing"} /\ Try
    /\ poll' = "failed"
    /\ IF flow = "waiting" THEN stop' = TRUE /\ Throws("error") ELSE UNCHANGED <<stop, flow, cause>>
    /\ UNCHANGED <<account, serverVars, phoneVars, scanned, update, aborted>>

\* The other client scans, and the server pushes updateLoginToken.
Scan ==
    /\ flow = "waiting" /\ ~scanned /\ account.registered
    /\ scanned' = TRUE
    /\ update' \in {"pushed", "lost"}
    /\ UNCHANGED <<account, serverVars, flow, phoneVars, poll, stop, aborted, cause, tries>>

OnUpdate ==
    /\ update = "pushed" /\ flow = "waiting"
    /\ update' = "handled" /\ stop' = TRUE
    /\ Moves("exporting")
    /\ UNCHANGED <<account, serverVars, phoneVars, poll, scanned, aborted>>

Abort ==
    /\ flow \in {"qr", "waiting", "exporting", "importing"} /\ ~aborted
    /\ aborted' = TRUE
    /\ IF flow = "waiting" THEN stop' = TRUE /\ Throws("abort") ELSE UNCHANGED <<stop, flow, cause>>
    /\ UNCHANGED <<account, serverVars, phoneVars, poll, scanned, update, tries>>

\* Mutant: an account of another DC is an unknown result.
MigratedUnknown == Throws("unknown") /\ UNCHANGED tries

Migrated == Moves("importing")

\* The token that was accepted.
Export ==
    /\ flow = "exporting"
    /\ \/ Try /\ Throws("error") /\ UNCHANGED authorized
       \/ /\ CASE Token = "success" -> Moves("done")
               [] Token = "migrate" -> Migrated
               [] Token = "password needed" -> Moves("password")
               [] OTHER -> Throws("unknown") /\ UNCHANGED tries
          /\ authorized' = (authorized \/ Token = "success")
    /\ UNCHANGED <<account, code, hashes, phoneVars, qrVars>>

\* _switchDC, then ImportLoginToken: it fails, or its result is unknown, or it is a success
\* unless a password is needed.
Import ==
    /\ flow = "importing"
    /\ \/ Try /\ Throws("error") /\ UNCHANGED authorized
       \/ account.password /\ Moves("password") /\ UNCHANGED authorized
       \/ ~account.password /\ Moves("done") /\ authorized' = TRUE
    /\ UNCHANGED <<account, code, hashes, phoneVars, qrVars>>

-----------------------------------------------------------------------------
LoginInit ==
    /\ account \in [registered : BOOLEAN, password : BOOLEAN, away : BOOLEAN, terms : BOOLEAN]
    /\ account.password => account.registered
    /\ authorized = FALSE /\ code = 0 /\ hashes = 0
    /\ flow \in {"number", "qr"} /\ phoneCodeHash = 0 /\ phoneCode = "empty" /\ staleHash = FALSE
    /\ poll = "off" /\ stop = FALSE /\ scanned = FALSE /\ update = "none" /\ aborted = FALSE
    /\ cause = "none" /\ tries = 0

LoginNext ==
    \/ SendCode \/ ChooseQr \/ VerifyEmail \/ TypeCode \/ RestartAuth \/ SignIn \/ Expire
    \/ SignUp \/ AcceptTerms \/ CheckPassword
    \/ StartQr \/ PollAnswer \/ PollAgain \/ PollFails \/ Scan \/ OnUpdate \/ Abort
    \/ Export \/ Import

LoginSpec == LoginInit /\ [][LoginNext]_loginVars

\* Requests are answered and sleeps end.
Polls == PollAnswer \/ PollAgain
FairLogin == LoginSpec /\ WF_loginVars(Polls)

-----------------------------------------------------------------------------
\* Exception: after an email was verified only the hash of an auth.sentCode is taken, and else
\* the one before it is used (auth.ts:266, 294).
HashWasKept == staleHash

\* The code is sent with the hash it belongs to, after verified emails, resends and
\* restarts: only a code the server forgot is refused although it is right, except one whose
\* hash was not taken (HashWasKept).
HashIsLatest == flow \in {"code", "signIn"} => code \in {phoneCodeHash, 0} \/ HashWasKept

\* A scan signs the account in, whatever DC it is at and whether it has a password, if
\* no request fails and it is not aborted; unless the poll heard of it before the update, and
\* took the success for an unexpected answer (auth.ts:440).
ScanSignsIn ==
    scanned /\ flow = "threw" =>
        cause \in {"abort", "unexpected", "error", "no password callback"}

\* Both ways to sign in end well but for a fault of their own (auth.ts:190-530) and for what
\* HashIsLatest and ScanSignsIn except.
SignsIn == HashIsLatest /\ ScanSignsIn

WaitsAfterScan == flow = "waiting" /\ scanned

\* The sign-in does not wait for ever after a scan, also when the update about it is lost.
ScanIsNoticed == WaitsAfterScan ~> ~WaitsAfterScan

=============================================================================
