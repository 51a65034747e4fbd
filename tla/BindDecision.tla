---------------------------- MODULE BindDecision ----------------------------
(***************************************************************************)
(* What LDAPOpsHelper.Bind decides once the user is known                  *)
(* (v2/pkg/handler/ldapopshelper.go:86-195): the Yubikey and TOTP codes    *)
(* are cut off the end of the password that was sent, application          *)
(* passwords and custom authentication look at what the Yubikey step left, *)
(* the stored hashes at what is left after both.                           *)
(*                                                                         *)
(* A password is a sequence of characters; a stored hash is the password   *)
(* it accepts.  The code lengths, 44 and 6 in the code, are parameters.    *)
(***************************************************************************)
EXTENDS Naturals, Sequences

CONSTANTS
    YubikeyOtpLen,      \* 44
    YubikeyIdLen,       \* 12, the start of a Yubikey code names the key
    TotpLen,            \* 6
    GenuineOtps,        \* external: codes the Yubico service vouches for
    None,               \* a secret that is not configured
    BadHex              \* a stored bcrypt hash that is not hexadecimal

ASSUME LengthAssumption ==
    /\ YubikeyOtpLen \in Nat
    /\ YubikeyIdLen \in 0 .. YubikeyOtpLen
    /\ TotpLen \in Nat
    /\ BadHex # None

-----------------------------------------------------------------------------
AllBut(n, pw) == SubSeq(pw, 1, Len(pw) - n)
Final(n, pw) == SubSeq(pw, Len(pw) - n + 1, Len(pw))

\* `on` says that [backend] configures access to the Yubico service.
CutsYubikey(u, on, sent) ==
    u.yubikey # None /\ on /\ Len(sent) > YubikeyOtpLen

\* untouchedBindSimplePw
Untouched(u, on, sent) ==
    IF CutsYubikey(u, on, sent) THEN AllBut(YubikeyOtpLen, sent) ELSE sent

\* A code of the user's own key that the service vouches for.
KeyCode(u, otp) ==
    /\ Len(otp) = YubikeyOtpLen
    /\ SubSeq(otp, 1, YubikeyIdLen) = u.yubikey
    /\ otp \in GenuineOtps

\* Slip: any genuine code will do, whatever key it is from.
YubikeyOfAnyone(u, on, sent) ==
    \/ u.yubikey = None /\ u.otpSecret = None
    \/ CutsYubikey(u, on, sent) /\ Final(YubikeyOtpLen, sent) \in GenuineOtps

\* validotp before the TOTP step
YubikeySettles(u, on, sent) ==
    \/ u.yubikey = None /\ u.otpSecret = None
    \/ CutsYubikey(u, on, sent) /\ KeyCode(u, Final(YubikeyOtpLen, sent))

CutsTotp(u, on, sent) ==
    /\ u.otpSecret # None
    /\ ~YubikeySettles(u, on, sent)
    /\ Len(Untouched(u, on, sent)) > TotpLen

\* Slip: the code is checked and left on the password.
PasswordWithCode(u, on, sent) == Untouched(u, on, sent)

\* What the stored hashes are compared with.
Password(u, on, sent) ==
    IF CutsTotp(u, on, sent)
    THEN AllBut(TotpLen, Untouched(u, on, sent))
    ELSE Untouched(u, on, sent)

\* validotp
OtpValid(u, on, sent) ==
    \/ YubikeySettles(u, on, sent)
    \/ /\ CutsTotp(u, on, sent)
       /\ Final(TotpLen, Untouched(u, on, sent)) = u.otpSecret

Matches(stored, pw) == stored \in {None, pw}

AppPassword(u, on, sent) == Untouched(u, on, sent) \in u.apps

\* Slip: custom authentication is one more way in, not the last word.
ReachesHashesAfterCustom(u, on, sent) ==
    ~AppPassword(u, on, sent) /\ OtpValid(u, on, sent)

\* Neither an application password nor custom authentication decides, and
\* the code is valid.
ReachesHashes(u, on, sent) ==
    ~AppPassword(u, on, sent) /\ u.custom = None /\ OtpValid(u, on, sent)

\* Bind answers Success.
Accepted(u, on, sent) ==
    \/ AppPassword(u, on, sent)
    \/ u.custom # None /\ Untouched(u, on, sent) \in u.custom
    \/ /\ ReachesHashes(u, on, sent)
       /\ u.bcrypt # BadHex
       /\ Matches(u.bcrypt, Password(u, on, sent))
       /\ Matches(u.sha256, Password(u, on, sent))

\* Slip: an unreadable stored hash counts like a wrong password.
CountedBadHex(u, on, sent) ==
    ReachesHashes(u, on, sent) /\ ~Accepted(u, on, sent)

\* Bind answers InvalidCredentials and calls maybePutInTimeout.
Counted(u, on, sent) ==
    /\ ReachesHashes(u, on, sent)
    /\ u.bcrypt # BadHex
    /\ ~Accepted(u, on, sent)

-----------------------------------------------------------------------------
(* The reference: what a client has to send, with no order of steps.       *)

\* The user has no stored hash, and nothing is asked instead.
Passwordless(u) == u.bcrypt = None /\ u.sha256 = None /\ u.custom = None

\* There is a stored hash, and pw is what each stands for.
HashesAccept(u, pw) ==
    /\ u.bcrypt # None \/ u.sha256 # None
    /\ u.bcrypt = None \/ u.bcrypt = pw
    /\ u.sha256 = None \/ u.sha256 = pw

\* The code of one of the user's second factors; nothing, if he has none.
SecondFactor(u, on, code) ==
    \/ u.yubikey = None /\ u.otpSecret = None /\ code = <<>>
    \/ u.yubikey # None /\ on /\ KeyCode(u, code)
    \/ u.otpSecret # None /\ code = u.otpSecret /\ Len(code) = TotpLen

\* The password followed by the second factor.
MainCredential(u, on, sent) ==
    /\ u.custom = None
    /\ \E n \in 0 .. Len(sent) :
         /\ HashesAccept(u, SubSeq(sent, 1, n))
         /\ SecondFactor(u, on, SubSeq(sent, n + 1, Len(sent)))

\* Anything at all followed by the second factor: lines 171-195 take it from a
\* user without a stored hash, one with application passwords included.
AnyPassword(u, on, sent) ==
    /\ Passwordless(u)
    /\ \E n \in 0 .. Len(sent) : SecondFactor(u, on, SubSeq(sent, n + 1, Len(sent)))

Credential(u, on, sent) ==
    \/ sent \in u.apps
    \/ u.custom # None /\ sent \in u.custom
    \/ MainCredential(u, on, sent)

\* Bind tells a code from a password by length alone: a code needs a password
\* before it, and a user with a key who sends more than the length of a key
\* code has to mean a password and a key code.
Recognisable(u, on, sent) ==
    /\ u.yubikey # None /\ on => ~KeyCode(u, sent)
    /\ CutsYubikey(u, on, sent) =>
         /\ u.custom = None
         /\ KeyCode(u, Final(YubikeyOtpLen, sent))
         /\ HashesAccept(u, AllBut(YubikeyOtpLen, sent))
    /\ u.otpSecret # None /\ ~YubikeySettles(u, on, sent) =>
         Len(sent) > TotpLen \/ sent \in u.apps

=============================================================================
