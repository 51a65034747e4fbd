-------------------------- MODULE Directory_proofs --------------------------
(***************************************************************************)
(* Theorems about what a bind accepts and what a search shows, for any     *)
(* users, secrets, lengths of codes, passwords, DNs and configurations.    *)
(***************************************************************************)
EXTENDS Directory, SequenceTheorems, WellFoundedInduction, TLAPS

-----------------------------------------------------------------------------
(* Cutting a sequence in two.                                              *)

LEMMA Cut ==
  ASSUME NEW S, NEW s \in Seq(S), NEW n \in 0 .. Len(s)
  PROVE  /\ AllBut(n, s) \in Seq(S) /\ Len(AllBut(n, s)) = Len(s) - n
         /\ Final(n, s) \in Seq(S) /\ Len(Final(n, s)) = n
         /\ Len(s) - n \in 0 .. Len(s)
         /\ AllBut(n, s) = SubSeq(s, 1, Len(s) - n)
         /\ Final(n, s) = SubSeq(s, (Len(s) - n) + 1, Len(s))
  BY DEF AllBut, Final

LEMMA CutNothing ==
  ASSUME NEW S, NEW s \in Seq(S)
  PROVE  SubSeq(s, 1, Len(s)) = s /\ SubSeq(s, Len(s) + 1, Len(s)) = <<>>
  OBVIOUS

LEMMA CutEverywhere ==
  ASSUME NEW S, NEW s \in Seq(S), NEW n \in 0 .. Len(s)
  PROVE  Len(SubSeq(s, n + 1, Len(s))) = Len(s) - n
  OBVIOUS

-----------------------------------------------------------------------------
(* The decision against the reference.                                     *)

\* What is left after a Yubikey code was cut off, or was not.
LEMMA UntouchedCases ==
  ASSUME NEW u, NEW on, NEW S, NEW sent \in Seq(S)
  PROVE  \/ ~CutsYubikey(u, on, sent) /\ Untouched(u, on, sent) = sent
         \/ /\ CutsYubikey(u, on, sent)
            /\ Untouched(u, on, sent) = AllBut(YubikeyOtpLen, sent)
            /\ YubikeyOtpLen \in 0 .. Len(sent)
  BY LengthAssumption DEF Untouched, CutsYubikey

\* What stands for the user: a credential, or any password if there is none.
Stands(u, on, pw) == Credential(u, on, pw) \/ AnyPassword(u, on, pw)

\* A password and the code of a second factor after it.
LEMMA PasswordThenCode ==
  ASSUME NEW u, NEW on, NEW s, NEW n \in 0 .. Len(s), u.custom = None,
         HashesAccept(u, SubSeq(s, 1, n)) \/ Passwordless(u),
         SecondFactor(u, on, SubSeq(s, n + 1, Len(s)))
  PROVE  Stands(u, on, s)
<1>1. CASE HashesAccept(u, SubSeq(s, 1, n))
  <2>1. MainCredential(u, on, s)
    BY <1>1 DEF MainCredential
  <2>. QED  BY <2>1 DEF Stands, Credential
<1>2. CASE Passwordless(u)
  <2>1. AnyPassword(u, on, s)
    BY <1>2 DEF AnyPassword
  <2>. QED  BY <2>1 DEF Stands
<1>. QED  BY <1>1, <1>2

LEMMA PasswordThenTotp ==
  ASSUME NEW u, NEW on, NEW S, NEW s \in Seq(S), u.custom = None,
         u.otpSecret # None, Len(s) > TotpLen, Final(TotpLen, s) = u.otpSecret,
         HashesAccept(u, AllBut(TotpLen, s)) \/ Passwordless(u)
  PROVE  Stands(u, on, s)
<1>1. TotpLen \in 0 .. Len(s)
  BY LengthAssumption
<1>2. /\ AllBut(TotpLen, s) = SubSeq(s, 1, Len(s) - TotpLen)
      /\ Final(TotpLen, s) = SubSeq(s, (Len(s) - TotpLen) + 1, Len(s))
      /\ Len(Final(TotpLen, s)) = TotpLen
      /\ Len(s) - TotpLen \in 0 .. Len(s)
  BY <1>1, Cut
<1>3. SecondFactor(u, on, SubSeq(s, (Len(s) - TotpLen) + 1, Len(s)))
  BY <1>2 DEF SecondFactor
<1>. QED  BY <1>2, <1>3, PasswordThenCode

LEMMA PasswordThenKey ==
  ASSUME NEW u, NEW on, NEW S, NEW s \in Seq(S), u.custom = None,
         CutsYubikey(u, on, s), KeyCode(u, Final(YubikeyOtpLen, s)),
         HashesAccept(u, AllBut(YubikeyOtpLen, s)) \/ Passwordless(u)
  PROVE  Stands(u, on, s)
<1>1. YubikeyOtpLen \in 0 .. Len(s) /\ u.yubikey # None /\ on
  BY LengthAssumption DEF CutsYubikey
<1>2. /\ AllBut(YubikeyOtpLen, s) = SubSeq(s, 1, Len(s) - YubikeyOtpLen)
      /\ Final(YubikeyOtpLen, s) = SubSeq(s, (Len(s) - YubikeyOtpLen) + 1, Len(s))
      /\ Len(s) - YubikeyOtpLen \in 0 .. Len(s)
  BY <1>1, Cut
<1>3. SecondFactor(u, on, SubSeq(s, (Len(s) - YubikeyOtpLen) + 1, Len(s)))
  BY <1>1, <1>2 DEF SecondFactor
<1>. QED  BY <1>2, <1>3, PasswordThenCode

LEMMA PasswordAlone ==
  ASSUME NEW u, NEW on, NEW S, NEW s \in Seq(S), u.custom = None,
         u.yubikey = None, u.otpSecret = None, HashesAccept(u, s) \/ Passwordless(u)
  PROVE  Stands(u, on, s)
<1>1. /\ SubSeq(s, 1, Len(s)) = s /\ SubSeq(s, Len(s) + 1, Len(s)) = <<>>
      /\ Len(s) \in 0 .. Len(s)
  BY CutNothing
<1>2. SecondFactor(u, on, SubSeq(s, Len(s) + 1, Len(s)))
  BY <1>1 DEF SecondFactor
<1>. QED  BY <1>1, <1>2, PasswordThenCode

\* The stored hashes take a password that is the right one, and any if there
\* is no stored hash.
LEMMA WhatMatches ==
  ASSUME NEW u, NEW pw
  PROVE  /\ HashesAccept(u, pw) => Matches(u.bcrypt, pw) /\ Matches(u.sha256, pw)
         /\ Matches(u.bcrypt, pw) /\ Matches(u.sha256, pw) /\ u.custom = None
              => HashesAccept(u, pw) \/ Passwordless(u)
  BY DEF HashesAccept, Passwordless, Matches

\* Whatever Bind accepts stands for the user, or does with a key code after it.
LEMMA Sound ==
  ASSUME NEW u, NEW on, NEW S, NEW sent \in Seq(S), Accepted(u, on, sent)
  PROVE  \/ Stands(u, on, sent)
         \/ CutsYubikey(u, on, sent) /\ Stands(u, on, AllBut(YubikeyOtpLen, sent))
<1>0. \/ ~CutsYubikey(u, on, sent) /\ Untouched(u, on, sent) = sent
      \/ /\ CutsYubikey(u, on, sent)
         /\ Untouched(u, on, sent) = AllBut(YubikeyOtpLen, sent)
         /\ YubikeyOtpLen \in 0 .. Len(sent)
  BY UntouchedCases
<1>1. CASE AppPassword(u, on, sent)
  BY <1>0, <1>1 DEF AppPassword, Stands, Credential
<1>2. CASE u.custom # None /\ Untouched(u, on, sent) \in u.custom
  BY <1>0, <1>2 DEF Stands, Credential
<1>3. CASE /\ ReachesHashes(u, on, sent)
           /\ Matches(u.bcrypt, Password(u, on, sent))
           /\ Matches(u.sha256, Password(u, on, sent))
  <2>1. /\ u.custom = None /\ OtpValid(u, on, sent)
        /\ HashesAccept(u, Password(u, on, sent)) \/ Passwordless(u)
    BY <1>3, WhatMatches DEF ReachesHashes
  <2>2. CASE u.yubikey = None /\ u.otpSecret = None
    <3>1. Password(u, on, sent) = sent
      BY <1>0, <2>2 DEF Password, CutsTotp, CutsYubikey
    <3>. QED  BY <2>1, <2>2, <3>1, PasswordAlone
  <2>3. CASE CutsYubikey(u, on, sent) /\ KeyCode(u, Final(YubikeyOtpLen, sent))
    <3>1. Password(u, on, sent) = AllBut(YubikeyOtpLen, sent)
      BY <1>0, <2>3 DEF Password, CutsTotp, YubikeySettles
    <3>. QED  BY <2>1, <2>3, <3>1, PasswordThenKey
  <2>4. CASE /\ CutsTotp(u, on, sent)
             /\ Final(TotpLen, Untouched(u, on, sent)) = u.otpSecret
    <3>. DEFINE s == Untouched(u, on, sent)
    <3>1. s \in Seq(S)
      BY <1>0, Cut
    <3>2. /\ u.otpSecret # None /\ Len(s) > TotpLen
          /\ HashesAccept(u, AllBut(TotpLen, s)) \/ Passwordless(u)
      BY <2>1, <2>4 DEF CutsTotp, Password
    <3>3. Stands(u, on, s)
      BY <2>1, <2>4, <3>1, <3>2, PasswordThenTotp
    <3>. QED  BY <1>0, <3>3
  <2>. QED  BY <2>1, <2>2, <2>3, <2>4 DEF OtpValid, YubikeySettles
<1>. QED  BY <1>1, <1>2, <1>3 DEF Accepted

\* Every credential whose codes can be told from a password is accepted.
LEMMA Complete ==
  ASSUME NEW u, NEW on, NEW S, NEW sent \in Seq(S),
         Credential(u, on, sent), Recognisable(u, on, sent), u.bcrypt # BadHex
  PROVE  Accepted(u, on, sent)
<1>0. TotpLen \in Nat /\ YubikeyOtpLen \in Nat /\ Len(sent) \in Nat
  BY LengthAssumption
<1>1. CASE CutsYubikey(u, on, sent)
  <2>1. /\ u.custom = None
        /\ KeyCode(u, Final(YubikeyOtpLen, sent))
        /\ HashesAccept(u, AllBut(YubikeyOtpLen, sent))
    BY <1>1 DEF Recognisable
  <2>2. YubikeySettles(u, on, sent)
    BY <1>1, <2>1 DEF YubikeySettles
  <2>3. Password(u, on, sent) = AllBut(YubikeyOtpLen, sent)
    BY <1>1, <2>2 DEF Password, CutsTotp, Untouched
  <2>4. OtpValid(u, on, sent)
    BY <2>2 DEF OtpValid
  <2>. QED  BY <2>1, <2>3, <2>4, WhatMatches DEF Accepted, ReachesHashes
<1>2. CASE ~CutsYubikey(u, on, sent)
  <2>1. Untouched(u, on, sent) = sent
    BY <1>2 DEF Untouched
  <2>2. CASE sent \in u.apps
    BY <2>1, <2>2 DEF Accepted, AppPassword
  <2>3. CASE u.custom # None /\ sent \in u.custom
    BY <2>1, <2>3 DEF Accepted
  <2>4. CASE MainCredential(u, on, sent) /\ ~(sent \in u.apps)
    <3>. DEFINE pw(n) == SubSeq(sent, 1, n)
                code(n) == SubSeq(sent, n + 1, Len(sent))
    <3>1. PICK n \in 0 .. Len(sent) :
            /\ HashesAccept(u, pw(n))
            /\ \/ u.yubikey = None /\ u.otpSecret = None /\ code(n) = <<>>
               \/ u.yubikey # None /\ on /\ KeyCode(u, code(n))
               \/ u.otpSecret # None /\ code(n) = u.otpSecret /\ Len(code(n)) = TotpLen
      BY <2>4 DEF MainCredential, SecondFactor
    <3>2. n \in Nat /\ Len(code(n)) = Len(sent) - n
      BY CutEverywhere
    <3>3. u.custom = None
      BY <2>4 DEF MainCredential
    <3>. HIDE DEF code, pw
    <3>4. CASE u.yubikey = None /\ u.otpSecret = None /\ code(n) = <<>>
      <4>1. n = Len(sent)
        BY <1>0, <3>2, <3>4
      <4>2. pw(n) = sent
        BY <4>1, CutNothing DEF pw
      <4>3. YubikeySettles(u, on, sent) /\ Password(u, on, sent) = sent
        BY <2>1, <3>4 DEF YubikeySettles, Password, CutsTotp
      <4>4. OtpValid(u, on, sent)
        BY <4>3 DEF OtpValid
      <4>. QED  BY <3>1, <3>3, <4>2, <4>3, <4>4, WhatMatches DEF Accepted, ReachesHashes
    <3>5. CASE u.yubikey # None /\ on /\ KeyCode(u, code(n))
      <4>1. Len(code(n)) = YubikeyOtpLen
        BY <3>5 DEF KeyCode
      <4>2. ~(Len(sent) > YubikeyOtpLen)
        BY <1>2, <3>5 DEF CutsYubikey
      <4>3. n = 0
        BY <1>0, <3>2, <4>1, <4>2
      <4>4. code(n) = sent
        BY <4>3, CutNothing DEF code
      <4>. QED  BY <3>5, <4>4 DEF Recognisable
    <3>6. CASE u.otpSecret # None /\ code(n) = u.otpSecret /\ Len(code(n)) = TotpLen
      <4>1. ~YubikeySettles(u, on, sent)
        BY <1>2, <3>6 DEF YubikeySettles
      <4>2. Len(sent) > TotpLen
        BY <2>4, <3>6, <4>1 DEF Recognisable
      <4>3. CutsTotp(u, on, sent)
        BY <2>1, <3>6, <4>1, <4>2 DEF CutsTotp
      <4>4. n = Len(sent) - TotpLen
        BY <1>0, <3>2, <3>6
      <4>5. Password(u, on, sent) = pw(n) /\ Final(TotpLen, sent) = code(n)
        BY <1>0, <2>1, <4>3, <4>4 DEF Password, AllBut, Final, pw, code
      <4>6. OtpValid(u, on, sent)
        BY <2>1, <3>6, <4>3, <4>5 DEF OtpValid
      <4>. QED  BY <3>1, <3>3, <4>5, <4>6, WhatMatches DEF Accepted, ReachesHashes
    <3>. QED  BY <3>1, <3>4, <3>5, <3>6
  <2>. QED  BY <2>2, <2>3, <2>4 DEF Credential
<1>. QED  BY <1>1, <1>2

-----------------------------------------------------------------------------
(* The connection.                                                         *)

BindInv == cfg \in Configs /\ OnlyCredentialsBind /\ CredentialsBind

LEMMA BindInit == Init => BindInv
  BY DEF Init, BindInv, NoAnswer, OnlyCredentialsBind, CredentialsBind

LEMMA BindStep == BindInv /\ [Next]_vars => BindInv'
<1>. SUFFICES ASSUME BindInv, [Next]_vars PROVE BindInv'
  OBVIOUS
<1>1. ASSUME NEW b \in Binds[cfg], Bind(b.who, b.pw) PROVE BindInv'
  <2>. DEFINE i == UserOf(b.who, TRUE)
              u == Secret(i)
              on == cfg.yubikeyAuth
  <2>1. /\ cfg' = cfg /\ answer'.op = "bind" /\ answer'.who = b.who
        /\ answer'.user = i /\ answer'.pw = b.pw
    BY <1>1 DEF Bind
  <2>2. answer'.success = BindSuccess(b.who, i, b.pw)
    BY <1>1 DEF Bind
  <2>3. b.pw \in Seq(ToSet(b.pw))
    BY RequestAssumption DEF BindInv
  <2>. HIDE DEF i
  <2>4. Secret(answer.user)' = u
    BY <2>1 DEF Secret
  <2>5. OnlyCredentialsBind'
    <3>. SUFFICES ASSUME answer'.success, b.who # Anonymous
                  PROVE  \/ Stands(u, on, b.pw)
                         \/ /\ CutsYubikey(u, on, b.pw)
                            /\ Stands(u, on, AllBut(YubikeyOtpLen, b.pw))
      BY <2>1, <2>4 DEF OnlyCredentialsBind, Stands
    <3>1. Accepted(u, on, b.pw)
      BY <2>2 DEF BindSuccess
    <3>. QED  BY <2>3, <3>1, Sound
  <2>6. CredentialsBind'
    <3>. SUFFICES ASSUME i # 0, Credential(u, on, b.pw), Recognisable(u, on, b.pw),
                         u.bcrypt # BadHex
                  PROVE  answer'.success
      BY <2>1, <2>4 DEF CredentialsBind
    <3>1. Accepted(u, on, b.pw)
      BY <2>3, Complete
    <3>. QED  BY <2>2, <3>1 DEF BindSuccess
  <2>. QED  BY <2>1, <2>5, <2>6 DEF BindInv
<1>2. ASSUME NEW req, NEW fails, NEW lost, Search(req, fails, lost) PROVE BindInv'
  <2>1. cfg' = cfg /\ answer'.op = "search"
    BY <1>2 DEF Search
  <2>. QED  BY <2>1 DEF BindInv, OnlyCredentialsBind, CredentialsBind
<1>3. CASE Deliver
  <2>1. cfg' = cfg /\ answer'.op = "none"
    BY <1>3 DEF Deliver, NoAnswer
  <2>. QED  BY <2>1 DEF BindInv, OnlyCredentialsBind, CredentialsBind
<1>4. CASE Reload
  <2>1. cfg' \in Configs /\ answer'.op = "none"
    BY <1>4 DEF Reload, NoAnswer
  <2>. QED  BY <2>1 DEF BindInv, OnlyCredentialsBind, CredentialsBind
<1>5. CASE UNCHANGED vars
  <2>1. cfg' = cfg /\ answer' = answer
    BY <1>5 DEF vars
  <2>. QED  BY <2>1 DEF BindInv, OnlyCredentialsBind, CredentialsBind, Secret
<1>. QED  BY <1>1, <1>2, <1>3, <1>4, <1>5 DEF Next

\* A bind succeeds only with what the user was given, whatever the lengths of
\* codes and passwords; only for a user without a stored hash any password does.
THEOREM OnlyCredentials == Spec => []OnlyCredentialsBind
<1>1. BindInv => OnlyCredentialsBind
  BY DEF BindInv
<1>. QED  BY <1>1, BindInit, BindStep, PTL DEF Spec

\* And what the user was given succeeds, as far as codes can be told from
\* passwords by their length.
THEOREM EveryCredential == Spec => []CredentialsBind
<1>1. BindInv => CredentialsBind
  BY DEF BindInv
<1>. QED  BY <1>1, BindInit, BindStep, PTL DEF Spec

-----------------------------------------------------------------------------
(* Names and DNs.                                                          *)

LEMMA LeastOf ==
  ASSUME NEW T \in SUBSET Nat, T # {}
  PROVE  \E x \in T : \A y \in T : x <= y
<1>1. IsWellFoundedOn(OpToRel(<, Nat), Nat)
  BY NatLessThanWellFounded
<1>2. PICK x \in T : \A y \in T : ~(<<y, x>> \in OpToRel(<, Nat))
  BY <1>1, WFMin
<1>3. \A y \in T : ~(y < x)
  BY <1>2 DEF OpToRel
<1>. QED  BY <1>3

LEMMA GreatestOf ==
  ASSUME NEW n \in Nat, NEW T \in SUBSET (1 .. n), T # {}
  PROVE  \E x \in T : \A y \in T : x >= y
<1>. DEFINE Rest == {n - y : y \in T}
<1>0. \A y \in T : y \in Nat /\ n - y \in Nat
  OBVIOUS
<1>1. Rest \in SUBSET Nat /\ Rest # {}
  BY <1>0
<1>2. PICK z \in Rest : \A y \in Rest : z <= y
  BY <1>1, LeastOf
<1>3. PICK x \in T : z = n - x
  BY <1>2
<1>4. ASSUME NEW y \in T PROVE x >= y
  <2>1. n - x <= n - y
    BY <1>2, <1>3
  <2>. QED  BY <1>0, <2>1
<1>. QED  BY <1>4

\* Match takes one of the places, if there is one.
LEMMA MatchTakes ==
  ASSUME NEW n \in Nat, NEW T \in SUBSET (1 .. n)
  PROVE  IF T = {} THEN Match(T) = 0 ELSE Match(T) \in T
<1>1. CASE T = {}
  BY <1>1 DEF Match
<1>2. CASE T # {}
  <2>1. Min(T) \in T
    <3>1. \E x \in T : \A y \in T : x <= y
      BY <1>2, LeastOf
    <3>. QED  BY <3>1 DEF Min
  <2>2. Max(T) \in T
    <3>1. \E x \in T : \A y \in T : x >= y
      BY <1>2, GreatestOf
    <3>. QED  BY <3>1 DEF Max
  <2>. QED  BY <1>2, <2>1, <2>2 DEF Match
<1>. QED  BY <1>1, <1>2

LEMMA LowerOf ==
  ASSUME NEW v \in Names
  PROVE  /\ LowerValue(v) \in Names
         /\ LowerValue(v) # None
         /\ LowerValue(LowerValue(v)) = LowerValue(v)
  BY NameAssumption DEF LowerValue

LEMMA LowerOfKept ==
  /\ LowerValue("") = "" /\ LowerValue("groups") = "groups"
  /\ LowerValue("users") = "users" /\ LowerValue(None) = None
  BY NameAssumption DEF LowerValue

LEMMA RdnOf ==
  ASSUME NEW r \in [a : Attributes, v : Names]
  PROVE  /\ [r EXCEPT !.v = LowerValue(@)] = Rdn(r.a, LowerValue(r.v))
         /\ Rdn(r.a, LowerValue(r.v)) \in [a : Attributes, v : Names]
  BY LowerOf DEF Rdn

LEMMA LowerAt ==
  ASSUME NEW dn \in DN
  PROVE  /\ LowerDN(dn) \in DN /\ Len(LowerDN(dn)) = Len(dn)
         /\ \A i \in 1 .. Len(dn) : /\ LowerDN(dn)[i] = Rdn(dn[i].a, LowerValue(dn[i].v))
                                   /\ dn[i].a \in Attributes /\ dn[i].v \in Names
<1>0. dn \in Seq([a : Attributes, v : Names]) /\ Len(dn) \in Nat
  BY DEF DN
<1>1. ASSUME NEW i \in 1 .. Len(dn)
      PROVE  /\ dn[i] \in [a : Attributes, v : Names]
             /\ LowerDN(dn)[i] = Rdn(dn[i].a, LowerValue(dn[i].v))
  <2>1. dn[i] \in [a : Attributes, v : Names]
    BY <1>0, ElementOfSeq
  <2>2. LowerDN(dn)[i] = [dn[i] EXCEPT !.v = LowerValue(@)]
    BY <1>0 DEF LowerDN
  <2>. QED  BY <2>1, <2>2, RdnOf
<1>2. LowerDN(dn) \in Seq([a : Attributes, v : Names]) /\ Len(LowerDN(dn)) = Len(dn)
  <2>1. LowerDN(dn) = [i \in 1 .. Len(dn) |-> [dn[i] EXCEPT !.v = LowerValue(@)]]
    BY <1>0 DEF LowerDN
  <2>2. \A i \in 1 .. Len(dn) :
          [dn[i] EXCEPT !.v = LowerValue(@)] \in [a : Attributes, v : Names]
    BY <1>1, RdnOf
  <2>. QED  BY <1>0, <2>1, <2>2
<1>. QED  BY <1>1, <1>2 DEF DN

LEMMA SameDN ==
  ASSUME NEW x \in DN, NEW y \in DN, Len(x) = Len(y),
         \A i \in 1 .. Len(x) : x[i] = y[i]
  PROVE  x = y
  BY SeqEqual DEF DN

LEMMA LowerTwice ==
  ASSUME NEW dn \in DN
  PROVE  LowerDN(LowerDN(dn)) = LowerDN(dn)
<1>. DEFINE low == LowerDN(dn)
<1>1. /\ low \in DN /\ Len(low) = Len(dn)
      /\ \A i \in 1 .. Len(dn) : /\ low[i] = Rdn(dn[i].a, LowerValue(dn[i].v))
                                /\ dn[i].v \in Names
  BY LowerAt
<1>. HIDE DEF low
<1>2. /\ LowerDN(low) \in DN /\ Len(LowerDN(low)) = Len(dn)
      /\ \A i \in 1 .. Len(dn) : LowerDN(low)[i] = Rdn(low[i].a, LowerValue(low[i].v))
  BY <1>1, LowerAt
<1>3. ASSUME NEW i \in 1 .. Len(dn) PROVE LowerDN(low)[i] = low[i]
  <2>1. low[i].a = dn[i].a /\ low[i].v = LowerValue(dn[i].v)
    <3>1. low[i] = Rdn(dn[i].a, LowerValue(dn[i].v))
      BY <1>1
    <3>. QED  BY <3>1 DEF Rdn
  <2>2. LowerValue(low[i].v) = low[i].v
    BY <1>1, <2>1, LowerOf
  <2>. QED  BY <1>1, <1>2, <2>1, <2>2
<1>4. LowerDN(low) = low
  BY <1>1, <1>2, <1>3, SameDN
<1>. QED  BY <1>4 DEF low

LEMMA ConcatOf ==
  ASSUME NEW S, NEW x \in Seq(S), NEW y \in Seq(S)
  PROVE  x \o y \in Seq(S) /\ Len(x \o y) = Len(x) + Len(y)
  OBVIOUS

LEMMA LowerConcat ==
  ASSUME NEW x \in DN, NEW y \in DN
  PROVE  x \o y \in DN /\ LowerDN(x \o y) = LowerDN(x) \o LowerDN(y)
<1>0. /\ x \in Seq([a : Attributes, v : Names]) /\ y \in Seq([a : Attributes, v : Names])
      /\ Len(x) \in Nat /\ Len(y) \in Nat
  BY DEF DN
<1>1. x \o y \in DN /\ Len(x \o y) = Len(x) + Len(y)
  BY <1>0 DEF DN
<1>2. /\ LowerDN(x) \in DN /\ Len(LowerDN(x)) = Len(x)
      /\ LowerDN(y) \in DN /\ Len(LowerDN(y)) = Len(y)
      /\ LowerDN(x \o y) \in DN /\ Len(LowerDN(x \o y)) = Len(x) + Len(y)
  BY <1>1, LowerAt
<1>3. /\ LowerDN(x) \in Seq([a : Attributes, v : Names])
      /\ LowerDN(y) \in Seq([a : Attributes, v : Names])
      /\ LowerDN(x \o y) \in Seq([a : Attributes, v : Names])
  BY <1>2 DEF DN
<1>4. ASSUME NEW i \in 1 .. Len(x) + Len(y)
      PROVE  LowerDN(x \o y)[i] = (LowerDN(x) \o LowerDN(y))[i]
  <2>1. LowerDN(x \o y)[i] = Rdn((x \o y)[i].a, LowerValue((x \o y)[i].v))
    BY <1>1, LowerAt
  <2>2. CASE i \in 1 .. Len(x)
    <3>1. (x \o y)[i] = x[i] /\ (LowerDN(x) \o LowerDN(y))[i] = LowerDN(x)[i]
      BY <1>0, <1>2, <1>3, <2>2
    <3>. QED  BY <2>1, <2>2, <3>1, LowerAt
  <2>3. CASE i \notin 1 .. Len(x)
    <3>1. i - Len(x) \in 1 .. Len(y)
      BY <1>0, <2>3
    <3>2. (x \o y)[i] = y[i - Len(x)]
      BY <1>0, <2>3
    <3>3. (LowerDN(x) \o LowerDN(y))[i] = LowerDN(y)[i - Len(x)]
      BY <1>0, <1>2, <1>3, <2>3
    <3>. QED  BY <2>1, <3>1, <3>2, <3>3, LowerAt
  <2>. QED  BY <2>2, <2>3
<1>5. /\ LowerDN(x) \o LowerDN(y) \in Seq([a : Attributes, v : Names])
      /\ Len(LowerDN(x) \o LowerDN(y)) = Len(x) + Len(y)
  BY <1>2, <1>3, ConcatOf
<1>. QED  BY <1>1, <1>2, <1>4, <1>5, SameDN DEF DN

\* A suffix, component by component.
LEMMA SuffixAt ==
  ASSUME NEW S, NEW s \in Seq(S), NEW t \in Seq(S)
  PROVE  IsSuffix(s, t) <=>
           /\ Len(s) <= Len(t)
           /\ \A i \in 1 .. Len(s) : s[i] = t[(Len(t) - Len(s)) + i]
<1>. DEFINE m == Len(s)
            n == Len(t)
            rs == Reverse(s)
            rt == Reverse(t)
<1>0. m \in Nat /\ n \in Nat
  OBVIOUS
<1>1. /\ rs \in Seq(S) /\ Len(rs) = m /\ \A i \in 1 .. m : rs[i] = s[(m - i) + 1]
      /\ rt \in Seq(S) /\ Len(rt) = n /\ \A i \in 1 .. n : rt[i] = t[(n - i) + 1]
  <2>1. /\ \A i \in 1 .. m : s[(m - i) + 1] \in S
        /\ \A i \in 1 .. n : t[(n - i) + 1] \in S
    BY <1>0, ElementOfSeq
  <2>. QED  BY <1>0, <2>1 DEF Reverse
<1>. HIDE DEF rs, rt
<1>2. SubSeq(rs, 1, m) = rs
  BY <1>1, SubSeqFull
<1>3. IsSuffix(s, t) <=> m <= n /\ rs = SubSeq(rt, 1, m)
  BY <1>1, <1>2 DEF IsSuffix, IsPrefix, rs, rt
<1>4. ASSUME m <= n
      PROVE  rs = SubSeq(rt, 1, m) <=> \A i \in 1 .. m : rs[i] = rt[i]
  <2>1. /\ SubSeq(rt, 1, m) \in Seq(S) /\ Len(SubSeq(rt, 1, m)) = m
        /\ \A i \in 1 .. m : SubSeq(rt, 1, m)[i] = rt[i]
    BY <1>0, <1>1, <1>4
  <2>2. ASSUME \A i \in 1 .. m : rs[i] = rt[i] PROVE rs = SubSeq(rt, 1, m)
    BY <1>1, <2>1, <2>2, SeqEqual
  <2>. HIDE DEF m
  <2>. QED  BY <2>1, <2>2
<1>5. ASSUME m <= n
      PROVE  (\A i \in 1 .. m : rs[i] = rt[i]) <=> \A i \in 1 .. m : s[i] = t[(n - m) + i]
  <2>. HIDE DEF m, n
  <2>1. ASSUME \A i \in 1 .. m : rs[i] = rt[i], NEW i \in 1 .. m PROVE s[i] = t[(n - m) + i]
    <3>1. (m - i) + 1 \in 1 .. m /\ (m - i) + 1 \in 1 .. n
      BY <1>0, <1>5
    <3>2. s[(m - ((m - i) + 1)) + 1] = t[(n - ((m - i) + 1)) + 1]
      BY <1>1, <2>1, <3>1
    <3>3. (m - ((m - i) + 1)) + 1 = i /\ (n - ((m - i) + 1)) + 1 = (n - m) + i
      BY <1>0
    <3>. QED  BY <3>2, <3>3
  <2>2. ASSUME \A i \in 1 .. m : s[i] = t[(n - m) + i], NEW i \in 1 .. m PROVE rs[i] = rt[i]
    <3>1. (m - i) + 1 \in 1 .. m /\ i \in 1 .. n
      BY <1>0, <1>5
    <3>2. s[(m - i) + 1] = t[(n - m) + ((m - i) + 1)]
      BY <2>2, <3>1
    <3>3. (n - m) + ((m - i) + 1) = (n - i) + 1
      BY <1>0
    <3>. QED  BY <1>1, <3>1, <3>2, <3>3
  <2>. QED  BY <2>1, <2>2
<1>. QED  BY <1>3, <1>4, <1>5

LEMMA SuffixOfConcat ==
  ASSUME NEW S, NEW x \in Seq(S), NEW y \in Seq(S)
  PROVE  IsSuffix(y, x \o y) /\ (Len(x) # 0 => IsStrictSuffix(y, x \o y))
<1>0. Len(x) \in Nat /\ Len(y) \in Nat
  OBVIOUS
<1>1. x \o y \in Seq(S) /\ Len(x \o y) = Len(x) + Len(y)
  BY ConcatOf
<1>2. ASSUME NEW i \in 1 .. Len(y) PROVE y[i] = (x \o y)[(Len(x \o y) - Len(y)) + i]
  <2>1. (Len(x \o y) - Len(y)) + i = Len(x) + i
    BY <1>0, <1>1
  <2>2. (x \o y)[Len(x) + i] = y[i]
    BY <1>0
  <2>. QED  BY <2>1, <2>2
<1>3. IsSuffix(y, x \o y)
  <2>1. Len(y) <= Len(x \o y)
    BY <1>0, <1>1
  <2>. QED  BY <1>1, <1>2, <2>1, SuffixAt
<1>4. Len(x) # 0 => y # x \o y
  BY <1>0, <1>1
<1>. QED  BY <1>3, <1>4 DEF IsStrictSuffix

-----------------------------------------------------------------------------
(* What a search is answered with, in the configuration of that moment.    *)

Identity == [dn : DN, mail : Names \cup {None}]

LEMMA SameConfig ==
  ASSUME cfg' = cfg
  PROVE  /\ \A who, req : Refusal(who, req)' = Refusal(who, req)
         /\ \A req, fails : Entries(req, fails)' = Entries(req, fails)
<1>1. Base' = Base
  BY DEF Base
<1>2. \A dn : Above(dn)' = Above(dn)
  BY <1>1 DEF Above
<1>3. \A places : Match(places)' = Match(places)
  BY DEF Match
<1>4. \A i : Enabled(i)' = Enabled(i)
  BY DEF Enabled
<1>5. /\ \A name : FindUser(name)' = FindUser(name)
      /\ \A mail : FindUserByMail(mail)' = FindUserByMail(mail)
      /\ \A name : FindGroup(name)' = FindGroup(name)
  BY <1>3, <1>4 DEF FindUser, FindUserByMail, FindGroup
<1>6. /\ \A parts : WellFormed(parts)' = WellFormed(parts)
      /\ \A parts : GroupPart(parts)' = GroupPart(parts)
  BY DEF WellFormed, GroupPart
<1>7. \A i, name : InGroup(i, name)' = InGroup(i, name)
  BY <1>5 DEF InGroup
<1>8. \A who, check : UserOf(who, check)' = UserOf(who, check)
  BY <1>1, <1>2, <1>5, <1>6, <1>7 DEF UserOf
<1>9. \A i, base : Capable(i, base)' = Capable(i, base)
  BY DEF Capable
<1>10. \A who, req : Refusal(who, req)' = Refusal(who, req)
  BY <1>8, <1>9 DEF Refusal
<1>11. \A gid : GroupName(gid)' = GroupName(gid)
  BY DEF GroupName
<1>12. /\ \A h : FindPosixAccounts(h)' = FindPosixAccounts(h)
       /\ \A h : FindPosixGroups(h)' = FindPosixGroups(h)
  BY <1>11 DEF FindPosixAccounts, FindPosixGroups
<1>13. /\ \A base, scope, fails :
            TopLevelNodes(base, scope, fails)' = TopLevelNodes(base, scope, fails)
       /\ \A base, scope, fails :
            TopLevelGroupsNode(base, scope, fails)' = TopLevelGroupsNode(base, scope, fails)
       /\ \A base, scope, fails :
            TopLevelUsersNode(base, scope, fails)' = TopLevelUsersNode(base, scope, fails)
  BY <1>12 DEF TopLevelNodes, TopLevelGroupsNode, TopLevelUsersNode
<1>14. /\ \A base, scope, h, fails :
            PosixGroups(base, scope, h, fails)' = PosixGroups(base, scope, h, fails)
       /\ \A base, fails : PosixAccounts(base, fails)' = PosixAccounts(base, fails)
  BY <1>1, <1>12 DEF PosixGroups, PosixAccounts
<1>15. \A base, filter : Hierarchy(base, filter)' = Hierarchy(base, filter)
  BY <1>2 DEF Hierarchy
<1>16. \A req, fails : TreeEntries(req, fails)' = TreeEntries(req, fails)
  <2>. TAKE req, fails
  <2>1. \A stage, scope, h : GivesUp(stage, scope, h, fails)' <=> GivesUp(stage, scope, h, fails)
    BY DEF GivesUp
  <2>. QED  BY <1>1, <1>13, <1>14, <1>15, <2>1 DEF TreeEntries
<1>17. \A req, fails : Entries(req, fails)' = Entries(req, fails)
  BY <1>16 DEF Entries
<1>. QED  BY <1>10, <1>17

Permitted(who, req) == Refusal(who, req) = ""

SearchInv ==
    /\ cfg \in Configs
    /\ boundDN \in Identity
    /\ Answered => /\ answer.req \in Requests[cfg]
                   /\ Permitted(boundDN, answer.req)
                   /\ answer.seen \subseteq Through(answer.req, Entries(answer.req, answer.fails))
                   /\ answer.whole =>
                        answer.seen = Through(answer.req, Entries(answer.req, answer.fails))

LEMMA SearchInit == Init => SearchInv
<1>. SUFFICES ASSUME Init PROVE SearchInv
  OBVIOUS
<1>1. boundDN \in Identity
  <2>1. <<>> \in DN
    BY EmptySeq DEF DN
  <2>. QED  BY <2>1 DEF Init, Anonymous, ByDN, Identity
<1>2. ~Answered
  BY DEF Init, NoAnswer, Answered
<1>. QED  BY <1>1, <1>2 DEF Init, SearchInv

LEMMA SearchStep == SearchInv /\ [Next]_vars => SearchInv'
<1>. SUFFICES ASSUME SearchInv, [Next]_vars PROVE SearchInv'
  OBVIOUS
<1>1. ASSUME NEW b \in Binds[cfg], Bind(b.who, b.pw) PROVE SearchInv'
  <2>1. cfg' = cfg /\ answer'.op = "bind" /\ boundDN' \in {b.who, boundDN}
    BY <1>1 DEF Bind
  <2>2. b.who \in Identity
    BY RequestAssumption DEF SearchInv, Identity
  <2>. QED  BY <2>1, <2>2 DEF SearchInv, Answered
<1>2. ASSUME NEW req \in Requests[cfg], NEW fails, NEW lost, Search(req, fails, lost)
      PROVE  SearchInv'
  <2>. DEFINE refusal == Refusal(boundDN, req)
              broken == LowerDN(req.base) = Schema /\ "schema" \in fails
              found == Through(req, Entries(req, fails) \ lost)
  <2>1. cfg' = cfg /\ boundDN' = boundDN
    BY <1>2 DEF Search
  <2>2. /\ answer'.req = req /\ answer'.fails = fails
        /\ answer'.whole = (lost = {})
        /\ answer'.code = IF refusal # "" THEN refusal
                          ELSE IF broken THEN "OperationsError" ELSE "Success"
        /\ answer'.seen = IF refusal # "" \/ broken THEN {} ELSE found
    BY <1>2 DEF Search
  <2>3. refusal # "Success"
    BY DEF Refusal
  <2>4. Refusal(boundDN, req)' = refusal /\ Entries(req, fails)' = Entries(req, fails)
    BY <2>1, SameConfig
  <2>. HIDE DEF refusal, broken, found
  <2>5. answer'.code = "Success" => refusal = "" /\ answer'.seen = found
    BY <2>2, <2>3
  <2>6. answer'.code = "Success" => Permitted(boundDN, answer.req)'
    BY <2>1, <2>2, <2>4, <2>5 DEF Permitted, refusal
  <2>7. /\ found \subseteq Through(req, Entries(req, fails))
        /\ lost = {} => found = Through(req, Entries(req, fails))
    BY DEF Through, found
  <2>8. Through(answer.req, Entries(answer.req, answer.fails))'
          = Through(req, Entries(req, fails))
    BY <2>2, <2>4 DEF Through, Passes
  <2>9. answer'.whole => lost = {}
    BY <2>2, Zenon
  <2>10. answer'.req = req
    BY <2>2
  <2>. QED  BY <2>1, <2>5, <2>6, <2>7, <2>8, <2>9, <2>10 DEF SearchInv, Answered
<1>3. CASE Deliver
  <2>1. cfg' = cfg /\ boundDN' = boundDN /\ answer'.op = "none"
    BY <1>3 DEF Deliver, NoAnswer
  <2>. QED  BY <2>1 DEF SearchInv, Answered
<1>4. CASE Reload
  <2>1. cfg' \in Configs /\ boundDN' = boundDN /\ answer'.op = "none"
    BY <1>4 DEF Reload, NoAnswer
  <2>. QED  BY <2>1 DEF SearchInv, Answered
<1>5. CASE UNCHANGED vars
  <2>1. cfg' = cfg /\ answer' = answer /\ boundDN' = boundDN
    BY <1>5 DEF vars
  <2>2. Permitted(boundDN, answer.req)' <=> Permitted(boundDN, answer.req)
    BY <2>1, SameConfig DEF Permitted
  <2>. QED  BY <2>1, <2>2, SameConfig DEF SearchInv, Answered, Through
<1>. QED  BY <1>1, <1>2, <1>3, <1>4, <1>5 DEF Next

-----------------------------------------------------------------------------
(* Whom a DN names.                                                        *)

LEMMA Configured ==
  ASSUME cfg \in Configs
  PROVE  /\ cfg.baseDN \in DN /\ Base \in DN /\ LowerDN(Base) = Base /\ cfg.sql \in BOOLEAN
         /\ Len(Base) = Len(cfg.baseDN) /\ Len(Base) \in Nat
         /\ cfg.nameFormat \in Attributes /\ cfg.groupFormat \in Attributes
         /\ Len(cfg.users) \in Nat /\ DOMAIN cfg.users = 1 .. Len(cfg.users)
         /\ Len(cfg.groups) \in Nat /\ DOMAIN cfg.groups = 1 .. Len(cfg.groups)
         /\ \A i \in DOMAIN cfg.users : cfg.users[i].name \in Names
                                        /\ cfg.users[i].mail \in Names
         /\ \A i \in DOMAIN cfg.groups : cfg.groups[i].name \in Names
<1>1. /\ cfg.sql \in BOOLEAN
      /\ cfg.baseDN \in DN
      /\ {cfg.nameFormat, cfg.groupFormat} \subseteq Attributes
      /\ cfg.users \in Seq(ToSet(cfg.users)) /\ cfg.groups \in Seq(ToSet(cfg.groups))
      /\ \A u \in ToSet(cfg.users) : {u.name, u.mail} \subseteq Names
      /\ \A g \in ToSet(cfg.groups) : g.name \in Names
  BY ConfigAssumption
<1>2. /\ Base \in DN /\ LowerDN(Base) = Base
      /\ Len(Base) = Len(cfg.baseDN)
  BY <1>1, LowerAt, LowerTwice DEF Base
<1>3. Len(Base) \in Nat
  BY <1>2 DEF DN
<1>4. /\ Len(cfg.users) \in Nat /\ DOMAIN cfg.users = 1 .. Len(cfg.users)
      /\ Len(cfg.groups) \in Nat /\ DOMAIN cfg.groups = 1 .. Len(cfg.groups)
  BY <1>1
<1>5. /\ \A i \in DOMAIN cfg.users : cfg.users[i].name \in Names
                                     /\ cfg.users[i].mail \in Names
      /\ \A i \in DOMAIN cfg.groups : cfg.groups[i].name \in Names
  BY <1>1 DEF ToSet
<1>. QED  BY <1>1, <1>2, <1>3, <1>4, <1>5

\* Who is found has the name or the address looked for, and is not disabled.
LEMMA Found ==
  ASSUME cfg \in Configs, NEW name \in Names \cup {None}
  PROVE  /\ FindUser(name) # 0 =>
              /\ FindUser(name) \in DOMAIN cfg.users
              /\ EqualFold(cfg.users[FindUser(name)].name, name)
              /\ ~(cfg.sql /\ cfg.users[FindUser(name)].disabled)
         /\ FindUserByMail(name) # 0 =>
              /\ FindUserByMail(name) \in DOMAIN cfg.users
              /\ EqualFold(cfg.users[FindUserByMail(name)].mail, name)
              /\ ~(cfg.sql /\ cfg.users[FindUserByMail(name)].disabled)
         /\ FindGroup(name) # 0 =>
              /\ FindGroup(name) \in DOMAIN cfg.groups
              /\ EqualFold(cfg.groups[FindGroup(name)].name, name)
<1>. DEFINE U == {i \in DOMAIN cfg.users : EqualFold(cfg.users[i].name, name)}
            M == {i \in DOMAIN cfg.users : EqualFold(cfg.users[i].mail, name)}
            G == {i \in DOMAIN cfg.groups : EqualFold(cfg.groups[i].name, name)}
<1>1. /\ U \in SUBSET (1 .. Len(cfg.users)) /\ M \in SUBSET (1 .. Len(cfg.users))
      /\ G \in SUBSET (1 .. Len(cfg.groups))
      /\ Len(cfg.users) \in Nat /\ Len(cfg.groups) \in Nat
  BY Configured
<1>2. /\ Match(U) # 0 => Match(U) \in U
      /\ Match(M) # 0 => Match(M) \in M
      /\ Match(G) # 0 => Match(G) \in G
  <2>. HIDE DEF U, M, G
  <2>. QED  BY <1>1, MatchTakes
<1>3. ASSUME FindUser(name) # 0
      PROVE  FindUser(name) \in U /\ ~(cfg.sql /\ cfg.users[FindUser(name)].disabled)
  BY <1>2, <1>3 DEF FindUser, Enabled
<1>4. ASSUME FindUserByMail(name) # 0
      PROVE  /\ FindUserByMail(name) \in M
             /\ ~(cfg.sql /\ cfg.users[FindUserByMail(name)].disabled)
  BY <1>2, <1>4 DEF FindUserByMail, Enabled
<1>5. FindGroup(name) # 0 => FindGroup(name) \in G
  BY <1>2 DEF FindGroup
<1>. QED  BY <1>3, <1>4, <1>5

\* Whom findUser finds is named so by the first component of the DN.
LEMMA Named ==
  ASSUME cfg \in Configs, NEW who \in Identity, NEW check, UserOf(who, check) # 0
  PROVE  LET i == UserOf(who, check) IN
         /\ i \in DOMAIN cfg.users
         /\ ~(cfg.sql /\ cfg.users[i].disabled)
         /\ IF who.mail # None THEN EqualFold(cfg.users[i].mail, who.mail)
            ELSE EqualFold(cfg.users[i].name, Head(who.dn).v)
<1>. DEFINE low == LowerDN(who.dn)
            parts == Above(low)
            name == NameIn(parts[1], cfg.nameFormat)
<1>0. who.dn \in DN /\ who.mail \in Names \cup {None}
  BY DEF Identity
<1>1. CASE who.mail # None
  BY <1>0, <1>1, Found DEF UserOf
<1>2. CASE who.mail = None
  <2>1. /\ IsStrictSuffix(Base, low) /\ WellFormed(parts)
        /\ UserOf(who, check) = FindUser(name) /\ FindUser(name) # 0
    BY <1>2 DEF UserOf
  <2>2. /\ low \in DN /\ Len(low) = Len(who.dn)
        /\ \A i \in 1 .. Len(who.dn) : /\ low[i] = Rdn(who.dn[i].a, LowerValue(who.dn[i].v))
                                       /\ who.dn[i].v \in Names
    BY <1>0, LowerAt
  <2>3. Len(who.dn) \in Nat /\ Len(Base) \in Nat /\ low \in Seq([a : Attributes, v : Names])
    BY <1>0, <2>2, Configured DEF DN
  <2>4. Len(parts) \in {1, 2, 3}
    BY <2>1 DEF WellFormed
  <2>. HIDE DEF low
  <2>5. /\ parts[1] = low[1] /\ 1 \in 1 .. Len(who.dn)
    <3>1. Len(parts) = IF 1 <= Len(low) - Len(Base) THEN Len(low) - Len(Base) ELSE 0
      BY <2>2, <2>3 DEF Above
    <3>2. 1 \in 1 .. Len(low) - Len(Base)
      BY <2>2, <2>3, <2>4, <3>1
    <3>. QED  BY <2>2, <2>3, <3>2 DEF Above
  <2>6. /\ parts[1].v = LowerValue(who.dn[1].v) /\ who.dn[1].v \in Names
        /\ Head(who.dn) = who.dn[1]
    <3>1. /\ low[1] = Rdn(who.dn[1].a, LowerValue(who.dn[1].v))
          /\ who.dn[1].v \in Names
      BY <2>2, <2>5
    <3>2. Head(who.dn) = who.dn[1]
      BY <1>0, <2>5 DEF DN
    <3>. QED  BY <2>5, <3>1, <3>2 DEF Rdn
  <2>7. name \in {parts[1].v, None}
    BY DEF NameIn
  <2>8. name \in Names \cup {None}
    BY <2>6, <2>7, LowerOf
  <2>. HIDE DEF name, parts
  <2>9. /\ FindUser(name) \in DOMAIN cfg.users
        /\ EqualFold(cfg.users[FindUser(name)].name, name)
        /\ ~(cfg.sql /\ cfg.users[FindUser(name)].disabled)
    BY <2>1, <2>8, Found
  <2>10. LowerValue(cfg.users[FindUser(name)].name) # None
    BY <2>9, Configured, LowerOf
  <2>11. name = parts[1].v
    BY <2>7, <2>9, <2>10, LowerOfKept DEF EqualFold
  <2>12. EqualFold(cfg.users[FindUser(name)].name, Head(who.dn).v)
    BY <2>6, <2>9, <2>11, LowerOf DEF EqualFold
  <2>. QED  BY <1>2, <2>1, <2>9, <2>12
<1>. QED  BY <1>1, <1>2

LEMMA EntryFields ==
  ASSUME NEW class, NEW dn
  PROVE  Entry(class, dn).class = class /\ Entry(class, dn).dn = dn
  BY DEF Entry

\* The DNs of accounts and of groups.
AccountDN(u, h) ==
    <<Rdn(cfg.nameFormat, u.name), Rdn(cfg.groupFormat, GroupName(u.gid))>> \o h \o cfg.baseDN

GroupDN(g, h) == <<Rdn(cfg.groupFormat, g.name)>> \o h \o cfg.baseDN

GroupClass(h) == IF h = OuGroups THEN "groupofuniquenames" ELSE "posixgroup"

LEMMA Accounts ==
  ASSUME NEW h, NEW e \in FindPosixAccounts(h)
  PROVE  e.class = "posixaccount" /\ \E u \in ToSet(cfg.users) : e.dn = AccountDN(u, h)
<1>1. PICK u \in ToSet(cfg.users) : e = Entry("posixaccount", AccountDN(u, h))
  BY DEF FindPosixAccounts, AccountDN
<1>. QED  BY <1>1, EntryFields

LEMMA Groups ==
  ASSUME NEW h, NEW e \in FindPosixGroups(h)
  PROVE  e.class = GroupClass(h) /\ \E g \in ToSet(cfg.groups) : e.dn = GroupDN(g, h)
<1>1. PICK g \in ToSet(cfg.groups) : e = Entry(GroupClass(h), GroupDN(g, h))
  BY DEF FindPosixGroups, GroupDN, GroupClass
<1>. QED  BY <1>1, EntryFields

\* The entries of the tree are of no other classes.
LEMMA TreeClasses ==
  ASSUME NEW req, NEW fails, NEW e \in TreeEntries(req, fails)
  PROVE  OfTree(e)
<1>. DEFINE Tree(x) == x.class \in {"organizationalunit", "posixgroup", "groupofuniquenames",
                                    "posixaccount"}
<1>1. /\ \A h : \A x \in FindPosixGroups(h) \cup FindPosixAccounts(h) : Tree(x)
      /\ \A dn : Tree(Node(dn))
  BY Accounts, Groups, EntryFields DEF Node, GroupClass
<1>. HIDE DEF Tree
<1>2. \A base, scope, x :
        /\ x \in TopLevelNodes(base, scope, fails) => Tree(x)
        /\ x \in TopLevelGroupsNode(base, scope, fails) => Tree(x)
        /\ x \in TopLevelUsersNode(base, scope, fails) => Tree(x)
  BY <1>1 DEF TopLevelNodes, TopLevelGroupsNode, TopLevelUsersNode, Itself, Read
<1>3. \A base, scope, h, x : x \in PosixGroups(base, scope, h, fails) => Tree(x)
  BY <1>1 DEF PosixGroups, Under, Read
<1>4. \A base, x : x \in PosixAccounts(base, fails) => Tree(x)
  BY <1>1 DEF PosixAccounts, Read
<1>5. Tree(e)
  BY <1>2, <1>3, <1>4 DEF TreeEntries
<1>. QED  BY <1>5 DEF Tree, OfTree

\* What a search shows of the tree is of the tree that it asked for.
LEMMA SeenOfTree ==
  ASSUME SearchInv, Answered
  PROVE  /\ answer.req.base \in DN /\ answer.req.scope \in {"base", "one", "sub"}
         /\ LowerDN(answer.req.base) \in {<<>>, Schema} =>
              \A e \in answer.seen : ~OfTree(e)
         /\ LowerDN(answer.req.base) \notin {<<>>, Schema} =>
              /\ answer.seen \subseteq Through(answer.req, TreeEntries(answer.req, answer.fails))
              /\ answer.whole =>
                   answer.seen = Through(answer.req, TreeEntries(answer.req, answer.fails))
              /\ \A e \in answer.seen : OfTree(e)
<1>1. answer.req.base \in DN /\ answer.req.scope \in {"base", "one", "sub"}
  BY RequestAssumption DEF SearchInv
<1>2. LowerDN(answer.req.base) = <<>> <=> answer.req.base = <<>>
  <2>1. /\ LowerDN(answer.req.base) \in DN
        /\ Len(LowerDN(answer.req.base)) = Len(answer.req.base)
    BY <1>1, LowerAt
  <2>2. ASSUME NEW dn \in DN PROVE dn = <<>> <=> Len(dn) = 0
    BY EmptySeq DEF DN
  <2>. QED  BY <1>1, <2>1, <2>2
<1>3. /\ answer.seen \subseteq Through(answer.req, Entries(answer.req, answer.fails))
      /\ answer.whole => answer.seen = Through(answer.req, Entries(answer.req, answer.fails))
  BY DEF SearchInv
<1>4. CASE LowerDN(answer.req.base) \in {<<>>, Schema}
  <2>1. \A e \in answer.seen : e.class \in {"dse", "schema"}
    BY <1>2, <1>3, <1>4 DEF Entries, Through, Entry
  <2>. QED  BY <1>1, <1>4, <2>1 DEF SearchInv, OfTree
<1>5. CASE LowerDN(answer.req.base) \notin {<<>>, Schema}
  <2>1. /\ answer.seen \subseteq Through(answer.req, TreeEntries(answer.req, answer.fails))
        /\ answer.whole =>
             answer.seen = Through(answer.req, TreeEntries(answer.req, answer.fails))
    BY <1>2, <1>3, <1>5 DEF Entries
  <2>2. \A e \in answer.seen : OfTree(e)
    BY <2>1, TreeClasses DEF Through
  <2>. QED  BY <1>1, <1>5, <2>1, <2>2 DEF SearchInv
<1>. QED  BY <1>4, <1>5

-----------------------------------------------------------------------------
(* Searches.                                                               *)

LEMMA SearchAlways == Spec => []SearchInv
  BY SearchInit, SearchStep, PTL DEF Spec

LEMMA Allowed == SearchInv => SearchesAreAllowed
<1>. SUFFICES ASSUME SearchInv, Answered, NEW e \in answer.seen, OfTree(e)
              PROVE  /\ boundDN # Anonymous
                     /\ \E u \in ToSet(cfg.users) :
                          /\ IF boundDN.mail # None
                             THEN EqualFold(u.mail, boundDN.mail)
                             ELSE EqualFold(u.name, Head(boundDN.dn).v)
                          /\ ~(cfg.sql /\ u.disabled)
                          /\ \/ cfg.ignoreCapabilities
                             \/ u.capabilities
                                  \cap {AnyObject, LowerDN(answer.req.base)} # {}
  BY DEF SearchesAreAllowed
<1>. DEFINE base == LowerDN(answer.req.base)
            i == UserOf(boundDN, FALSE)
<1>1. base \notin {<<>>, Schema}
  BY SeenOfTree
<1>2. Permitted(boundDN, answer.req) /\ boundDN \in Identity /\ cfg \in Configs
  BY DEF SearchInv
<1>3. boundDN # Anonymous /\ i # 0 /\ Capable(i, base)
  <2>. HIDE DEF base, i
  <2>1. /\ ~(boundDN # Anonymous /\ i = 0)
        /\ boundDN # Anonymous
        /\ ~(~IsSuffix(cfg.baseDN, base) \/ ~Capable(i, base))
    BY <1>1, <1>2 DEF Permitted, Refusal, base, i
  <2>. QED  BY <2>1
<1>4. /\ i \in DOMAIN cfg.users
      /\ ~(cfg.sql /\ cfg.users[i].disabled)
      /\ IF boundDN.mail # None THEN EqualFold(cfg.users[i].mail, boundDN.mail)
         ELSE EqualFold(cfg.users[i].name, Head(boundDN.dn).v)
  BY <1>2, <1>3, Named
<1>. HIDE DEF i, base
<1>5. \/ cfg.ignoreCapabilities
      \/ cfg.users[i].capabilities \cap {AnyObject, base} # {}
  BY <1>3 DEF Capable
<1>6. cfg.users[i] \in ToSet(cfg.users)
  BY <1>4 DEF ToSet
<1>. QED  BY <1>3, <1>4, <1>5, <1>6 DEF base

\* Whoever sees anything of the tree is a user of the configuration in force,
\* enabled and capable, whatever was reloaded since the bind.
THEOREM SearchesAllowed == Spec => []SearchesAreAllowed
  BY SearchAlways, Allowed, PTL

-----------------------------------------------------------------------------
\* The nodes differ from each other and from what they stand on.
LEMMA NodesDiffer ==
  ASSUME cfg \in Configs
  PROVE  /\ OuGroups \in DN /\ OuUsers \in DN /\ OuGroups # OuUsers
         /\ Len(OuGroups) = 1 /\ Len(OuUsers) = 1
         /\ OuGroups \o Base \in DN /\ OuUsers \o Base \in DN
         /\ Len(OuGroups \o Base) = Len(Base) + 1 /\ Len(OuUsers \o Base) = Len(Base) + 1
         /\ Base # OuGroups \o Base /\ Base # OuUsers \o Base
         /\ (OuGroups \o Base)[1] = Rdn("ou", "groups")
         /\ (OuUsers \o Base)[1] = Rdn("ou", "users")
         /\ OuGroups \o Base # OuUsers \o Base
<1>0. Base \in Seq([a : Attributes, v : Names]) /\ Len(Base) \in Nat
  BY Configured DEF DN
<1>1. /\ OuGroups \in Seq([a : Attributes, v : Names]) /\ Len(OuGroups) = 1
      /\ OuUsers \in Seq([a : Attributes, v : Names]) /\ Len(OuUsers) = 1
  <2>1. /\ Rdn("ou", "groups") \in [a : Attributes, v : Names]
        /\ Rdn("ou", "users") \in [a : Attributes, v : Names]
    BY NameAssumption DEF Rdn
  <2>. QED  BY <2>1 DEF OuGroups, OuUsers
<1>2. OuGroups[1] = Rdn("ou", "groups") /\ OuUsers[1] = Rdn("ou", "users")
  BY DEF OuGroups, OuUsers
<1>3. Rdn("ou", "groups") # Rdn("ou", "users")
  BY DEF Rdn
<1>4. /\ OuGroups \o Base \in Seq([a : Attributes, v : Names])
      /\ Len(OuGroups \o Base) = Len(Base) + 1
      /\ OuUsers \o Base \in Seq([a : Attributes, v : Names])
      /\ Len(OuUsers \o Base) = Len(Base) + 1
  <2>1. /\ Len(OuGroups \o Base) = 1 + Len(Base) /\ Len(OuUsers \o Base) = 1 + Len(Base)
        /\ OuGroups \o Base \in Seq([a : Attributes, v : Names])
        /\ OuUsers \o Base \in Seq([a : Attributes, v : Names])
    BY <1>0, <1>1, ConcatOf
  <2>. QED  BY <1>0, <2>1
<1>5. (OuGroups \o Base)[1] = OuGroups[1] /\ (OuUsers \o Base)[1] = OuUsers[1]
  BY <1>0, <1>1
<1>6. Base # OuGroups \o Base /\ Base # OuUsers \o Base
  BY <1>0, <1>4
<1>7. OuGroups \o Base # OuUsers \o Base /\ OuGroups # OuUsers
  BY <1>2, <1>3, <1>5
<1>. QED  BY <1>1, <1>2, <1>4, <1>5, <1>6, <1>7 DEF DN

\* A stage that does not give up lists what it lists when nothing fails.
LEMMA WholeStage ==
  ASSUME NEW base, NEW scope, NEW h, NEW fails
  PROVE  /\ ~GivesUp("top", scope, h, fails) =>
              TopLevelNodes(base, scope, fails) = TopLevelNodes(base, scope, {})
         /\ ~GivesUp("groups node", scope, h, fails) =>
              TopLevelGroupsNode(base, scope, fails) = TopLevelGroupsNode(base, scope, {})
         /\ ~GivesUp("users node", scope, h, fails) =>
              TopLevelUsersNode(base, scope, fails) = TopLevelUsersNode(base, scope, {})
         /\ ~GivesUp("groups", scope, h, fails) =>
              PosixGroups(base, scope, h, fails) = PosixGroups(base, scope, h, {})
         /\ ~GivesUp("accounts", scope, h, fails) =>
              PosixAccounts(base, fails) = PosixAccounts(base, {})
<1>1. ASSUME ~GivesUp("top", scope, h, fails)
      PROVE  TopLevelNodes(base, scope, fails) = TopLevelNodes(base, scope, {})
  <2>1. scope = "sub" => "node groups" \notin fails /\ "node accounts" \notin fails
    BY <1>1 DEF GivesUp, ReadsOf
  <2>. QED  BY <2>1 DEF TopLevelNodes, Read
<1>2. ASSUME ~GivesUp("groups node", scope, h, fails)
      PROVE  TopLevelGroupsNode(base, scope, fails) = TopLevelGroupsNode(base, scope, {})
  <2>1. scope # "base" => "node groups" \notin fails
    BY <1>2 DEF GivesUp, ReadsOf
  <2>. QED  BY <2>1 DEF TopLevelGroupsNode, Read
<1>3. ASSUME ~GivesUp("users node", scope, h, fails)
      PROVE  TopLevelUsersNode(base, scope, fails) = TopLevelUsersNode(base, scope, {})
  <2>1. /\ scope # "base" => "node groups" \notin fails
        /\ scope = "sub" => "node accounts" \notin fails
    BY <1>3 DEF GivesUp, ReadsOf
  <2>. QED  BY <2>1 DEF TopLevelUsersNode, Read
<1>4. ASSUME ~GivesUp("groups", scope, h, fails)
      PROVE  PosixGroups(base, scope, h, fails) = PosixGroups(base, scope, h, {})
  <2>1. /\ scope # "one" => "group" \notin fails
        /\ scope # "base" /\ h = OuUsers => "group accounts" \notin fails
    BY <1>4 DEF GivesUp, ReadsOf
  <2>. QED  BY <2>1 DEF PosixGroups, Read
<1>5. ASSUME ~GivesUp("accounts", scope, h, fails)
      PROVE  PosixAccounts(base, fails) = PosixAccounts(base, {})
  <2>1. "accounts" \notin fails
    BY <1>5 DEF GivesUp, ReadsOf
  <2>. QED  BY <2>1 DEF PosixAccounts, Read
<1>. QED  BY <1>1, <1>2, <1>3, <1>4, <1>5

\* Whatever reads fail, a search has the whole of what one stage lists, or
\* nothing.
LEMMA OneStage ==
  ASSUME NEW req, NEW fails
  PROVE  TreeEntries(req, fails) \in {{}} \cup Listings(req)
<1>. DEFINE base == LowerDN(req.base)
            h == Hierarchy(base, req.filter)
            scope == req.scope
<1>1. TreeEntries(req, fails) =
        IF base = Base /\ ~GivesUp("top", scope, h, fails)
        THEN TopLevelNodes(base, scope, fails)
        ELSE IF base = OuGroups \o Base /\ ~GivesUp("groups node", scope, h, fails)
        THEN TopLevelGroupsNode(base, scope, fails)
        ELSE IF base = OuUsers \o Base /\ ~GivesUp("users node", scope, h, fails)
        THEN TopLevelUsersNode(base, scope, fails)
        ELSE IF h # <<>> /\ ~GivesUp("groups", scope, h, fails)
        THEN PosixGroups(base, scope, h, fails)
        ELSE IF req.filter \in Accountable /\ ~GivesUp("accounts", scope, h, fails)
        THEN PosixAccounts(base, fails)
        ELSE {}
  BY DEF TreeEntries
<1>2. /\ base = Base => TopLevelNodes(base, scope, {}) \in Listings(req)
      /\ base = OuGroups \o Base => TopLevelGroupsNode(base, scope, {}) \in Listings(req)
      /\ base = OuUsers \o Base => TopLevelUsersNode(base, scope, {}) \in Listings(req)
      /\ h # <<>> => PosixGroups(base, scope, h, {}) \in Listings(req)
      /\ req.filter \in Accountable => PosixAccounts(base, {}) \in Listings(req)
  BY DEF Listings
<1>. HIDE DEF base, h, scope
<1>. QED  BY <1>1, <1>2, WholeStage

LEMMA NotCutOff == SearchInv => NothingCutOff
<1>. DEFINE Whole == {{}} \cup {Through(answer.req, listing) : listing \in Listings(answer.req)}
<1>. SUFFICES ASSUME SearchInv, Answered, answer.whole
              PROVE  {e \in answer.seen : OfTree(e)} \in Whole
  BY DEF NothingCutOff
<1>1. CASE LowerDN(answer.req.base) \in {<<>>, Schema}
  BY <1>1, SeenOfTree
<1>2. CASE LowerDN(answer.req.base) \notin {<<>>, Schema}
  <2>1. /\ answer.seen = Through(answer.req, TreeEntries(answer.req, answer.fails))
        /\ \A e \in answer.seen : OfTree(e)
    BY <1>2, SeenOfTree
  <2>2. Through(answer.req, {}) = {}
    BY DEF Through
  <2>3. answer.seen \in Whole
    BY <2>1, <2>2, OneStage
  <2>4. {e \in answer.seen : OfTree(e)} = answer.seen
    BY <2>1
  <2>. QED  BY <2>3, <2>4
<1>. QED  BY <1>1, <1>2

\* Reads that return an error, each on its own, never leave a part of what a
\* stage lists: the client sees all that some stage concerned lists, or nothing,
\* unless rows broke off unnoticed.
THEOREM NeverCutOff == Spec => []NothingCutOff
  BY SearchAlways, NotCutOff, PTL

-----------------------------------------------------------------------------
\* A search that fails nowhere goes through the stages in their order.
LEMMA TreeOf ==
  ASSUME NEW req
  PROVE  LET base == LowerDN(req.base)
             h == Hierarchy(base, req.filter) IN
         TreeEntries(req, {}) =
           IF base = Base THEN TopLevelNodes(base, req.scope, {})
           ELSE IF base = OuGroups \o Base THEN TopLevelGroupsNode(base, req.scope, {})
           ELSE IF base = OuUsers \o Base THEN TopLevelUsersNode(base, req.scope, {})
           ELSE IF h # <<>> THEN PosixGroups(base, req.scope, h, {})
           ELSE IF req.filter \in Accountable THEN PosixAccounts(base, {})
           ELSE {}
<1>1. \A stage, scope, h : ~GivesUp(stage, scope, h, {})
  BY DEF GivesUp
<1>. QED  BY <1>1 DEF TreeEntries

\* Every stage finds in a subtree what it finds on one level.
LEMMA LevelsInSubtree ==
  ASSUME NEW base, NEW filter, NEW scope \in {"base", "one", "sub"}
  PROVE  TreeEntries([base |-> base, scope |-> scope, filter |-> filter], {})
           \subseteq TreeEntries([base |-> base, scope |-> "sub", filter |-> filter], {})
<1>. DEFINE low == LowerDN(base)
<1>1. /\ TopLevelNodes(low, scope, {}) \subseteq TopLevelNodes(low, "sub", {})
      /\ TopLevelGroupsNode(low, scope, {}) \subseteq TopLevelGroupsNode(low, "sub", {})
      /\ TopLevelUsersNode(low, scope, {}) \subseteq TopLevelUsersNode(low, "sub", {})
  BY DEF TopLevelNodes, TopLevelGroupsNode, TopLevelUsersNode, Itself, Read
<1>2. \A h : PosixGroups(low, scope, h, {}) \subseteq PosixGroups(low, "sub", h, {})
  BY DEF PosixGroups, Read
<1>. HIDE DEF low
<1>3. \A sc : LET h == Hierarchy(low, filter) IN
        TreeEntries([base |-> base, scope |-> sc, filter |-> filter], {}) =
           IF low = Base THEN TopLevelNodes(low, sc, {})
           ELSE IF low = OuGroups \o Base THEN TopLevelGroupsNode(low, sc, {})
           ELSE IF low = OuUsers \o Base THEN TopLevelUsersNode(low, sc, {})
           ELSE IF h # <<>> THEN PosixGroups(low, sc, h, {})
           ELSE IF filter \in Accountable THEN PosixAccounts(low, {})
           ELSE {}
  <2>. TAKE sc
  <2>. DEFINE r == [base |-> base, scope |-> sc, filter |-> filter]
  <2>1. r.base = base /\ r.scope = sc /\ r.filter = filter
    OBVIOUS
  <2>. HIDE DEF r
  <2>2. r = [base |-> base, scope |-> sc, filter |-> filter]
    BY DEF r
  <2>. QED  BY <2>1, <2>2, TreeOf DEF low
<1>. QED  BY <1>1, <1>2, <1>3

LEMMA SubtreeHolds == SearchInv => SubtreeHoldsLevels
<1>. SUFFICES ASSUME SearchInv, Undisturbed
              PROVE  {e \in answer.seen : OfTree(e)}
                       \subseteq Seen([answer.req EXCEPT !.scope = "sub"])
  BY DEF SubtreeHoldsLevels
<1>0. Answered /\ answer.fails = {} /\ answer.whole
  BY DEF Undisturbed
<1>. DEFINE req == answer.req
            sub == [req EXCEPT !.scope = "sub"]
<1>1. CASE LowerDN(req.base) \in {<<>>, Schema}
  BY <1>0, <1>1, SeenOfTree
<1>2. CASE LowerDN(req.base) \notin {<<>>, Schema}
  <2>1. /\ answer.seen = Through(req, TreeEntries(req, {}))
        /\ req.scope \in {"base", "one", "sub"}
    BY <1>0, <1>2, SeenOfTree
  <2>2. /\ req = [base |-> req.base, scope |-> req.scope, filter |-> req.filter]
        /\ sub = [base |-> req.base, scope |-> "sub", filter |-> req.filter]
        /\ sub.base = req.base /\ sub.scope = "sub" /\ sub.filter = req.filter
    BY <1>0, RequestAssumption DEF SearchInv
  <2>. HIDE DEF sub, req
  <2>3. TreeEntries(req, {}) \subseteq TreeEntries(sub, {})
    BY <2>1, <2>2, LevelsInSubtree
  <2>4. \A e : Passes(e, req) => Passes(e, sub)
    BY <2>2 DEF Passes
  <2>. QED  BY <2>1, <2>3, <2>4 DEF Through, Seen, req, sub
<1>. QED  BY <1>1, <1>2

\* A subtree search shows whatever a base or one-level search shows.
THEOREM SubtreesHoldLevels == Spec => []SubtreeHoldsLevels
  BY SearchAlways, SubtreeHolds, PTL

-----------------------------------------------------------------------------
\* No filter, no name.
Blank == ""

\* Without a filter the same stage is reached, and accounts are looked at.
LEMMA WithoutFilter ==
  ASSUME NEW req, NEW all, all.base = req.base, all.scope = req.scope, all.filter = Blank,
         req.filter # "posixgroup", req.filter # Blank
  PROVE  /\ TreeEntries(req, {}) = TreeEntries(all, {})
            \/ /\ TreeEntries(req, {}) = {} /\ req.filter # "posixaccount"
               /\ TreeEntries(all, {}) = PosixAccounts(LowerDN(req.base), {})
<1>. DEFINE base == LowerDN(req.base)
            h == Hierarchy(base, req.filter)
<1>1. h = Hierarchy(base, Blank)
  BY DEF Hierarchy, Blank
<1>2. Blank \in Accountable /\ (req.filter \in Accountable <=> req.filter = "posixaccount")
  BY DEF Accountable, Blank
<1>3. TreeEntries(req, {}) =
        IF base = Base THEN TopLevelNodes(base, req.scope, {})
        ELSE IF base = OuGroups \o Base THEN TopLevelGroupsNode(base, req.scope, {})
        ELSE IF base = OuUsers \o Base THEN TopLevelUsersNode(base, req.scope, {})
        ELSE IF h # <<>> THEN PosixGroups(base, req.scope, h, {})
        ELSE IF req.filter \in Accountable THEN PosixAccounts(base, {})
        ELSE {}
  BY TreeOf
<1>4. TreeEntries(all, {}) =
        IF base = Base THEN TopLevelNodes(base, req.scope, {})
        ELSE IF base = OuGroups \o Base THEN TopLevelGroupsNode(base, req.scope, {})
        ELSE IF base = OuUsers \o Base THEN TopLevelUsersNode(base, req.scope, {})
        ELSE IF h # <<>> THEN PosixGroups(base, req.scope, h, {})
        ELSE PosixAccounts(base, {})
  BY <1>1, <1>2, TreeOf
<1>. HIDE DEF h
<1>. QED  BY <1>2, <1>3, <1>4

LEMMA Selects == SearchInv => FiltersSelect
<1>. DEFINE req == answer.req
            all == [req EXCEPT !.filter = Blank]
<1>. SUFFICES ASSUME SearchInv, Undisturbed, req.filter # Blank,
                     req.filter # "posixgroup", LowerDN(req.base) \notin {<<>>, Schema}
              PROVE  {e \in answer.seen : OfTree(e)}
                       = {e \in Seen(all) : e.class = req.filter}
  BY DEF FiltersSelect, Blank
<1>0. Answered /\ answer.fails = {} /\ answer.whole
  BY DEF Undisturbed
<1>1. answer.seen = Through(req, TreeEntries(req, {})) /\ \A e \in answer.seen : OfTree(e)
  BY <1>0, SeenOfTree
<1>2. all.base = req.base /\ all.scope = req.scope /\ all.filter = Blank
  BY <1>0, RequestAssumption DEF SearchInv
<1>. HIDE DEF req, all
<1>3. \A e : OfTree(e) => (Passes(e, req) <=> Passes(e, all) /\ e.class = req.filter)
  BY <1>2 DEF Passes, OfTree, Blank
<1>4. CASE TreeEntries(req, {}) = TreeEntries(all, {})
  <2>1. \A e \in TreeEntries(all, {}) : OfTree(e)
    BY TreeClasses
  <2>. QED  BY <1>1, <1>3, <1>4, <2>1 DEF Through, Seen
<1>5. CASE /\ TreeEntries(req, {}) = {} /\ req.filter # "posixaccount"
           /\ TreeEntries(all, {}) = PosixAccounts(LowerDN(req.base), {})
  <2>1. \A e \in TreeEntries(all, {}) : e.class = "posixaccount"
    BY <1>5, Accounts DEF PosixAccounts, Read
  <2>. QED  BY <1>1, <1>5, <2>1 DEF Through, Seen
<1>. QED  BY <1>2, <1>4, <1>5, WithoutFilter DEF req

\* A filter by class selects among what the search shows without it.
THEOREM FiltersOnlySelect == Spec => []FiltersSelect
  BY SearchAlways, Selects, PTL

-----------------------------------------------------------------------------
(* What the throttle counts.                                               *)

\* Nothing the user was given is so long that a key code could be cut off it:
\* application passwords are at most as long as a key code, and passwords leave
\* room for a TOTP code as well; none is empty.
ShortSecrets(u) ==
    u.yubikey # None =>
      /\ \A p \in u.apps : Len(p) <= YubikeyOtpLen
      /\ u.bcrypt \notin {None, BadHex} => Len(u.bcrypt) \in 1 .. (YubikeyOtpLen - TotpLen)
      /\ u.sha256 # None => Len(u.sha256) \in 1 .. (YubikeyOtpLen - TotpLen)

LEMMA CredentialsDoNotCount ==
  ASSUME NEW u, NEW on, NEW S, NEW sent \in Seq(S),
         ShortSecrets(u), Credential(u, on, sent), Counted(u, on, sent)
  PROVE  FALSE
<1>0. TotpLen \in Nat /\ YubikeyOtpLen \in Nat /\ Len(sent) \in Nat
  BY LengthAssumption
<1>1. /\ ~AppPassword(u, on, sent) /\ u.custom = None /\ OtpValid(u, on, sent)
      /\ u.bcrypt # BadHex /\ ~HashesAccept(u, Password(u, on, sent))
  BY WhatMatches DEF Counted, Accepted, ReachesHashes
<1>2. CASE sent \in u.apps
  <2>1. CutsYubikey(u, on, sent)
    BY <1>1, <1>2 DEF AppPassword, Untouched
  <2>2. u.yubikey # None /\ Len(sent) > YubikeyOtpLen
    BY <2>1 DEF CutsYubikey
  <2>3. Len(sent) <= YubikeyOtpLen
    BY <1>2, <2>2 DEF ShortSecrets
  <2>. QED  BY <1>0, <2>2, <2>3
<1>3. CASE MainCredential(u, on, sent)
  <2>. DEFINE pw(n) == SubSeq(sent, 1, n)
              code(n) == SubSeq(sent, n + 1, Len(sent))
  <2>1. PICK n \in 0 .. Len(sent) :
          /\ HashesAccept(u, pw(n))
          /\ \/ u.yubikey = None /\ u.otpSecret = None /\ code(n) = <<>>
             \/ u.yubikey # None /\ on /\ KeyCode(u, code(n))
             \/ u.otpSecret # None /\ code(n) = u.otpSecret /\ Len(code(n)) = TotpLen
    BY <1>3 DEF MainCredential, SecondFactor
  <2>2. n \in Nat /\ Len(code(n)) = Len(sent) - n /\ Len(pw(n)) = n
    BY CutEverywhere
  <2>. HIDE DEF code, pw
  <2>3. Password(u, on, sent) # pw(n)
    BY <1>1, <2>1
  <2>4. u.yubikey # None => n \in 1 .. (YubikeyOtpLen - TotpLen)
    <3>1. \/ u.bcrypt # None /\ u.bcrypt = pw(n)
          \/ u.sha256 # None /\ u.sha256 = pw(n)
      BY <2>1 DEF HashesAccept
    <3>. QED  BY <1>1, <2>2, <3>1 DEF ShortSecrets
  <2>5. CASE u.yubikey = None /\ u.otpSecret = None /\ code(n) = <<>>
    <3>1. n = Len(sent)
      BY <1>0, <2>2, <2>5
    <3>2. pw(n) = sent
      BY <3>1, CutNothing DEF pw
    <3>3. Password(u, on, sent) = sent
      BY <2>5 DEF Password, CutsTotp, Untouched, CutsYubikey
    <3>. QED  BY <2>3, <3>2, <3>3
  <2>6. CASE u.yubikey # None /\ on /\ KeyCode(u, code(n))
    <3>1. Len(code(n)) = YubikeyOtpLen
      BY <2>6 DEF KeyCode
    <3>2. n \in 1 .. (YubikeyOtpLen - TotpLen)
      BY <2>4, <2>6
    <3>3. Len(sent) > YubikeyOtpLen /\ n = Len(sent) - YubikeyOtpLen
      BY <1>0, <2>2, <3>1, <3>2
    <3>4. CutsYubikey(u, on, sent)
      BY <2>6, <3>3 DEF CutsYubikey
    <3>5. AllBut(YubikeyOtpLen, sent) = pw(n) /\ Final(YubikeyOtpLen, sent) = code(n)
      BY <3>3 DEF AllBut, Final, pw, code
    <3>6. YubikeySettles(u, on, sent)
      BY <2>6, <3>4, <3>5 DEF YubikeySettles
    <3>7. Password(u, on, sent) = pw(n)
      BY <3>4, <3>5, <3>6 DEF Password, CutsTotp, Untouched
    <3>. QED  BY <2>3, <3>7
  <2>7. CASE u.otpSecret # None /\ code(n) = u.otpSecret /\ Len(code(n)) = TotpLen
    <3>1. n = Len(sent) - TotpLen
      BY <1>0, <2>2, <2>7
    <3>2. u.yubikey # None => ~(Len(sent) > YubikeyOtpLen)
      BY <1>0, <2>4, <3>1
    <3>3. ~CutsYubikey(u, on, sent)
      BY <3>2 DEF CutsYubikey
    <3>4. ~YubikeySettles(u, on, sent) /\ Untouched(u, on, sent) = sent
      BY <2>7, <3>3 DEF YubikeySettles, Untouched
    <3>5. CutsTotp(u, on, sent)
      BY <1>1, <3>4 DEF OtpValid
    <3>6. Password(u, on, sent) = AllBut(TotpLen, sent)
      BY <3>4, <3>5 DEF Password
    <3>7. AllBut(TotpLen, sent) = pw(n)
      BY <3>1 DEF AllBut, pw
    <3>. QED  BY <2>3, <3>6, <3>7
  <2>. QED  BY <2>1, <2>5, <2>6, <2>7
<1>. QED  BY <1>1, <1>2, <1>3 DEF Credential

CountInv ==
    /\ cfg \in Configs
    /\ ShortSecrets(Secret(answer.user)) => OnlyWrongPasswordsCount

LEMMA CountStep == CountInv /\ [Next]_vars => CountInv'
<1>. SUFFICES ASSUME CountInv, [Next]_vars PROVE CountInv'
  OBVIOUS
<1>1. ASSUME NEW b \in Binds[cfg], Bind(b.who, b.pw) PROVE CountInv'
  <2>. DEFINE i == UserOf(b.who, TRUE)
              u == Secret(i)
              on == cfg.yubikeyAuth
  <2>1. /\ cfg' = cfg /\ answer'.op = "bind" /\ answer'.user = i /\ answer'.pw = b.pw
    BY <1>1 DEF Bind
  <2>2. answer'.counted = BindCounted(b.who, i, b.pw)
    BY <1>1 DEF Bind
  <2>3. b.pw \in Seq(ToSet(b.pw))
    BY RequestAssumption DEF CountInv
  <2>. HIDE DEF i
  <2>4. Secret(answer.user)' = u
    BY <2>1 DEF Secret
  <2>5. ASSUME ShortSecrets(u), answer'.counted
        PROVE  /\ ~Credential(u, on, b.pw) /\ OtpValid(u, on, b.pw)
               /\ u.bcrypt # BadHex /\ ~Passwordless(u)
    <3>1. Counted(u, on, b.pw)
      BY <2>2, <2>5 DEF BindCounted
    <3>2. OtpValid(u, on, b.pw) /\ u.bcrypt # BadHex
      BY <3>1 DEF Counted, ReachesHashes
    <3>3. ~Passwordless(u)
      BY <3>1 DEF Counted, Accepted, Passwordless, Matches
    <3>. QED  BY <2>3, <2>5, <3>1, <3>2, <3>3, CredentialsDoNotCount
  <2>6. ShortSecrets(Secret(answer.user))' <=> ShortSecrets(u)
    BY <2>4 DEF ShortSecrets
  <2>7. ShortSecrets(u) => OnlyWrongPasswordsCount'
    BY <2>1, <2>4, <2>5 DEF OnlyWrongPasswordsCount
  <2>. QED  BY <2>1, <2>6, <2>7 DEF CountInv
<1>2. ASSUME NEW req, NEW fails, NEW lost, Search(req, fails, lost) PROVE CountInv'
  <2>1. cfg' = cfg /\ answer'.op = "search"
    BY <1>2 DEF Search
  <2>. QED  BY <2>1 DEF CountInv, OnlyWrongPasswordsCount
<1>3. CASE Deliver
  <2>1. cfg' = cfg /\ answer'.op = "none"
    BY <1>3 DEF Deliver, NoAnswer
  <2>. QED  BY <2>1 DEF CountInv, OnlyWrongPasswordsCount
<1>4. CASE Reload
  <2>1. cfg' \in Configs /\ answer'.op = "none"
    BY <1>4 DEF Reload, NoAnswer
  <2>. QED  BY <2>1 DEF CountInv, OnlyWrongPasswordsCount
<1>5. CASE UNCHANGED vars
  <2>1. cfg' = cfg /\ answer' = answer
    BY <1>5 DEF vars
  <2>. QED  BY <2>1 DEF CountInv, OnlyWrongPasswordsCount, Secret, ShortSecrets
<1>. QED  BY <1>1, <1>2, <1>3, <1>4, <1>5 DEF Next

\* A credential is never counted as a wrong password, nor is a wrong code or a
\* hash nobody can match, if the user's secrets are too short for a key code to
\* be cut off them.
THEOREM OnlyWrongOnes == Spec => [](ShortSecrets(Secret(answer.user)) => OnlyWrongPasswordsCount)
<1>1. Init => CountInv
  BY DEF Init, CountInv, NoAnswer, OnlyWrongPasswordsCount
<1>2. CountInv => (ShortSecrets(Secret(answer.user)) => OnlyWrongPasswordsCount)
  BY DEF CountInv
<1>. QED  BY <1>1, <1>2, CountStep, PTL DEF Spec

-----------------------------------------------------------------------------
(* Accounts as they are listed.                                            *)

LEMMA ConcatAt ==
  ASSUME NEW S, NEW s \in Seq(S), NEW t \in Seq(S)
  PROVE  /\ \A i \in 1 .. Len(s) : (s \o t)[i] = s[i]
         /\ \A i \in 1 .. Len(t) : (s \o t)[Len(s) + i] = t[i]
  OBVIOUS

LEMMA ConcatAfter ==
  ASSUME NEW S, NEW s \in Seq(S), NEW t \in Seq(S), NEW m \in Nat, Len(s) = m,
         NEW i \in 1 .. Len(t)
  PROVE  (s \o t)[m + i] = t[i]
<1>1. (s \o t)[Len(s) + i] = t[i]
  BY ConcatAt
<1>. QED  BY <1>1

LEMMA FrontOf ==
  ASSUME NEW S, NEW s \in Seq(S), NEW n \in Nat, n <= Len(s)
  PROVE  /\ SubSeq(s, 1, n) \in Seq(S) /\ Len(SubSeq(s, 1, n)) = n
         /\ \A i \in 1 .. n : SubSeq(s, 1, n)[i] = s[i]
  OBVIOUS

LEMMA FrontOfConcat ==
  ASSUME NEW S, NEW s \in Seq(S), NEW t \in Seq(S)
  PROVE  SubSeq(s \o t, 1, Len(s)) = s
<1>. DEFINE n == Len(s)
            w == s \o t
<1>1. n \in Nat /\ w \in Seq(S) /\ n <= Len(w)
  <2>1. w \in Seq(S) /\ Len(w) = Len(s) + Len(t) /\ Len(s) \in Nat /\ Len(t) \in Nat
    BY ConcatOf
  <2>. HIDE DEF w
  <2>. QED  BY <2>1
<1>2. \A i \in 1 .. n : w[i] = s[i]
  BY ConcatAt
<1>. HIDE DEF w
<1>3. SubSeq(w, 1, n) = s
  <2>1. /\ SubSeq(w, 1, n) \in Seq(S) /\ Len(SubSeq(w, 1, n)) = n
        /\ \A i \in 1 .. n : SubSeq(w, 1, n)[i] = w[i]
    BY <1>1, FrontOf
  <2>. DEFINE f == SubSeq(w, 1, n)
  <2>. HIDE DEF f
  <2>2. f \in Seq(S) /\ Len(f) = Len(s) /\ \A i \in 1 .. Len(s) : f[i] = s[i]
    BY <1>2, <2>1 DEF f
  <2>3. f = s
    BY <2>2, SeqEqual
  <2>. QED  BY <2>3 DEF f
<1>. QED  BY <1>3 DEF w

LEMMA AboveOf ==
  ASSUME cfg \in Configs, NEW x \in DN
  PROVE  /\ Above(x \o Base) = x
         /\ IsSuffix(Base, x \o Base)
         /\ Len(x) # 0 => IsStrictSuffix(Base, x \o Base)
         /\ Len(x \o Base) = Len(x) + Len(Base)
<1>. DEFINE R == [a : Attributes, v : Names]
<1>1. x \in Seq(R) /\ Base \in Seq(R) /\ Len(x) \in Nat /\ Len(Base) \in Nat
  BY Configured DEF DN
<1>. HIDE DEF R
<1>2. x \o Base \in Seq(R) /\ Len(x \o Base) = Len(x) + Len(Base)
  BY <1>1, ConcatOf
<1>3. Len(x \o Base) - Len(Base) = Len(x)
  BY <1>1, <1>2
<1>4. Above(x \o Base) = x
  BY <1>1, <1>3, FrontOfConcat DEF Above
<1>. QED  BY <1>1, <1>2, <1>4, SuffixOfConcat

LEMMA GroupNamed ==
  ASSUME cfg \in Configs, NEW gid
  PROVE  /\ GroupName(gid) \in Names
         /\ \/ GroupName(gid) = Blank
            \/ \E k \in DOMAIN cfg.groups :
                 cfg.groups[k].gid = gid /\ GroupName(gid) = cfg.groups[k].name
<1>. DEFINE places == {i \in DOMAIN cfg.groups : cfg.groups[i].gid = gid}
<1>1. CASE places = {}
  <2>1. GroupName(gid) = Blank
    BY <1>1 DEF GroupName, Blank
  <2>2. Blank \in Names
    BY NameAssumption DEF Blank
  <2>. QED  BY <2>1, <2>2
<1>2. CASE places # {}
  <2>1. places \in SUBSET Nat
    BY Configured
  <2>. HIDE DEF places
  <2>2. \E x \in places : \A y \in places : x <= y
    BY <1>2, <2>1, LeastOf
  <2>3. Min(places) \in places
    BY <2>2 DEF Min
  <2>4. GroupName(gid) = cfg.groups[Min(places)].name
    BY <1>2 DEF GroupName, places
  <2>5. Min(places) \in DOMAIN cfg.groups /\ cfg.groups[Min(places)].gid = gid
    BY <2>3 DEF places
  <2>. QED  BY <2>4, <2>5, Configured
<1>. QED  BY <1>1, <1>2

LEMMA MatchOne ==
  ASSUME NEW n \in Nat, NEW j \in 1 .. n
  PROVE  Match({j}) = j
<1>1. {j} \in SUBSET (1 .. n) /\ {j} # {}
  OBVIOUS
<1>2. Match({j}) \in {j}
  BY <1>1, MatchTakes
<1>. QED  BY <1>2

\* With names of their own, users and groups are found by them.
LEMMA UserFoundAgain ==
  ASSUME cfg \in Configs, Unique(cfg.users), NEW j \in DOMAIN cfg.users
  PROVE  FindUser(LowerValue(cfg.users[j].name))
           = IF cfg.sql /\ cfg.users[j].disabled THEN 0 ELSE j
<1>. DEFINE name == LowerValue(cfg.users[j].name)
            places == {i \in DOMAIN cfg.users : EqualFold(cfg.users[i].name, name)}
<1>1. /\ LowerValue(name) = name /\ j \in 1 .. Len(cfg.users) /\ Len(cfg.users) \in Nat
      /\ DOMAIN cfg.users = 1 .. Len(cfg.users)
  BY Configured, LowerOf
<1>2. places = {j}
  BY <1>1 DEF EqualFold, Unique
<1>3. FindUser(name) = Enabled(Match(places))
  BY DEF FindUser
<1>. HIDE DEF name, places
<1>4. Match(places) = j
  BY <1>1, <1>2, MatchOne
<1>5. FindUser(name) = IF cfg.sql /\ cfg.users[j].disabled THEN 0 ELSE j
  BY <1>1, <1>3, <1>4 DEF Enabled
<1>. QED  BY <1>5 DEF name

LEMMA GroupFoundAgain ==
  ASSUME cfg \in Configs, Unique(cfg.groups), NEW k \in DOMAIN cfg.groups
  PROVE  FindGroup(LowerValue(cfg.groups[k].name)) = k
<1>. DEFINE name == LowerValue(cfg.groups[k].name)
            places == {i \in DOMAIN cfg.groups : EqualFold(cfg.groups[i].name, name)}
<1>1. /\ LowerValue(name) = name /\ k \in 1 .. Len(cfg.groups) /\ Len(cfg.groups) \in Nat
      /\ DOMAIN cfg.groups = 1 .. Len(cfg.groups)
  BY Configured, LowerOf
<1>2. places = {k}
  BY <1>1 DEF EqualFold, Unique
<1>3. FindGroup(name) = Match(places)
  BY DEF FindGroup
<1>. HIDE DEF name, places
<1>4. Match(places) = k
  BY <1>1, <1>2, MatchOne
<1>. QED  BY <1>3, <1>4 DEF name

LEMMA PairBefore ==
  ASSUME NEW S, NEW p \in S, NEW q \in S, NEW h \in Seq(S)
  PROVE  /\ <<p, q>> \o h \in Seq(S) /\ Len(<<p, q>> \o h) = 2 + Len(h)
         /\ (<<p, q>> \o h)[1] = p /\ (<<p, q>> \o h)[2] = q
         /\ \A i \in 1 .. Len(h) : (<<p, q>> \o h)[2 + i] = h[i]
<1>. DEFINE s == <<p, q>>
<1>1. s \in Seq(S) /\ Len(s) = 2 /\ s[1] = p /\ s[2] = q
  OBVIOUS
<1>. HIDE DEF s
<1>2. s \o h \in Seq(S) /\ Len(s \o h) = 2 + Len(h)
  BY <1>1, ConcatOf
<1>3. (s \o h)[1] = p /\ (s \o h)[2] = q
  <2>1. 1 \in 1 .. Len(s) /\ 2 \in 1 .. Len(s)
    BY <1>1
  <2>2. \A i \in 1 .. Len(s) : (s \o h)[i] = s[i]
    BY <1>1, ConcatAt
  <2>3. (s \o h)[1] = s[1] /\ (s \o h)[2] = s[2]
    BY <2>1, <2>2
  <2>. QED  BY <1>1, <2>3
<1>4. ASSUME NEW i \in 1 .. Len(h) PROVE (s \o h)[2 + i] = h[i]
  <2>1. s \in Seq(S) /\ Len(s) \in Nat /\ 2 = Len(s) /\ i \in Nat
    BY <1>1
  <2>2. (s \o h)[Len(s) + i] = h[i]
    BY <2>1, ConcatAfter
  <2>. QED  BY <2>1, <2>2
<1>. QED  BY <1>2, <1>3, <1>4 DEF s

LEMMA OneBefore ==
  ASSUME NEW S, NEW p \in S, NEW h \in Seq(S)
  PROVE  /\ <<p>> \o h \in Seq(S) /\ Len(<<p>> \o h) = 1 + Len(h)
         /\ (<<p>> \o h)[1] = p
         /\ \A i \in 1 .. Len(h) : (<<p>> \o h)[1 + i] = h[i]
<1>. DEFINE s == <<p>>
<1>1. s \in Seq(S) /\ Len(s) = 1 /\ s[1] = p
  OBVIOUS
<1>. HIDE DEF s
<1>2. s \o h \in Seq(S) /\ Len(s \o h) = 1 + Len(h)
  BY <1>1, ConcatOf
<1>3. (s \o h)[1] = p
  <2>1. 1 \in 1 .. Len(s)
    BY <1>1
  <2>2. \A i \in 1 .. Len(s) : (s \o h)[i] = s[i]
    BY <1>1, ConcatAt
  <2>3. (s \o h)[1] = s[1]
    BY <2>1, <2>2
  <2>. QED  BY <1>1, <2>3
<1>4. ASSUME NEW i \in 1 .. Len(h) PROVE (s \o h)[1 + i] = h[i]
  <2>1. s \in Seq(S) /\ Len(s) \in Nat /\ 1 = Len(s) /\ i \in Nat
    BY <1>1
  <2>2. (s \o h)[Len(s) + i] = h[i]
    BY <2>1, ConcatAfter
  <2>. QED  BY <2>1, <2>2
<1>. QED  BY <1>2, <1>3, <1>4 DEF s

LEMMA KeptNodes ==
  /\ LowerValue("groups") = "groups" /\ LowerValue("users") = "users"
  BY NameAssumption DEF LowerValue

\* Nodes are in lower case.
LEMMA NodeOf ==
  ASSUME cfg \in Configs, NEW h \in {<<>>, OuGroups, OuUsers}
  PROVE  /\ h \in DN /\ LowerDN(h) = h /\ Len(h) \in Nat
         /\ Len(h) = IF h = <<>> THEN 0 ELSE 1
         /\ h = OuUsers => h[1] = Rdn("ou", "users")
         /\ h = OuGroups => h[1] = Rdn("ou", "groups")
<1>1. /\ OuGroups \in DN /\ Len(OuGroups) = 1 /\ OuGroups[1] = Rdn("ou", "groups")
      /\ OuUsers \in DN /\ Len(OuUsers) = 1 /\ OuUsers[1] = Rdn("ou", "users")
  BY NodesDiffer DEF OuGroups, OuUsers
<1>2. /\ Rdn(Rdn("ou", "groups").a, LowerValue(Rdn("ou", "groups").v)) = Rdn("ou", "groups")
      /\ Rdn(Rdn("ou", "users").a, LowerValue(Rdn("ou", "users").v)) = Rdn("ou", "users")
  BY KeptNodes DEF Rdn
<1>3. CASE h = <<>>
  <2>1. <<>> \in DN /\ Len(<<>>) = 0
    BY EmptySeq DEF DN
  <2>2. LowerDN(<<>>) \in DN /\ Len(LowerDN(<<>>)) = 0
    BY <2>1, LowerAt
  <2>3. LowerDN(<<>>) = <<>>
    BY <2>2, EmptySeq DEF DN
  <2>4. OuUsers # <<>> /\ OuGroups # <<>>
    BY <1>1, <2>1
  <2>. QED  BY <1>3, <2>1, <2>3, <2>4
<1>4. CASE h # <<>>
  <2>1. /\ h \in DN /\ Len(h) = 1 /\ h[1] \in {Rdn("ou", "groups"), Rdn("ou", "users")}
        /\ h = OuUsers => h[1] = Rdn("ou", "users")
        /\ h = OuGroups => h[1] = Rdn("ou", "groups")
    BY <1>1, <1>4
  <2>. HIDE DEF OuUsers, OuGroups
  <2>2. LowerDN(h) \in DN /\ Len(LowerDN(h)) = 1
        /\ \A i \in 1 .. 1 : LowerDN(h)[i] = Rdn(h[i].a, LowerValue(h[i].v))
    BY <2>1, LowerAt
  <2>3. \A i \in 1 .. 1 : LowerDN(h)[i] = h[i]
    <3>1. 1 \in 1 .. 1 /\ \A i \in 1 .. 1 : i = 1
      OBVIOUS
    <3>2. LowerDN(h)[1] = h[1]
      BY <1>2, <2>1, <2>2, <3>1
    <3>. QED  BY <3>1, <3>2
  <2>4. LowerDN(h) = h
    BY <2>1, <2>2, <2>3, SameDN
  <2>. QED  BY <1>4, <2>1, <2>4
<1>. QED  BY <1>3, <1>4

\* The DN of an account in lower case is that of its parts over the base.
AccountParts(u, h) ==
    LowerDN(<<Rdn(cfg.nameFormat, u.name), Rdn(cfg.groupFormat, GroupName(u.gid))>> \o h)

LEMMA AccountOf ==
  ASSUME cfg \in Configs, NEW j \in DOMAIN cfg.users, NEW h \in {<<>>, OuGroups, OuUsers}
  PROVE  LET u == cfg.users[j]
             parts == AccountParts(u, h) IN
         /\ AccountDN(u, h) \in DN /\ parts \in DN
         /\ LowerDN(AccountDN(u, h)) = parts \o Base
         /\ Head(AccountDN(u, h)) = Rdn(cfg.nameFormat, u.name)
         /\ Len(parts) = 2 + Len(h)
         /\ parts[1] = Rdn(cfg.nameFormat, LowerValue(u.name))
         /\ parts[2] = Rdn(cfg.groupFormat, LowerValue(GroupName(u.gid)))
         /\ h # <<>> => parts[3] = h[1]
<1>. DEFINE u == cfg.users[j]
            one == Rdn(cfg.nameFormat, u.name)
            two == Rdn(cfg.groupFormat, GroupName(u.gid))
            dn == <<one, two>> \o h
            R == [a : Attributes, v : Names]
<1>1. one \in R /\ two \in R
  BY Configured, GroupNamed DEF Rdn
<1>2. /\ h \in Seq(R) /\ h \in DN /\ LowerDN(h) = h /\ Len(h) \in Nat
      /\ Len(h) = IF h = <<>> THEN 0 ELSE 1
  BY NodeOf DEF DN
<1>3. /\ cfg.baseDN \in Seq(R) /\ cfg.baseDN \in DN /\ LowerDN(cfg.baseDN) = Base
      /\ Len(cfg.baseDN) \in Nat
  BY Configured DEF DN, Base
<1>4. AccountDN(u, h) = dn \o cfg.baseDN /\ AccountParts(u, h) = LowerDN(dn)
  BY DEF AccountDN, AccountParts
<1>5. /\ dn \in Seq(R) /\ Len(dn) = 2 + Len(h)
      /\ dn[1] = one /\ dn[2] = two
      /\ \A i \in 1 .. Len(h) : dn[2 + i] = h[i]
  <2>. HIDE DEF one, two, R
  <2>. QED  BY <1>1, <1>2, PairBefore
<1>6. dn \in DN
  BY <1>5 DEF DN
<1>. HIDE DEF dn
<1>7. AccountDN(u, h) \in DN /\ LowerDN(AccountDN(u, h)) = LowerDN(dn) \o Base
  BY <1>3, <1>4, <1>6, LowerConcat
<1>8. Head(AccountDN(u, h)) = one
  <2>. HIDE DEF one, two, R
  <2>1. dn \in Seq(R) /\ cfg.baseDN \in Seq(R) /\ Len(dn) \in Nat /\ Len(dn) >= 1
        /\ 1 \in 1 .. Len(dn)
    BY <1>2, <1>3, <1>5
  <2>2. \A i \in 1 .. Len(dn) : (dn \o cfg.baseDN)[i] = dn[i]
    BY <2>1, ConcatAt
  <2>3. Head(dn \o cfg.baseDN) = (dn \o cfg.baseDN)[1]
    BY <2>1
  <2>. QED  BY <1>4, <1>5, <2>1, <2>2, <2>3
<1>9. /\ LowerDN(dn) \in DN /\ Len(LowerDN(dn)) = Len(dn)
      /\ \A i \in 1 .. Len(dn) : LowerDN(dn)[i] = Rdn(dn[i].a, LowerValue(dn[i].v))
  BY <1>6, LowerAt
<1>10. LowerDN(dn)[1] = Rdn(cfg.nameFormat, LowerValue(u.name))
       /\ LowerDN(dn)[2] = Rdn(cfg.groupFormat, LowerValue(GroupName(u.gid)))
  <2>1. 1 \in 1 .. Len(dn) /\ 2 \in 1 .. Len(dn)
    <3>. HIDE DEF one, two, R
    <3>. QED  BY <1>2, <1>5
  <2>2. LowerDN(dn)[1] = Rdn(one.a, LowerValue(one.v))
        /\ LowerDN(dn)[2] = Rdn(two.a, LowerValue(two.v))
    <3>. HIDE DEF one, two, R
    <3>. QED  BY <1>5, <1>9, <2>1
  <2>3. /\ one.a = cfg.nameFormat /\ one.v = u.name
        /\ two.a = cfg.groupFormat /\ two.v = GroupName(u.gid)
    BY DEF Rdn
  <2>. QED  BY <2>2, <2>3
<1>11. ASSUME h # <<>> PROVE LowerDN(dn)[3] = h[1]
  <2>. HIDE DEF one, two, R
  <2>1. Len(h) = 1 /\ 1 \in 1 .. Len(h) /\ 3 \in 1 .. Len(dn)
    BY <1>2, <1>5, <1>11
  <2>2. dn[2 + 1] = h[1]
    BY <1>5, <2>1
  <2>3. LowerDN(dn)[3] = Rdn(h[1].a, LowerValue(h[1].v))
    BY <1>9, <2>1, <2>2
  <2>4. LowerDN(h)[1] = Rdn(h[1].a, LowerValue(h[1].v))
    BY <1>2, <2>1, LowerAt
  <2>. QED  BY <1>2, <2>3, <2>4
<1>. HIDE DEF one, two
<1>12. Len(LowerDN(dn)) = 2 + Len(h)
  BY <1>5, <1>9
<1>. QED  BY <1>4, <1>7, <1>8, <1>9, <1>10, <1>11, <1>12 DEF one

\* And so is that of a group.
GroupParts(g, h) == LowerDN(<<Rdn(cfg.groupFormat, g.name)>> \o h)

LEMMA GroupOf ==
  ASSUME cfg \in Configs, NEW k \in DOMAIN cfg.groups, NEW h \in {<<>>, OuGroups, OuUsers}
  PROVE  LET g == cfg.groups[k]
             parts == GroupParts(g, h) IN
         /\ GroupDN(g, h) \in DN /\ parts \in DN
         /\ LowerDN(GroupDN(g, h)) = parts \o Base
         /\ Len(parts) = 1 + Len(h)
         /\ h # <<>> => parts[2] = h[1]
<1>. DEFINE g == cfg.groups[k]
            one == Rdn(cfg.groupFormat, g.name)
            dn == <<one>> \o h
            R == [a : Attributes, v : Names]
<1>1. one \in R
  BY Configured DEF Rdn
<1>2. /\ h \in Seq(R) /\ h \in DN /\ LowerDN(h) = h /\ Len(h) \in Nat
      /\ Len(h) = IF h = <<>> THEN 0 ELSE 1
  BY NodeOf DEF DN
<1>3. /\ cfg.baseDN \in DN /\ LowerDN(cfg.baseDN) = Base
  BY Configured DEF Base
<1>4. GroupDN(g, h) = dn \o cfg.baseDN /\ GroupParts(g, h) = LowerDN(dn)
  BY DEF GroupDN, GroupParts
<1>5. /\ dn \in Seq(R) /\ Len(dn) = 1 + Len(h)
      /\ \A i \in 1 .. Len(h) : dn[1 + i] = h[i]
  <2>. HIDE DEF one, R
  <2>. QED  BY <1>1, <1>2, OneBefore
<1>6. dn \in DN
  BY <1>5 DEF DN
<1>. HIDE DEF dn
<1>7. GroupDN(g, h) \in DN /\ LowerDN(GroupDN(g, h)) = LowerDN(dn) \o Base
  BY <1>3, <1>4, <1>6, LowerConcat
<1>9. /\ LowerDN(dn) \in DN /\ Len(LowerDN(dn)) = Len(dn)
      /\ \A i \in 1 .. Len(dn) : LowerDN(dn)[i] = Rdn(dn[i].a, LowerValue(dn[i].v))
  BY <1>6, LowerAt
<1>. HIDE DEF one, R
<1>11. ASSUME h # <<>> PROVE LowerDN(dn)[2] = h[1]
  <2>1. Len(h) = 1 /\ 1 \in 1 .. Len(h) /\ 2 \in 1 .. Len(dn)
    BY <1>2, <1>5, <1>11
  <2>2. dn[1 + 1] = h[1]
    BY <1>5, <2>1
  <2>3. LowerDN(dn)[2] = Rdn(h[1].a, LowerValue(h[1].v))
    BY <1>9, <2>1, <2>2
  <2>4. LowerDN(h)[1] = Rdn(h[1].a, LowerValue(h[1].v))
    BY <1>2, <2>1, LowerAt
  <2>. QED  BY <1>2, <2>3, <2>4
<1>12. Len(LowerDN(dn)) = 1 + Len(h)
  BY <1>5, <1>9
<1>. QED  BY <1>4, <1>7, <1>9, <1>11, <1>12

LEMMA LowerOfBlank == LowerValue(Blank) = Blank
  BY LowerOfKept DEF Blank

\* The group part of a listed account is a group that findUser knows it is in.
LEMMA ListedInGroup ==
  ASSUME cfg \in Configs, Unique(cfg.groups), NEW j \in DOMAIN cfg.users
  PROVE  InGroup(j, LowerValue(GroupName(cfg.users[j].gid)))
<1>. DEFINE gid == cfg.users[j].gid
            name == GroupName(gid)
<1>1. name = Blank \/ \E k \in DOMAIN cfg.groups : cfg.groups[k].gid = gid
                                                    /\ name = cfg.groups[k].name
  BY GroupNamed
<1>. HIDE DEF name
<1>2. CASE name = Blank
  <2>1. LowerValue(name) = Blank
    BY <1>2, LowerOfBlank
  <2>2. InGroup(j, LowerValue(name))
    BY <2>1 DEF InGroup, Blank
  <2>. QED  BY <2>2 DEF name
<1>3. ASSUME NEW k \in DOMAIN cfg.groups, cfg.groups[k].gid = gid, name = cfg.groups[k].name
      PROVE  InGroup(j, LowerValue(name))
  <2>1. FindGroup(LowerValue(name)) = k /\ k # 0
    BY <1>3, GroupFoundAgain, Configured
  <2>. QED  BY <1>3, <2>1 DEF InGroup
<1>. QED  BY <1>1, <1>2, <1>3 DEF name

\* findUser leads the DN of a listed account back to it.
LEMMA BindsAs ==
  ASSUME cfg \in Configs, Unique(cfg.users), Unique(cfg.groups), cfg.groupFormat = "ou",
         NEW j \in DOMAIN cfg.users, NEW h \in {<<>>, OuUsers}
  PROVE  UserOf(ByDN(AccountDN(cfg.users[j], h)), TRUE)
           = IF cfg.sql /\ cfg.users[j].disabled THEN 0 ELSE j
<1>. DEFINE u == cfg.users[j]
            listed == AccountDN(u, h)
            parts == AccountParts(u, h)
            found == IF cfg.sql /\ u.disabled THEN 0 ELSE j
            group == LowerValue(GroupName(u.gid))
<1>1. /\ parts \in DN /\ LowerDN(listed) = parts \o Base
      /\ Len(parts) = 2 + Len(h)
      /\ parts[1] = Rdn(cfg.nameFormat, LowerValue(u.name))
      /\ parts[2] = Rdn(cfg.groupFormat, group)
      /\ h # <<>> => parts[3] = h[1]
  BY AccountOf
<1>2. /\ Len(h) = IF h = <<>> THEN 0 ELSE 1
      /\ h = OuUsers => h[1] = Rdn("ou", "users")
  BY NodeOf
<1>3. InGroup(j, group)
  BY ListedInGroup
<1>4. FindUser(LowerValue(u.name)) = found
  BY UserFoundAgain
<1>. HIDE DEF parts, listed, found, group, u
<1>5. Above(parts \o Base) = parts /\ IsStrictSuffix(Base, parts \o Base)
  <2>1. Len(parts) # 0
    BY <1>1, <1>2
  <2>. QED  BY <1>1, <2>1, AboveOf
<1>6. NameIn(parts[1], cfg.nameFormat) = LowerValue(u.name)
      /\ NameIn(parts[2], cfg.groupFormat) = group
  BY <1>1 DEF NameIn, Rdn
<1>7. WellFormed(parts) /\ Len(parts) # 1
  <2>1. CASE h = <<>>
    <3>1. Len(parts) = 2
      BY <1>1, <1>2, <2>1
    <3>. QED  BY <3>1 DEF WellFormed
  <2>2. CASE h # <<>>
    <3>1. Len(parts) = 3
      BY <1>1, <1>2, <2>2
    <3>2. parts[3] = Rdn(cfg.groupFormat, "users")
      BY <1>1, <1>2, <2>2
    <3>. QED  BY <3>1, <3>2 DEF WellFormed
  <2>. QED  BY <2>1, <2>2
<1>8. GroupPart(parts) = group
  BY <1>6, <1>7 DEF GroupPart
<1>9. found = 0 \/ found = j
  BY DEF found
<1>10. UserOf(ByDN(listed), TRUE) = found
  <2>1. ByDN(listed).dn = listed /\ ByDN(listed).mail = None
    BY DEF ByDN
  <2>2. found # 0 => InGroup(found, GroupPart(parts))
    BY <1>3, <1>8, <1>9
  <2>. QED  BY <1>1, <1>4, <1>5, <1>6, <1>7, <2>1, <2>2 DEF UserOf
<1>. QED  BY <1>10 DEF listed, found, u

\* Where the entries of the tree come from.
LEMMA Kinds ==
  ASSUME NEW req, NEW fails, NEW e \in TreeEntries(req, fails)
  PROVE  \/ e \in {Node(Base), Node(OuGroups \o Base), Node(OuUsers \o Base)}
         \/ \E h \in {OuGroups, OuUsers} : e \in FindPosixGroups(h)
         \/ \E h \in {<<>>, OuUsers} : e \in FindPosixAccounts(h)
<1>. DEFINE ok(x) == \/ x \in {Node(Base), Node(OuGroups \o Base), Node(OuUsers \o Base)}
                     \/ \E h \in {OuGroups, OuUsers} : x \in FindPosixGroups(h)
                     \/ \E h \in {<<>>, OuUsers} : x \in FindPosixAccounts(h)
            base == LowerDN(req.base)
            hier == Hierarchy(base, req.filter)
<1>1. /\ \A h \in {<<>>, OuUsers} : \A x \in FindPosixAccounts(h) : ok(x)
      /\ \A h \in {OuGroups, OuUsers} : \A x \in FindPosixGroups(h) : ok(x)
      /\ ok(Node(Base)) /\ ok(Node(OuGroups \o Base)) /\ ok(Node(OuUsers \o Base))
  OBVIOUS
<1>2. hier \in {<<>>, OuGroups, OuUsers}
  BY DEF Hierarchy
<1>3. \/ base = Base /\ e \in TopLevelNodes(base, req.scope, fails)
      \/ base = OuGroups \o Base /\ e \in TopLevelGroupsNode(base, req.scope, fails)
      \/ base = OuUsers \o Base /\ e \in TopLevelUsersNode(base, req.scope, fails)
      \/ hier # <<>> /\ e \in PosixGroups(base, req.scope, hier, fails)
      \/ e \in PosixAccounts(base, fails)
  BY DEF TreeEntries
<1>. HIDE DEF ok, hier, base
<1>4. \A scope, x :
        /\ x \in TopLevelNodes(Base, scope, fails) => ok(x)
        /\ x \in TopLevelGroupsNode(OuGroups \o Base, scope, fails) => ok(x)
        /\ x \in TopLevelUsersNode(OuUsers \o Base, scope, fails) => ok(x)
  BY <1>1 DEF TopLevelNodes, TopLevelGroupsNode, TopLevelUsersNode, Itself, Read
<1>5. \A scope, x : hier # <<>> /\ x \in PosixGroups(base, scope, hier, fails) => ok(x)
  BY <1>1, <1>2 DEF PosixGroups, Under, Read
<1>6. \A x : x \in PosixAccounts(base, fails) => ok(x)
  BY <1>1 DEF PosixAccounts, Read
<1>7. ok(e)
  BY <1>3, <1>4, <1>5, <1>6
<1>. QED  BY <1>7 DEF ok

LEMMA AccountsFrom ==
  ASSUME NEW req, NEW fails, NEW e \in TreeEntries(req, fails), e.class = "posixaccount"
  PROVE  \E h \in {<<>>, OuUsers} : e \in FindPosixAccounts(h)
<1>1. \A dn : Node(dn).class # "posixaccount"
  BY EntryFields DEF Node
<1>2. \A h : \A x \in FindPosixGroups(h) : x.class # "posixaccount"
  BY Groups DEF GroupClass
<1>. QED  BY <1>1, <1>2, Kinds

LEMMA UsersAt ==
  ASSUME cfg \in Configs, NEW u \in ToSet(cfg.users)
  PROVE  \E j \in DOMAIN cfg.users : u = cfg.users[j]
  BY DEF ToSet

LEMMA GroupsAt ==
  ASSUME cfg \in Configs, NEW g \in ToSet(cfg.groups)
  PROVE  \E k \in DOMAIN cfg.groups : g = cfg.groups[k]
  BY DEF ToSet

\* What a search shows of the tree is in what it found of the tree.
LEMMA ShownOfTree ==
  ASSUME SearchInv, Answered, NEW e \in answer.seen, OfTree(e)
  PROVE  /\ LowerDN(answer.req.base) \notin {<<>>, Schema}
         /\ e \in TreeEntries(answer.req, answer.fails)
<1>1. LowerDN(answer.req.base) \notin {<<>>, Schema}
  BY SeenOfTree
<1>2. e \in Through(answer.req, TreeEntries(answer.req, answer.fails))
  BY <1>1, SeenOfTree
<1>. QED  BY <1>1, <1>2 DEF Through

LEMMA AccountsBind == SearchInv => ListedAccountsCanBind
<1>. SUFFICES ASSUME SearchInv, Answered, Unique(cfg.users), Unique(cfg.groups),
                     cfg.groupFormat = "ou",
                     NEW e \in answer.seen, e.class = "posixaccount"
              PROVE  LET i == UserOf(ByDN(e.dn), TRUE) IN
                     \/ i # 0 /\ cfg.users[i].name = Head(e.dn).v
                     \/ /\ cfg.sql
                        /\ \E u \in ToSet(cfg.users) : u.disabled /\ u.name = Head(e.dn).v
  BY DEF ListedAccountsCanBind
<1>1. cfg \in Configs
  BY DEF SearchInv
<1>2. e \in TreeEntries(answer.req, answer.fails)
  BY ShownOfTree DEF OfTree
<1>3. PICK h \in {<<>>, OuUsers} : e \in FindPosixAccounts(h)
  BY <1>2, AccountsFrom
<1>4. PICK u \in ToSet(cfg.users) : e.dn = AccountDN(u, h)
  BY <1>3, Accounts
<1>5. PICK j \in DOMAIN cfg.users : u = cfg.users[j]
  BY <1>1, UsersAt
<1>6. Head(e.dn) = Rdn(cfg.nameFormat, u.name)
  <2>. HIDE DEF OuUsers
  <2>1. h \in {<<>>, OuGroups, OuUsers}
    OBVIOUS
  <2>. QED  BY <1>1, <1>4, <1>5, <2>1, AccountOf
<1>7. Head(e.dn).v = u.name
  BY <1>6 DEF Rdn
<1>8. UserOf(ByDN(e.dn), TRUE) = IF cfg.sql /\ u.disabled THEN 0 ELSE j
  BY <1>1, <1>4, <1>5, BindsAs
<1>9. j # 0
  BY <1>1, Configured
<1>. QED  BY <1>5, <1>7, <1>8, <1>9

\* Every account that is listed can bind as itself, in any configuration with
\* distinct names and the usual format of group names.
THEOREM EveryAccountBinds == Spec => []ListedAccountsCanBind
  BY SearchAlways, AccountsBind, PTL

-----------------------------------------------------------------------------
(* Entries as they are looked up.                                          *)

\* No group is named like a node that its accounts could be taken for.
PlainGroupNames ==
    cfg.groupFormat = "ou" =>
        \A g \in ToSet(cfg.groups) : LowerValue(g.name) \notin {"groups", "users"}

LEMMA SecondOf ==
  ASSUME NEW S, NEW s \in Seq(S), Len(s) >= 2
  PROVE  SubSeq(s, 2, 2) = <<s[2]>>
<1>1. s[2] \in S
  BY ElementOfSeq
<1>2. /\ SubSeq(s, 2, 2) \in Seq(S) /\ Len(SubSeq(s, 2, 2)) = 1
      /\ SubSeq(s, 2, 2)[1] = s[2]
  OBVIOUS
<1>. DEFINE one == SubSeq(s, 2, 2)
            two == <<s[2]>>
<1>3. two \in Seq(S) /\ Len(two) = 1 /\ two[1] = s[2]
  BY <1>1
<1>. HIDE DEF two, one
<1>4. one \in Seq(S) /\ Len(one) = 1 /\ one[1] = s[2]
  BY <1>2 DEF one
<1>5. one = two
  <2>1. \A i \in 1 .. Len(one) : one[i] = two[i]
    BY <1>3, <1>4
  <2>. QED  BY <1>3, <1>4, <2>1, SeqEqual
<1>. QED  BY <1>5 DEF one, two

LEMMA SuffixOfItself ==
  ASSUME NEW x \in DN
  PROVE  IsSuffix(x, x)
<1>1. x \in Seq([a : Attributes, v : Names]) /\ Len(x) \in Nat
  BY DEF DN
<1>2. Len(x) <= Len(x) /\ \A i \in 1 .. Len(x) : x[i] = x[(Len(x) - Len(x)) + i]
  BY <1>1
<1>. QED  BY <1>1, <1>2, SuffixAt

\* A base search for a DN in lower case.
Lookup(dn) == [base |-> dn, scope |-> "base", filter |-> Blank]

LEMMA LookedUp ==
  ASSUME NEW e, LowerDN(e.dn) = e.dn
  PROVE  /\ e \in Seen(Lookup(e.dn)) <=> e \in TreeEntries(Lookup(e.dn), {})
         /\ LET h == Hierarchy(e.dn, Blank) IN
            TreeEntries(Lookup(e.dn), {}) =
              IF e.dn = Base THEN TopLevelNodes(e.dn, "base", {})
              ELSE IF e.dn = OuGroups \o Base THEN TopLevelGroupsNode(e.dn, "base", {})
              ELSE IF e.dn = OuUsers \o Base THEN TopLevelUsersNode(e.dn, "base", {})
              ELSE IF h # <<>> THEN PosixGroups(e.dn, "base", h, {})
              ELSE PosixAccounts(e.dn, {})
<1>. DEFINE look == Lookup(e.dn)
<1>1. look.base = e.dn /\ look.scope = "base" /\ look.filter = Blank
  BY DEF Lookup
<1>2. Blank \in Accountable
  BY DEF Accountable, Blank
<1>. HIDE DEF look
<1>3. Passes(e, look)
  <2>1. look.filter \in {Blank, e.class}
    BY <1>1
  <2>. QED  BY <1>1, <2>1 DEF Passes, Blank
<1>4. e \in Seen(look) <=> e \in TreeEntries(look, {})
  BY <1>3 DEF Seen, Through
<1>5. LET h == Hierarchy(e.dn, Blank) IN
      TreeEntries(look, {}) =
        IF e.dn = Base THEN TopLevelNodes(e.dn, "base", {})
        ELSE IF e.dn = OuGroups \o Base THEN TopLevelGroupsNode(e.dn, "base", {})
        ELSE IF e.dn = OuUsers \o Base THEN TopLevelUsersNode(e.dn, "base", {})
        ELSE IF h # <<>> THEN PosixGroups(e.dn, "base", h, {})
        ELSE PosixAccounts(e.dn, {})
  BY <1>1, <1>2, TreeOf
<1>. QED  BY <1>4, <1>5 DEF look

\* What stands above the base in lower case decides the stage.
LEMMA StageOf ==
  ASSUME cfg \in Configs, NEW x \in DN, Len(x) >= 2
  PROVE  LET base == x \o Base IN
         /\ base # Base /\ base # OuGroups \o Base /\ base # OuUsers \o Base
         /\ Hierarchy(base, Blank) =
              IF Len(x) = 2 /\ <<x[2]>> \in {OuGroups, OuUsers} THEN <<x[2]>> ELSE <<>>
         /\ IsSuffix(base, base)
<1>. DEFINE base == x \o Base
            R == [a : Attributes, v : Names]
<1>1. x \in Seq(R) /\ Base \in Seq(R) /\ Len(Base) \in Nat /\ Base \in DN /\ Len(x) \in Nat
  BY Configured DEF DN
<1>2. base \in Seq(R) /\ Len(base) = Len(x) + Len(Base) /\ Above(base) = x
  BY <1>1, ConcatOf, AboveOf
<1>3. base \in DN
  BY <1>2 DEF DN
<1>4. base[2] = x[2]
  <2>1. 2 \in 1 .. Len(x)
    BY <1>1
  <2>. HIDE DEF R
  <2>. QED  BY <1>1, <2>1, ConcatAt
<1>. HIDE DEF base, R
<1>5. base # Base /\ base # OuGroups \o Base /\ base # OuUsers \o Base
  <2>1. /\ Len(OuGroups \o Base) = Len(Base) + 1
        /\ Len(OuUsers \o Base) = Len(Base) + 1
    BY NodesDiffer
  <2>2. Len(base) # Len(Base) /\ Len(base) # Len(Base) + 1
    BY <1>1, <1>2
  <2>. QED  BY <2>1, <2>2
<1>6. SubSeq(base, 2, 2) = <<x[2]>>
  <2>1. Len(base) >= 2
    BY <1>1, <1>2
  <2>. QED  BY <1>2, <1>4, <2>1, SecondOf
<1>7. Hierarchy(base, Blank) =
        IF Len(x) = 2 /\ <<x[2]>> \in {OuGroups, OuUsers} THEN <<x[2]>> ELSE <<>>
  <2>1. Blank # "posixgroup"
    BY DEF Blank
  <2>2. <<>> \notin {OuGroups, OuUsers}
    BY DEF OuGroups, OuUsers
  <2>. HIDE DEF OuGroups, OuUsers
  <2>. QED  BY <1>2, <1>6, <2>1, <2>2 DEF Hierarchy
<1>. QED  BY <1>3, <1>5, <1>7, SuffixOfItself DEF base

LEMMA NodesLookedUp ==
  ASSUME cfg \in Configs, NEW e, LowerDN(e.dn) = e.dn,
         e \in {Node(Base), Node(OuGroups \o Base), Node(OuUsers \o Base)}
  PROVE  e \in TreeEntries(Lookup(e.dn), {})
<1>1. e = Node(e.dn) /\ e.dn \in {Base, OuGroups \o Base, OuUsers \o Base}
  <2>1. \A dn : Node(dn).dn = dn
    BY EntryFields DEF Node
  <2>. QED  BY <2>1
<1>2. \A dn : Node(dn) \in Itself(dn, "base")
  BY DEF Itself
<1>3. /\ \A dn : Node(dn) \in TopLevelNodes(dn, "base", {})
      /\ \A dn : Node(dn) \in TopLevelGroupsNode(dn, "base", {})
      /\ \A dn : Node(dn) \in TopLevelUsersNode(dn, "base", {})
  BY <1>2 DEF TopLevelNodes, TopLevelGroupsNode, TopLevelUsersNode
<1>. QED  BY <1>1, <1>3, LookedUp

LEMMA NodesNotEmpty == <<>> \notin {OuGroups, OuUsers}
  BY DEF OuGroups, OuUsers

LEMMA GroupsLookedUp ==
  ASSUME cfg \in Configs, NEW e, LowerDN(e.dn) = e.dn,
         NEW h \in {OuGroups, OuUsers}, e \in FindPosixGroups(h)
  PROVE  e \in TreeEntries(Lookup(e.dn), {})
<1>1. PICK k \in DOMAIN cfg.groups : e.dn = GroupDN(cfg.groups[k], h)
  BY Groups, GroupsAt
<1>. DEFINE parts == GroupParts(cfg.groups[k], h)
<1>2. parts \in DN /\ e.dn = parts \o Base /\ Len(parts) = 2 /\ <<parts[2]>> = h
  <2>1. h \in {<<>>, OuGroups, OuUsers} /\ h # <<>>
    BY NodesNotEmpty
  <2>2. /\ parts \in DN /\ LowerDN(e.dn) = parts \o Base /\ Len(parts) = 1 + Len(h)
        /\ parts[2] = h[1]
    <3>. HIDE DEF OuGroups, OuUsers
    <3>. QED  BY <1>1, <2>1, GroupOf
  <2>3. Len(h) = 1
    BY <2>1, NodeOf
  <2>4. <<h[1]>> = h
    BY DEF OuGroups, OuUsers
  <2>. HIDE DEF parts
  <2>. QED  BY <2>2, <2>3, <2>4
<1>. HIDE DEF parts
<1>3. /\ e.dn # Base /\ e.dn # OuGroups \o Base /\ e.dn # OuUsers \o Base
      /\ Hierarchy(e.dn, Blank) = h /\ h # <<>>
      /\ IsSuffix(e.dn, e.dn)
  <2>1. h # <<>>
    BY NodesNotEmpty
  <2>2. Len(parts) >= 2
    BY <1>2
  <2>. DEFINE base == parts \o Base
  <2>3. /\ base # Base /\ base # OuGroups \o Base /\ base # OuUsers \o Base
        /\ Hierarchy(base, Blank) =
             IF Len(parts) = 2 /\ <<parts[2]>> \in {OuGroups, OuUsers} THEN <<parts[2]>> ELSE <<>>
        /\ IsSuffix(base, base)
    BY <1>2, <2>2, StageOf
  <2>. HIDE DEF base
  <2>4. e.dn = base
    BY <1>2 DEF base
  <2>. QED  BY <1>2, <2>1, <2>3, <2>4
<1>4. e \in PosixGroups(e.dn, "base", h, {})
  BY <1>3 DEF PosixGroups, Under, Read
<1>. QED  BY <1>3, <1>4, LookedUp

\* With plain names, the part of an account's DN that names its group is no node.
LEMMA GroupPartIsNoNode ==
  ASSUME cfg \in Configs, PlainGroupNames, NEW gid
  PROVE  LET part == Rdn(cfg.groupFormat, LowerValue(GroupName(gid))) IN
         part # Rdn("ou", "groups") /\ part # Rdn("ou", "users")
<1>. SUFFICES ASSUME cfg.groupFormat = "ou"
              PROVE  LowerValue(GroupName(gid)) \notin {"groups", "users"}
  BY DEF Rdn
<1>1. Blank \notin {"groups", "users"}
  BY DEF Blank
<1>2. CASE GroupName(gid) = Blank
  BY <1>1, <1>2, LowerOfBlank
<1>3. ASSUME NEW k \in DOMAIN cfg.groups, GroupName(gid) = cfg.groups[k].name
      PROVE  LowerValue(GroupName(gid)) \notin {"groups", "users"}
  <2>1. cfg.groups[k] \in ToSet(cfg.groups)
    BY DEF ToSet
  <2>. QED  BY <1>3, <2>1 DEF PlainGroupNames
<1>. QED  BY <1>2, <1>3, GroupNamed

LEMMA AccountsLookedUp ==
  ASSUME cfg \in Configs, PlainGroupNames, NEW e, LowerDN(e.dn) = e.dn,
         NEW h \in {<<>>, OuUsers}, e \in FindPosixAccounts(h)
  PROVE  e \in TreeEntries(Lookup(e.dn), {})
<1>1. PICK j \in DOMAIN cfg.users : e.dn = AccountDN(cfg.users[j], h)
  BY Accounts, UsersAt
<1>. DEFINE parts == AccountParts(cfg.users[j], h)
            R == [a : Attributes, v : Names]
<1>2. /\ parts \in DN /\ e.dn = parts \o Base /\ Len(parts) = 2 + Len(h)
      /\ parts[2] = Rdn(cfg.groupFormat, LowerValue(GroupName(cfg.users[j].gid)))
      /\ h # <<>> => parts[3] = h[1]
  BY <1>1, AccountOf
<1>3. Len(h) = IF h = <<>> THEN 0 ELSE 1
  BY NodeOf
<1>4. parts[2] # Rdn("ou", "groups") /\ parts[2] # Rdn("ou", "users")
  BY <1>2, GroupPartIsNoNode
<1>. HIDE DEF parts
<1>5. /\ e.dn # Base /\ e.dn # OuGroups \o Base /\ e.dn # OuUsers \o Base
      /\ Hierarchy(e.dn, Blank) = <<>>
  <2>1. Len(parts) >= 2 /\ (Len(parts) = 2 <=> h = <<>>)
    BY <1>2, <1>3
  <2>2. <<parts[2]>> \notin {OuGroups, OuUsers}
    BY <1>4 DEF OuGroups, OuUsers
  <2>. HIDE DEF OuGroups, OuUsers
  <2>. QED  BY <1>2, <2>1, <2>2, StageOf
<1>6. /\ Base \in Seq(R) /\ Len(Base) \in Nat /\ parts \in Seq(R) /\ Len(parts) \in Nat
      /\ OuUsers \o Base \in Seq(R) /\ Len(OuUsers \o Base) = Len(Base) + 1
      /\ (OuUsers \o Base)[1] = Rdn("ou", "users")
      /\ e.dn \in Seq(R) /\ Len(e.dn) = Len(parts) + Len(Base)
  BY <1>2, Configured, NodesDiffer, ConcatOf DEF DN
<1>7. IsSuffix(OuUsers \o Base, e.dn) <=> h = OuUsers
  <2>. DEFINE node == OuUsers \o Base
              b == Len(Base) + 1
              d == Len(parts) + Len(Base)
  <2>0. b \in Nat /\ d \in Nat
    BY <1>6
  <2>1. IsSuffix(node, e.dn) <=> b <= d /\ \A i \in 1 .. b : node[i] = e.dn[(d - b) + i]
    <3>1. node \in Seq(R) /\ e.dn \in Seq(R) /\ Len(node) = b /\ Len(e.dn) = d
      BY <1>6
    <3>. DEFINE w == e.dn
    <3>. HIDE DEF node, b, d, R, w
    <3>2. w \in Seq(R) /\ Len(w) = d
      BY <3>1 DEF w
    <3>3. IsSuffix(node, w) <=>
            /\ Len(node) <= Len(w)
            /\ \A i \in 1 .. Len(node) : node[i] = w[(Len(w) - Len(node)) + i]
      BY <3>1, <3>2, SuffixAt
    <3>. QED  BY <3>1, <3>2, <3>3, Zenon DEF w
  <2>2. CASE h = <<>>
    <3>1. h # OuUsers
      BY <2>2, NodesNotEmpty
    <3>2. 1 \in 1 .. b /\ (d - b) + 1 = 2 /\ 2 \in 1 .. Len(parts)
      BY <1>2, <1>3, <1>6, <2>2
    <3>3. e.dn[2] = parts[2]
      <4>. HIDE DEF R
      <4>. QED  BY <1>2, <1>6, <3>2, ConcatAt
    <3>4. node[1] # e.dn[(d - b) + 1]
      BY <1>4, <1>6, <3>2, <3>3
    <3>. HIDE DEF node, b, d
    <3>. QED  BY <2>1, <3>1, <3>2, <3>4 DEF node
  <2>3. CASE h = OuUsers
    <3>1. Len(parts) = 3 /\ h # <<>> /\ parts[3] = Rdn("ou", "users")
      <4>1. h # <<>> /\ h[1] = Rdn("ou", "users")
        BY <2>3, NodesNotEmpty DEF OuUsers
      <4>. QED  BY <1>2, <1>3, <4>1
    <3>2. b <= d /\ d - b = 2
      BY <1>6, <3>1
    <3>. HIDE DEF R
    <3>3. ASSUME NEW i \in 1 .. b PROVE node[i] = e.dn[(d - b) + i]
      <4>0. (d - b) + i = 2 + i
        BY <1>6, <3>1
      <4>1. CASE i = 1
        <5>1. 3 \in 1 .. Len(parts) /\ 2 + i = 3
          BY <3>1, <4>1
        <5>2. e.dn[3] = parts[3]
          BY <1>2, <1>6, <5>1, ConcatAt
        <5>. QED  BY <1>6, <3>1, <4>0, <4>1, <5>1, <5>2
      <4>2. CASE i # 1
        <5>. DEFINE m == i - 1
        <5>1. m \in 1 .. Len(Base) /\ i = 1 + m /\ 2 + i = 3 + m
          BY <1>6, <4>2
        <5>. HIDE DEF m
        <5>2. (parts \o Base)[Len(parts) + m] = Base[m]
          BY <1>6, <5>1, ConcatAt
        <5>3. OuUsers \in Seq(R) /\ Len(OuUsers) = 1
          BY NodesDiffer DEF DN, R
        <5>4. (OuUsers \o Base)[Len(OuUsers) + m] = Base[m]
          BY <1>6, <5>1, <5>3, ConcatAt
        <5>. QED  BY <1>2, <3>1, <4>0, <5>1, <5>2, <5>3, <5>4
      <4>. QED  BY <4>1, <4>2
    <3>. HIDE DEF node, b, d
    <3>. QED  BY <2>1, <2>3, <3>2, <3>3 DEF node
  <2>. QED  BY <2>2, <2>3
<1>8. e \in PosixAccounts(e.dn, {})
  <2>1. (IF IsSuffix(OuUsers \o Base, e.dn) THEN OuUsers ELSE <<>>) = h
    BY <1>7
  <2>. QED  BY <2>1 DEF PosixAccounts, Read
<1>. QED  BY <1>5, <1>8, LookedUp

LEMMA CanBeLookedUp == SearchInv /\ PlainGroupNames => EntriesCanBeLookedUp
<1>. SUFFICES ASSUME SearchInv, PlainGroupNames, Answered,
                     NEW e \in answer.seen, OfTree(e), LowerDN(e.dn) = e.dn
              PROVE  e \in Seen(Lookup(e.dn))
  BY DEF EntriesCanBeLookedUp, Lookup, Blank
<1>1. cfg \in Configs /\ e \in TreeEntries(answer.req, answer.fails)
  BY ShownOfTree DEF SearchInv
<1>2. e \in TreeEntries(Lookup(e.dn), {})
  BY <1>1, Kinds, NodesLookedUp, GroupsLookedUp, AccountsLookedUp
<1>. QED  BY <1>2, LookedUp

\* Every entry that a search shows is found again by its DN, unless a group is
\* named like one of the two nodes.
THEOREM EntriesLookedUp == Spec => [](PlainGroupNames => EntriesCanBeLookedUp)
<1>1. SearchInv => (PlainGroupNames => EntriesCanBeLookedUp)
  BY CanBeLookedUp
<1>. QED  BY <1>1, SearchAlways, PTL

===============================================================================
