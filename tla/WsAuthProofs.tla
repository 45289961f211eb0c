---------------------------- MODULE WsAuthProofs ----------------------------
(***************************************************************************)
(* WsAuth admits exactly those it should, for every width of the integers, *)
(* every set of arguments, tokens and secrets, and every time.             *)
(***************************************************************************)
EXTENDS WsAuth, TLAPS

USE NumberAssumption, NameAssumption, ArgsAssumption
    DEF NumberAssumption, NameAssumption, ArgsAssumption

\* At the ends of the range of times, saturation changes no comparison with a
\* time of the range.
LEMMA SaturationIsExact ==
  ASSUME NEW n \in Time, NEW skew \in Nat, NEW time \in Time
  PROVE  /\ time > SaturatingAdd(n, skew) <=> time > n + skew
         /\ time < SaturatingSub(n, skew) <=> time < n - skew
  BY DEF SaturatingAdd, SaturatingSub, Bounded, Time, Least

\* The policy of a server that listens is the one its arguments ask for, made
\* from what the files held when it started.
PolicyIsOfStart ==
  server = "listening" =>
    /\ SettingsValid(args) /\ PolicyValid(args, read)
    /\ policy = Policy(args, read)

IInv ==
  /\ args \in Args
  /\ read \in [token: Content, secret: Content]
  /\ file \in [token: Content, secret: Content]
  /\ now \in 0..MaxTime
  /\ PolicyIsOfStart

LEMMA InitInv == Init => IInv
  BY DEF Init, IInv, PolicyIsOfStart

LEMMA NextInv == IInv /\ [Next]_vars => IInv'
  <1> SUFFICES ASSUME IInv, [Next]_vars PROVE IInv'
    OBVIOUS
  <1> USE DEF IInv, PolicyIsOfStart
  <1>1. CASE Start
    BY <1>1 DEF Start
  <1>2. CASE Rewrite
    BY <1>2 DEF Rewrite
  <1>3. CASE Tick
    BY <1>3 DEF Tick
  <1>4. CASE UNCHANGED vars
    BY <1>4 DEF vars
  <1> QED
    BY <1>1, <1>2, <1>3, <1>4 DEF Next

\* The policy in force is the one that the arguments and the files of the start give.
THEOREM InductiveInvariant == Spec => []IInv
  BY InitInv, NextInv, PTL DEF Spec

-----------------------------------------------------------------------------
(* The three modes.                                                        *)

LEMMA WithoutMode ==
  ASSUME IInv, server = "listening", args.mode = None, NEW h \in Header
  PROVE  Admitted(h) /\ Entitled(h)
  <1>1. SettingsValid(args) /\ policy.mode = None
    BY DEF IInv, PolicyIsOfStart, Policy
  <1>2. ~CapabilityFlags(args) /\ ~SignedFlags(args)
    BY <1>1 DEF SettingsValid
  <1>3. args = NoFlags
    <2>1. args = [mode |-> args.mode, tokenFile |-> args.tokenFile,
                  tokenSha |-> args.tokenSha, secretFile |-> args.secretFile,
                  issuer |-> args.issuer, audience |-> args.audience, skew |-> args.skew]
      BY DEF IInv
    <2>2. args.tokenFile = FALSE /\ args.secretFile = FALSE
      BY <1>2 DEF IInv, CapabilityFlags, SignedFlags
    <2>3. args.tokenSha = None /\ args.issuer = None /\ args.audience = None /\ args.skew = None
      BY <1>2 DEF CapabilityFlags, SignedFlags
    <2> QED
      BY <2>1, <2>2, <2>3, Zenon DEF NoFlags
  <1> QED
    BY <1>1, <1>3 DEF Admitted, AuthorizeUpgrade, Entitled

LEMMA WithCapability ==
  ASSUME IInv, server = "listening", args.mode = "capability", NEW h \in Header
  PROVE  Admitted(h) <=> Entitled(h)
  <1>1. /\ SettingsValid(args) /\ PolicyValid(args, read)
        /\ policy.mode = "capability"
        /\ policy.digest = IF args.tokenFile THEN Digest(read.token) ELSE args.tokenSha
    BY DEF IInv, PolicyIsOfStart, Policy
  <1>2. PICK s \in Secret : /\ policy.digest = Digest(s)
                            /\ args.tokenFile => read.token = s
                            /\ ~args.tokenFile => args.tokenSha = Digest(s)
    <2>1. CASE args.tokenFile
      BY <1>1, <2>1 DEF PolicyValid
    <2>2. CASE ~args.tokenFile
      BY <1>1, <2>2 DEF SettingsValid, IInv
    <2> QED
      BY <2>1, <2>2
  <1>3. \A x, y : Digest(x) = Digest(y) <=> x = y
    BY DEF Digest
  <1>4. Admitted(h) <=> Shown(h, s)
    BY <1>1, <1>2, <1>3 DEF Admitted, AuthorizeUpgrade, Shown
  <1>5. Entitled(h) <=> Shown(h, s)
    BY <1>1, <1>2, <1>3 DEF Entitled, NoFlags, Shown
  <1> QED
    BY <1>4, <1>5

LEMMA WithSignature ==
  ASSUME IInv, server = "listening", args.mode = "signed", NEW h \in Header
  PROVE  Admitted(h) <=> Entitled(h)
  <1> DEFINE skew == SkewOf(args)
  <1>1. /\ SettingsValid(args) /\ PolicyValid(args, read)
        /\ policy.mode = "signed" /\ policy.secret = read.secret /\ policy.skew = skew
        /\ policy.issuer = Normalized(args.issuer)
        /\ policy.audience = Normalized(args.audience)
    BY DEF IInv, PolicyIsOfStart, Policy
  <1>2. skew \in Nat /\ now \in Time
    <2>1. now \in Time
      BY DEF IInv, Time, Least
    <2>2. args.skew \in Skew \cup {None}
      BY DEF IInv
    <2>3. skew \in Nat
      <3>1. CASE args.skew = None
        BY <3>1 DEF SkewOf
      <3>2. CASE args.skew # None
        <4>1. args.skew \in Skew /\ skew = args.skew
          BY <2>2, <3>2 DEF SkewOf
        <4> QED
          BY <4>1
      <3> QED
        BY <3>1, <3>2
    <2> QED
      BY <2>1, <2>3
  <1>3. /\ policy.issuer # None <=> args.issuer \in Name
        /\ policy.issuer # None => policy.issuer = args.issuer
        /\ policy.audience # None <=> args.audience \in Name
        /\ policy.audience # None => policy.audience = args.audience
    BY <1>1 DEF IInv, Normalized
  <1>4. ASSUME NEW jwt \in Jwt
        PROVE  VerifySignedBearerToken(jwt, policy, now) <=>
                 /\ jwt.alg = "HS256" /\ jwt.key = read.secret
                 /\ Current(jwt, skew)
                 /\ args.issuer \in Name => jwt.iss = args.issuer
                 /\ args.audience \in Name => jwt.aud # None /\ args.audience \in jwt.aud
    <2>1. jwt.exp # None => (now > SaturatingAdd(jwt.exp, skew) <=> now > jwt.exp + skew)
      BY <1>2, SaturationIsExact DEF Jwt
    <2>2. jwt.nbf # None => (now < SaturatingSub(jwt.nbf, skew) <=> now < jwt.nbf - skew)
      BY <1>2, SaturationIsExact DEF Jwt
    <2>3. Current(jwt, skew) <=>
            /\ jwt.exp # None /\ ~(now > SaturatingAdd(jwt.exp, skew))
            /\ jwt.nbf # None => ~(now < SaturatingSub(jwt.nbf, skew))
      BY <1>2, <2>1, <2>2 DEF Current, Jwt, Time, Least
    <2> QED
      BY <1>1, <1>3, <2>3 DEF VerifySignedBearerToken, AudienceMatches
  <1>5. Admitted(h) <=> IsBearer(h) /\ VerifySignedBearerToken(h.token, policy, now)
    BY <1>1 DEF Admitted, AuthorizeUpgrade
  <1>6. Entitled(h) <=>
          \E jwt \in Token \cap Jwt :
            /\ IsBearer(h) /\ h.token = jwt
            /\ VerifySignedBearerToken(jwt, policy, now)
    BY <1>4 DEF Entitled, NoFlags, Shown, SkewOf
  <1>7. VerifySignedBearerToken(h.token, policy, now) => h.token \in Token \cap Jwt
    BY DEF VerifySignedBearerToken, Header
  <1> QED
    BY <1>5, <1>6, <1>7

LEMMA Admission ==
  ASSUME IInv, server = "listening", NEW h \in Header
  PROVE  Admitted(h) <=> Entitled(h)
  <1>1. args.mode \in {None, "capability", "signed"}
    BY DEF IInv
  <1> QED
    BY <1>1, WithoutMode, WithCapability, WithSignature

\* auth.rs:117-225, 245-315: nobody enters whom the arguments do not entitle.
THEOREM StrangersStayOut == Spec => []OnlyEntitledEnter
  <1>1. IInv => OnlyEntitledEnter
    BY Admission DEF OnlyEntitledEnter, Admitted
  <1> QED
    BY <1>1, InductiveInvariant, PTL

\* auth.rs:245-315: a server that listens turns nobody away who is entitled.
THEOREM HoldersEnter == Spec => []EntitledMayEnter
  <1>1. IInv => EntitledMayEnter
    BY Admission DEF EntitledMayEnter
  <1> QED
    BY <1>1, InductiveInvariant, PTL

=============================================================================
