------------------------------- MODULE WsAuth -------------------------------
(***************************************************************************)
(* Who may open a WebSocket: from the --ws-* arguments to settings, from   *)
(* settings and secret files to a policy, made once when the server        *)
(* starts, and from the policy and the Authorization header of an upgrade  *)
(* to a verdict, at the time the request arrives.                          *)
(*                                                                         *)
(* Secrets, issuers and audiences are values that are only compared, a     *)
(* digest is a record of what was digested, and times are signed integers  *)
(* of a given width (64 bits in the code) with saturating arithmetic.      *)
(***************************************************************************)
EXTENDS Integers

CONSTANTS
  MaxInt,       \* the largest time; the smallest is -MaxInt - 1
  MaxTime,      \* bound: the clock of the model
  DefaultSkew,  \* DEFAULT_MAX_CLOCK_SKEW_SECONDS
  None,         \* an argument, a claim or a header that is not there
  Blank,        \* a text of white space only
  Unreadable,   \* a file that cannot be read
  NoDigest,     \* an argument that is no SHA-256 digest
  Secret,       \* trimmed contents of secret files
  Long,         \* those of at least MIN_SIGNED_BEARER_SECRET_BYTES
  Name,         \* issuers and audiences
  Skew,         \* values of --ws-max-clock-skew-seconds
  Token,        \* what a header can carry: secrets, JSON web tokens, Blank
  Args          \* arguments the server is started with

Least == -MaxInt - 1
Time == Least..MaxInt
Digest(text) == [sha256 |-> text]

\* A token signed with a key: its algorithm and claims, exp unless it is missing.
Jwt == [key: Secret, alg: {"HS256", "other"}, exp: Time \cup {None},
        nbf: Time \cup {None}, iss: Name \cup {None}, aud: SUBSET Name \cup {None}]

ASSUME NumberAssumption ==
  /\ MaxInt \in Nat \ {0} /\ MaxTime \in 0..MaxInt
  /\ DefaultSkew \in 0..MaxInt
  /\ Skew \subseteq Nat
  /\ None \notin Time

ASSUME NameAssumption ==
  /\ Long \subseteq Secret
  /\ {None, Blank, Unreadable, NoDigest} \cap (Secret \cup Name) = {}
  /\ NoDigest # None /\ Blank # None /\ None \notin {"capability", "signed"}
  /\ Token \subseteq Secret \cup Jwt \cup {Blank}
  /\ Jwt \cap Secret = {} /\ None \notin Jwt /\ Blank \notin Jwt

ASSUME ArgsAssumption ==
  Args \subseteq
    [mode: {None, "capability", "signed"}, tokenFile: BOOLEAN,
     tokenSha: {Digest(s) : s \in Secret} \cup {NoDigest, None}, secretFile: BOOLEAN,
     issuer: Name \cup {Blank, None}, audience: Name \cup {Blank, None},
     skew: Skew \cup {None}]

Content == Secret \cup {Blank, Unreadable}

\* An Authorization header: its form and the text after the scheme.
Header == [form: {"missing", "no text", "no space", "Basic", "Bearer", "bearer"},
           token: Token]

VARIABLES
  args,    \* the arguments of this server
  file,    \* the contents of the token file and of the secret file
  server,  \* "new", "listening", or "failed"
  policy,  \* the policy the listener was given
  read,    \* history: the contents of the files when the server started
  now      \* the clock

vars == <<args, file, server, policy, read, now>>

-----------------------------------------------------------------------------
(* From arguments to a policy.                                             *)

CapabilityFlags(a) == a.tokenFile \/ a.tokenSha # None
SignedFlagsButSkew(a) == a.secretFile \/ a.issuer # None \/ a.audience # None
SignedFlags(a) ==
  a.secretFile \/ a.issuer # None \/ a.audience # None \/ a.skew # None

\* try_into_settings: each mode has flags of its own, and needs some of them.
SettingsValid(a) ==
  \/ a.mode = None /\ ~CapabilityFlags(a) /\ ~SignedFlags(a)
  \/ /\ a.mode = "capability" /\ ~SignedFlags(a)
     /\ (a.tokenFile <=> a.tokenSha = None)
     /\ a.tokenSha # NoDigest
  \/ a.mode = "signed" /\ ~CapabilityFlags(a) /\ a.secretFile

Normalized(name) == IF name = Blank THEN None ELSE name
SkewOf(a) == IF a.skew = None THEN DefaultSkew ELSE a.skew

\* policy_from_settings: the files are read, and a skew must fit into a time.
PolicyValid(a, f) ==
  /\ a.mode = "capability" /\ a.tokenFile => f.token \in Secret
  /\ a.mode = "signed" => f.secret \in Long /\ SkewOf(a) <= MaxInt

Policy(a, f) ==
  [mode     |-> a.mode,
   digest   |-> IF a.tokenFile THEN Digest(f.token) ELSE a.tokenSha,
   secret   |-> f.secret,
   issuer   |-> Normalized(a.issuer),
   audience |-> Normalized(a.audience),
   skew     |-> SkewOf(a)]

-----------------------------------------------------------------------------
(* From a header to a verdict.                                             *)

Bounded(n) == IF n > MaxInt THEN MaxInt ELSE IF n < Least THEN Least ELSE n
WrappingAdd(m, n) == IF m + n > MaxInt THEN m + n - 2 * MaxInt - 2 ELSE m + n
SaturatingAdd(m, n) == Bounded(m + n)
SaturatingSub(m, n) == Bounded(m - n)

AudienceMatches(aud, expected) == aud # None /\ expected \in aud

VerifySignedBearerToken(jwt, p, time) ==
  /\ jwt \in Jwt
  /\ jwt.key = p.secret /\ jwt.alg = "HS256" /\ jwt.exp # None
  /\ ~(time > SaturatingAdd(jwt.exp, p.skew))
  /\ jwt.nbf # None => ~(time < SaturatingSub(jwt.nbf, p.skew))
  /\ p.issuer # None => jwt.iss = p.issuer
  /\ p.audience # None => AudienceMatches(jwt.aud, p.audience)

\* The scheme is compared without regard to case, the token trimmed.
IsBearer(h) == h.form \in {"Bearer", "bearer"} /\ h.token # Blank

AuthorizeUpgrade(h, p, time) ==
  p.mode # None =>
    /\ IsBearer(h)
    /\ p.mode = "capability" => Digest(h.token) = p.digest
    /\ p.mode = "signed" => VerifySignedBearerToken(h.token, p, time)

-----------------------------------------------------------------------------

Init ==
  /\ args \in Args
  /\ file \in [token: Content, secret: Content]
  /\ server = "new" /\ policy = None /\ read = file /\ now = 0

Start ==
  /\ server = "new"
  /\ IF SettingsValid(args) /\ PolicyValid(args, file)
     THEN server' = "listening" /\ policy' = Policy(args, file)
     ELSE server' = "failed" /\ policy' = policy
  /\ read' = file
  /\ UNCHANGED <<args, file, now>>

\* The files change; a server that runs does not look at them again.
Rewrite ==
  /\ server = "listening"
  /\ file' \in [token: Content, secret: Content]
  /\ UNCHANGED <<args, server, policy, read, now>>

Tick ==
  /\ server = "listening" /\ now < MaxTime
  /\ now' = now + 1
  /\ UNCHANGED <<args, file, server, policy, read>>

Next == Start \/ Rewrite \/ Tick

Spec == Init /\ [][Next]_vars

-----------------------------------------------------------------------------
(* Who is entitled to a connection, from the arguments alone: what the     *)
(* operator asked for, with the secrets of the start and exact arithmetic. *)

Shown(h, credential) == IsBearer(h) /\ h.token = credential

Current(jwt, skew) ==
  /\ jwt.exp # None /\ now <= jwt.exp + skew
  /\ jwt.nbf # None => now >= jwt.nbf - skew

NoFlags ==
  [mode |-> None, tokenFile |-> FALSE, tokenSha |-> None, secretFile |-> FALSE,
   issuer |-> None, audience |-> None, skew |-> None]

Entitled(h) ==
  \/ args = NoFlags
  \/ /\ args.mode = "capability"
     /\ \E s \in Secret :
          /\ Shown(h, s)
          /\ IF args.tokenFile THEN read.token = s ELSE args.tokenSha = Digest(s)
  \/ /\ args.mode = "signed"
     /\ \E jwt \in Token \cap Jwt :
          /\ Shown(h, jwt) /\ jwt.alg = "HS256" /\ jwt.key = read.secret
          /\ Current(jwt, IF args.skew = None THEN DefaultSkew ELSE args.skew)
          /\ args.issuer \in Name => jwt.iss = args.issuer
          /\ args.audience \in Name => jwt.aud # None /\ args.audience \in jwt.aud

Admitted(h) == server = "listening" /\ AuthorizeUpgrade(h, policy, now)

\* Nobody enters who is not entitled: no flag of the command line is ignored, no
\* later content of a file counts, and no time is taken for another at the ends
\* of its range.
OnlyEntitledEnter == \A h \in Header : Admitted(h) => Entitled(h)

\* Nobody who is entitled is turned away by a server that listens.
EntitledMayEnter == \A h \in Header : server = "listening" /\ Entitled(h) => Admitted(h)

=============================================================================
