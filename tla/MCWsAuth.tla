------------------------------ MODULE MCWsAuth ------------------------------
(* An instance of WsAuth for TLC.                                          *)
EXTENDS WsAuth

CONSTANTS s1, s2, i1, i2

\* Tokens at the boundaries of expiry and not-before, and one claim off.
Good == [key |-> s1, alg |-> "HS256", exp |-> 1, nbf |-> None, iss |-> i1, aud |-> {i1, i2}]

MCToken ==
  {s1, s2, Blank}
    \cup {[Good EXCEPT !.exp = e, !.nbf = n] : e \in Time \cup {None}, n \in {None, Least, 0, 3}}
    \cup {[Good EXCEPT !.iss = i, !.aud = a] : i \in {i1, i2, None}, a \in {None, {}, {i1}, {i2}}}
    \cup {[Good EXCEPT !.key = s2], [Good EXCEPT !.alg = "other"]}

\* Every combination of flags.
MCArgs ==
  [mode: {None, "capability", "signed"}, tokenFile: BOOLEAN,
   tokenSha: {None, NoDigest, Digest(s1)}, secretFile: BOOLEAN,
   issuer: {None, Blank, i1}, audience: {None, Blank, i1}, skew: Skew \cup {None}]

=============================================================================
