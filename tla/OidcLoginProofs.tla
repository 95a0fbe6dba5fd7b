--------------------------- MODULE OidcLoginProofs ---------------------------
(***************************************************************************)
(* What holds of the login for any number of browsers and of logins.       *)
(***************************************************************************)
EXTENDS OidcLogin, TLAPS

\* A user's next token is a token.
LEMMA NextTokenTyped ==
  ASSUME TypeOK, NEW b \in Browsers, issued[b] < MaxLogins
  PROVE  issued[b] + 1 \in 1..MaxLogins
BY BoundsAssumption DEF TypeOK

\* Every step keeps the types.
LEMMA TypeNext == TypeOK /\ [Next]_vars => TypeOK'
<1> SUFFICES ASSUME TypeOK, [Next]_vars PROVE TypeOK'
  OBVIOUS
<1> USE DEF TypeOK, Goto, Labels
<1>1. ASSUME NEW b \in Browsers, NEW g \in Goals, Visit(b, g) PROVE TypeOK'
  BY <1>1 DEF Visit
<1>2. ASSUME NEW b \in Browsers, RequireAuth(b) PROVE TypeOK'
  BY <1>2 DEF RequireAuth
<1>3. ASSUME NEW b \in Browsers, Login(b) PROVE TypeOK'
  BY <1>3 DEF Login
<1>4. ASSUME NEW b \in Browsers, Exchange(b) PROVE TypeOK'
  <2>1. CASE issued[b] < MaxLogins /\ issued' = [issued EXCEPT ![b] = @ + 1]
             /\ got' = [got EXCEPT ![b] = [owner |-> b, serial |-> issued'[b]]]
             /\ Goto(b, "store") /\ UNCHANGED clean
    <3>1. issued'[b] \in 1..MaxLogins
      BY <2>1, NextTokenTyped
    <3>2. [owner |-> b, serial |-> issued'[b]] \in IdToken
      BY <3>1 DEF IdToken
    <3>3. issued' \in [Browsers -> 0..MaxLogins]
      BY <2>1, <3>1
    <3> QED BY <1>4, <2>1, <3>2, <3>3 DEF Exchange
  <2>2. CASE got' = [got EXCEPT ![b] = None] /\ clean' = [clean EXCEPT ![b] = FALSE]
             /\ Goto(b, "verify") /\ UNCHANGED issued
    BY <1>4, <2>2 DEF Exchange
  <2>3. CASE Goto(b, "idle") /\ UNCHANGED <<got, clean, issued>>
    BY <1>4, <2>3 DEF Exchange
  <2> QED BY <1>4, <2>1, <2>2, <2>3 DEF Exchange
<1>5. ASSUME NEW b \in Browsers, StoreData(b) PROVE TypeOK'
  BY <1>5 DEF StoreData
<1>6. ASSUME NEW b \in Browsers, StoreLength(b) PROVE TypeOK'
  BY <1>6 DEF StoreLength
<1>7. ASSUME NEW b \in Browsers, Verify(b) PROVE TypeOK'
  BY <1>7 DEF Verify
<1>8. ASSUME NEW b \in Browsers, SetCookie(b) PROVE TypeOK'
  <2>1. IDToken \subseteq IdToken \cup {Mixed, None}
    BY DEF IDToken
  <2> QED BY <1>8, <2>1 DEF SetCookie
<1>9. ASSUME NEW b \in Browsers, Logout(b) PROVE TypeOK'
  BY <1>9 DEF Logout
<1>10. ASSUME NEW b \in Browsers, Fatal(b) PROVE TypeOK'
  <2>1. exits' \in 0..MaxExits
    BY <1>10, BoundsAssumption DEF Fatal
  <2> QED BY <1>10, <2>1 DEF Fatal
<1>11. ASSUME NEW t \in IdToken, Expire(t) PROVE TypeOK'
  BY <1>11 DEF Expire
<1>12. CASE Restart
  BY <1>12 DEF Restart
<1>13. CASE UNCHANGED vars
  BY <1>13 DEF vars
<1> QED BY <1>1, <1>2, <1>3, <1>4, <1>5, <1>6, <1>7, <1>8, <1>9, <1>10, <1>11, <1>12, <1>13
        DEF Next, Callback

-----------------------------------------------------------------------------
\* A step that moves one browser, writes nothing of Token, and moves it to no
\* place that TokenIsMine speaks of, keeps TokenIsMine.
LEMMA MoveAside ==
  ASSUME LoginInv, NEW b \in Browsers, UNCHANGED <<token, got, clean>>,
         pc' = [pc EXCEPT ![b] = pc'[b]],
         \/ pc'[b] \notin {"storing", "verify", "cookie"}
         \/ pc[b] = "verify" /\ pc'[b] = "cookie"
  PROVE  \A c \in Browsers : TokenIsMine(c)'
BY DEF LoginInv, TypeOK, TokenIsMine, WritesAlone

\* Every step keeps what a clean callback wrote.
LEMMA MineNext == LoginInv /\ [Next]_vars => LoginInv'
<1> SUFFICES ASSUME LoginInv, [Next]_vars PROVE \A c \in Browsers : TokenIsMine(c)'
  BY TypeNext DEF LoginInv
<1> USE DEF Goto
<1>0. TypeOK
  BY DEF LoginInv
<1>1. ASSUME NEW b \in Browsers, NEW g \in Goals, Visit(b, g)
      PROVE \A c \in Browsers : TokenIsMine(c)'
  BY <1>0, <1>1, MoveAside DEF Visit, TypeOK
<1>2. ASSUME NEW b \in Browsers, RequireAuth(b) PROVE \A c \in Browsers : TokenIsMine(c)'
  BY <1>0, <1>2, MoveAside DEF RequireAuth, TypeOK
<1>3. ASSUME NEW b \in Browsers, Login(b) PROVE \A c \in Browsers : TokenIsMine(c)'
  BY <1>0, <1>3, MoveAside DEF Login, TypeOK
<1>4. ASSUME NEW b \in Browsers, Exchange(b) PROVE \A c \in Browsers : TokenIsMine(c)'
  BY <1>4 DEF Exchange, LoginInv, TypeOK, TokenIsMine, WritesAlone
<1>5. ASSUME NEW b \in Browsers, StoreData(b) PROVE \A c \in Browsers : TokenIsMine(c)'
  BY <1>5 DEF StoreData, LoginInv, TypeOK, TokenIsMine, WritesAlone
<1>6. ASSUME NEW b \in Browsers, StoreLength(b) PROVE \A c \in Browsers : TokenIsMine(c)'
  BY <1>6 DEF StoreLength, LoginInv, TypeOK, TokenIsMine, WritesAlone
<1>7. ASSUME NEW b \in Browsers, Verify(b) PROVE \A c \in Browsers : TokenIsMine(c)'
  BY <1>0, <1>7, MoveAside DEF Verify, TypeOK
<1>8. ASSUME NEW b \in Browsers, SetCookie(b) PROVE \A c \in Browsers : TokenIsMine(c)'
  BY <1>0, <1>8, MoveAside DEF SetCookie, TypeOK
<1>9. ASSUME NEW b \in Browsers, Logout(b) PROVE \A c \in Browsers : TokenIsMine(c)'
  BY <1>9 DEF Logout, LoginInv, TokenIsMine, WritesAlone
<1>10. ASSUME NEW b \in Browsers, Fatal(b) PROVE \A c \in Browsers : TokenIsMine(c)'
  BY <1>10 DEF Fatal, TokenIsMine
<1>11. ASSUME NEW t \in IdToken, Expire(t) PROVE \A c \in Browsers : TokenIsMine(c)'
  BY <1>11 DEF Expire, LoginInv, TokenIsMine, WritesAlone
<1>12. CASE Restart
  BY <1>12 DEF Restart, LoginInv, TokenIsMine, WritesAlone
<1>13. CASE UNCHANGED vars
  BY <1>13 DEF vars, LoginInv, TokenIsMine, WritesAlone
<1> QED BY <1>1, <1>2, <1>3, <1>4, <1>5, <1>6, <1>7, <1>8, <1>9, <1>10, <1>11, <1>12, <1>13
        DEF Next, Callback

\* The invariant behind the two theorems.
LEMMA LoginInvariant == Spec => []LoginInv
<1>1. Init => LoginInv
  BY BoundsAssumption
     DEF Init, LoginInv, TypeOK, TokenIsMine, Labels, Goals
<1> QED BY <1>1, MineNext, PTL DEF Spec

(***************************************************************************)
(* The variables of the login keep their types.                            *)
(***************************************************************************)
THEOREM LoginTypeCorrect == Spec => []TypeOK
<1>1. LoginInv => TypeOK
  BY DEF LoginInv
<1> QED BY <1>1, LoginInvariant, PTL

(***************************************************************************)
(* With any number of browsers, a callback that no other disturbed and     *)
(* that received a token gives its browser that token.                     *)
(***************************************************************************)
THEOREM LoginIsOwnAlways == Spec => LoginIsOwn
<1> DEFINE Own == \A b \in Browsers :
             clean[b] /\ cookie'[b] # cookie[b] /\ cookie'[b] # None => cookie'[b] = got[b]
<1>1. LoginInv /\ [Next]_vars => Own
  <2> SUFFICES ASSUME LoginInv, [Next]_vars, NEW b \in Browsers, clean[b],
                      cookie'[b] # cookie[b], cookie'[b] # None
               PROVE  cookie'[b] = got[b]
    OBVIOUS
  <2>0. TypeOK /\ TokenIsMine(b)
    BY DEF LoginInv
  <2>1. ASSUME NEW c \in Browsers, RequireAuth(c) PROVE FALSE
    BY <2>0, <2>1 DEF RequireAuth, TypeOK
  <2>2. ASSUME NEW c \in Browsers, Logout(c) PROVE FALSE
    BY <2>0, <2>2 DEF Logout, TypeOK
  <2>3. ASSUME NEW c \in Browsers, SetCookie(c) PROVE cookie'[b] = got[b]
    <3>1. c = b /\ cookie'[b] \in IDToken /\ pc[b] = "cookie"
      BY <2>0, <2>3 DEF SetCookie, TypeOK
    <3>2. IDToken = {got[b]}
      BY <2>0, <3>1 DEF TokenIsMine, IDToken
    <3> QED BY <3>1, <3>2
  <2>4. cookie' = cookie \/ \E c \in Browsers : RequireAuth(c) \/ Logout(c) \/ SetCookie(c)
    BY DEF Next, Callback, vars, Visit, Login, Exchange, StoreData, StoreLength, Verify, Fatal,
           Expire, Restart
  <2> QED BY <2>1, <2>2, <2>3, <2>4
<1>2. LoginInv /\ [Next]_vars => [Own]_vars
  BY <1>1
<1> QED BY <1>2, LoginInvariant, PTL DEF Spec, LoginIsOwn
=============================================================================
