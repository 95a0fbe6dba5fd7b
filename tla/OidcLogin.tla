------------------------------ MODULE OidcLogin ------------------------------
(***************************************************************************)
(* The login of core/main.go.  net/http runs every request in a goroutine  *)
(* of its own, and every callback unmarshals the answer of the provider    *)
(* into the one global Token, verifies Token.IDToken, then reads it again  *)
(* for the cookie.  Writing a string is writing its data and its length; a *)
(* reader that comes in between gets a mixture.                            *)
(***************************************************************************)
EXTENDS Integers

CONSTANTS
  Browsers,      \* one user each, one navigation at a time
  MaxLogins,     \* bound on the tokens the provider issues to each user
  MaxExits,      \* bound on the exits of the server
  EmptyAnswers,  \* may the provider answer with JSON that has neither id_token nor error?
  Mixed,         \* the data of one token with the length of another
  None           \* no cookie, the empty string

IdToken == [owner : Browsers, serial : 1..MaxLogins]

ASSUME BoundsAssumption ==
  MaxLogins \in Nat /\ MaxExits \in Nat /\ EmptyAnswers \in BOOLEAN
ASSUME StringsAssumption == Mixed # None /\ {Mixed, None} \cap IdToken = {}

VARIABLES
  token,    \* Token.IDToken: the token its data is of, and the one its length is of
  cookie,   \* the "token" cookie of each browser
  pc,       \* how far the navigation of each browser is
  goal,     \* what the browser asked for
  got,      \* the id_token in the answer its callback received, or None
  clean,    \* has no other callback written Token since this one began to?
  issued,   \* tokens issued to each user
  expired,  \* tokens that have expired
  up,       \* is the server running?
  exits     \* exits so far

vars == <<token, cookie, pc, goal, got, clean, issued, expired, up, exits>>

\* "core" and "token" are the guarded pages, "tilde" a core page whose URI has a + in base64.
Goals == {"core", "tilde", "token"}

Labels == {"idle", "auth", "login", "exchange", "store", "storing", "verify", "cookie"}

Init ==
  /\ token = [data |-> None, length |-> None]
  /\ cookie = [b \in Browsers |-> None]
  /\ pc = [b \in Browsers |-> "idle"]
  /\ goal = [b \in Browsers |-> "core"]
  /\ got = [b \in Browsers |-> None]
  /\ clean = [b \in Browsers |-> FALSE]
  /\ issued = [b \in Browsers |-> 0]
  /\ expired = {}
  /\ up = TRUE /\ exits = 0

-----------------------------------------------------------------------------
\* Two tokens may have the same length.
IDToken == IF token.data = token.length THEN {token.data} ELSE {token.data, Mixed}

\* What VerifyToken answers once it has the keys.
Valid(t) == t \in IdToken \ expired

Goto(b, label) == pc' = [pc EXCEPT ![b] = label]

\* A request to a guarded page.
Visit(b, g) ==
  /\ up /\ pc[b] = "idle"
  /\ goal' = [goal EXCEPT ![b] = g]
  /\ Goto(b, "auth")
  /\ UNCHANGED <<token, cookie, got, clean, issued, expired, up, exits>>

\* requireAuth: the redirect to /authentication, or the handler; that of /token
\* hands the token over and clears the cookie.
RequireAuth(b) ==
  /\ pc[b] = "auth"
  /\ \/ ~Valid(cookie[b]) /\ Goto(b, "login") /\ UNCHANGED cookie
     \/ /\ Valid(cookie[b]) /\ Goto(b, "idle")
        /\ cookie' = IF goal[b] = "token" THEN [cookie EXCEPT ![b] = None] ELSE cookie
  /\ UNCHANGED <<token, goal, got, clean, issued, expired, up, exits>>

\* authUser sends the browser to the provider, which sends it back with a code;
\* or the user gives up, the provider gives no code, or no server answers.
Login(b) ==
  /\ pc[b] = "login"
  /\ \/ up /\ Goto(b, "exchange")
     \/ Goto(b, "idle")
  /\ UNCHANGED <<token, cookie, goal, got, clean, issued, expired, up, exits>>

\* Slip: an answer with an error is not told from one with a token.
ExchangeUnchecked(b) ==
  /\ pc[b] = "exchange"
  /\ got' = [got EXCEPT ![b] = Mixed]
  /\ Goto(b, "store")
  /\ UNCHANGED <<token, cookie, goal, clean, issued, expired, up, exits>>

\* The provider answers with a token, with JSON that has no id_token (Unmarshal
\* then leaves Token.IDToken as it is), or not with what callback can use.
Exchange(b) ==
  /\ pc[b] = "exchange"
  /\ \/ /\ issued[b] < MaxLogins
        /\ issued' = [issued EXCEPT ![b] = @ + 1]
        /\ got' = [got EXCEPT ![b] = [owner |-> b, serial |-> issued'[b]]]
        /\ Goto(b, "store") /\ UNCHANGED clean
     \/ /\ EmptyAnswers
        /\ got' = [got EXCEPT ![b] = None]
        /\ clean' = [clean EXCEPT ![b] = FALSE]
        /\ Goto(b, "verify") /\ UNCHANGED issued
     \/ Goto(b, "idle") /\ UNCHANGED <<got, clean, issued>>
  /\ UNCHANGED <<token, cookie, goal, expired, up, exits>>

\* Slip: Token is filled once only.
StoreOnce(b) ==
  /\ pc[b] = "store"
  /\ token' = IF token.data = None THEN [token EXCEPT !.data = got[b]] ELSE token
  /\ clean' = [c \in Browsers |-> c = b /\ \A d \in Browsers : pc[d] # "storing"]
  /\ Goto(b, "storing")
  /\ UNCHANGED <<cookie, goal, got, issued, expired, up, exits>>

\* json.Unmarshal(body, &Token), the data of the string
StoreData(b) ==
  /\ pc[b] = "store"
  /\ token' = [token EXCEPT !.data = got[b]]
  /\ clean' = [c \in Browsers |-> c = b /\ \A d \in Browsers : pc[d] # "storing"]
  /\ Goto(b, "storing")
  /\ UNCHANGED <<cookie, goal, got, issued, expired, up, exits>>

\* ... and its length.  An error of Unmarshal (another field has the wrong type)
\* ends the callback, and what was stored stays.
StoreLength(b) ==
  /\ pc[b] = "storing"
  /\ token' = [token EXCEPT !.length = got[b]]
  /\ Goto(b, "verify") \/ Goto(b, "idle")
  /\ UNCHANGED <<cookie, goal, got, clean, issued, expired, up, exits>>

Verify(b) ==
  /\ pc[b] = "verify"
  /\ \E t \in IDToken : Goto(b, IF Valid(t) THEN "cookie" ELSE "idle")
  /\ UNCHANGED <<token, cookie, goal, got, clean, issued, expired, up, exits>>

\* The provider returns a + in the state as a space, which base64 does not decode:
\* the 400 goes out before the cookie is set.
SetCookie(b) ==
  /\ pc[b] = "cookie"
  /\ \/ goal[b] = "tilde" /\ Goto(b, "idle") /\ UNCHANGED cookie
     \/ /\ goal[b] # "tilde" /\ Goto(b, "auth")
        /\ \E t \in IDToken : cookie' = [cookie EXCEPT ![b] = t]
  /\ UNCHANGED <<token, goal, got, clean, issued, expired, up, exits>>

Logout(b) ==
  /\ up /\ pc[b] = "idle"
  /\ cookie' = [cookie EXCEPT ![b] = None]
  /\ UNCHANGED <<token, pc, goal, got, clean, issued, expired, up, exits>>

Expire(t) ==
  /\ t.serial <= issued[t.owner]
  /\ expired' = expired \cup {t}
  /\ UNCHANGED <<token, cookie, pc, goal, got, clean, issued, up, exits>>

\* VerifyToken cannot fetch the keys: log.Fatalf ends every request with the server.
Fatal(b) ==
  /\ exits < MaxExits
  /\ \/ pc[b] = "verify"
     \/ pc[b] = "auth" /\ cookie[b] # None
  /\ exits' = exits + 1 /\ up' = FALSE
  /\ pc' = [c \in Browsers |-> IF pc[c] = "login" THEN "login" ELSE "idle"]
  /\ token' = [data |-> None, length |-> None]
  /\ UNCHANGED <<cookie, goal, got, clean, issued, expired>>

Restart ==
  /\ ~up /\ up' = TRUE
  /\ UNCHANGED <<token, cookie, pc, goal, got, clean, issued, expired, exits>>

Callback(b) ==
  Exchange(b) \/ StoreData(b) \/ StoreLength(b) \/ Verify(b) \/ SetCookie(b)

Next ==
  \/ \E b \in Browsers :
       \/ \E g \in Goals : Visit(b, g)
       \/ RequireAuth(b) \/ Login(b) \/ Callback(b) \/ Logout(b) \/ Fatal(b)
  \/ \E t \in IdToken : Expire(t)
  \/ Restart

Spec == Init /\ [][Next]_vars

-----------------------------------------------------------------------------
(***************************************************************************)
(* Type invariant: the value every variable of the model ranges over.      *)
(***************************************************************************)
TypeOK ==
  /\ token \in [data : IdToken \cup {None}, length : IdToken \cup {None}]
  /\ cookie \in [Browsers -> IdToken \cup {Mixed, None}]
  /\ pc \in [Browsers -> Labels]
  /\ goal \in [Browsers -> Goals]
  /\ got \in [Browsers -> IdToken \cup {None}]
  /\ clean \in [Browsers -> BOOLEAN]
  /\ issued \in [Browsers -> 0..MaxLogins]
  /\ expired \subseteq IdToken
  /\ up \in BOOLEAN /\ exits \in 0..MaxExits

(***************************************************************************)
(* A callback that no other callback disturbed, and that received a token, *)
(* gives its browser that very token, whatever earlier logins left in the  *)
(* global Token.                                                           *)
(***************************************************************************)
LoginIsOwn ==
  [][\A b \in Browsers :
       clean[b] /\ cookie'[b] # cookie[b] /\ cookie'[b] # None => cookie'[b] = got[b]]_vars

(***************************************************************************)
(* "Store the access token ... in a cookie to track user authentication"   *)
(* (main.go line 165): the cookie of a browser is a token of its user.     *)
(***************************************************************************)
CookieIsOwn == \A b \in Browsers : \A t \in IdToken : cookie[b] = t => t.owner = b

-----------------------------------------------------------------------------
\* No other callback is between the two halves of its write.
WritesAlone(b) == \A c \in Browsers \ {b} : pc[c] # "storing"

(***************************************************************************)
(* What makes LoginIsOwn hold: while a callback is clean the global Token  *)
(* holds what it wrote, so that both of its reads find it.                 *)
(***************************************************************************)
TokenIsMine(b) ==
  clean[b] =>
    /\ pc[b] = "storing" => token.data = got[b] /\ WritesAlone(b)
    /\ pc[b] \in {"verify", "cookie"} =>
         token.data = got[b] /\ token.length = got[b] /\ WritesAlone(b)

LoginInv == TypeOK /\ \A b \in Browsers : TokenIsMine(b)
=============================================================================
